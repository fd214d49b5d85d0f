--------------------------- MODULE RiderLoopProofs ---------------------------
(***************************************************************************)
(* Proofs about RiderLoop, for any products, orders, events and power      *)
(* losses: the lamp the rider sees, and the copy of the state the          *)
(* dashboard serves, tell the truth, and the servo points at the next      *)
(* product or at one picked too often, whatever the size of the picks.     *)
(***************************************************************************)
EXTENDS RiderLoop, StateManagerProofs, Sequences

Colours == {"OFF", "BLUE", "RED", "GREEN"}

Lines == {Board!Led(c) : c \in Colours} \union {Board!Servo(p) : p \in Places}
         \union {Board!ResetLine}

(* The link carries one line at most, and only during the pause.           *)
Paused ==
    /\ loop \in {"turn", "send", "sendOrder", "publishOrder", "publish"}
    /\ asleep \in BOOLEAN
    /\ asleep => loop \in {"send", "sendOrder"}
    /\ air = <<>> \/ (asleep /\ \E line \in Lines : air = <<line>>)
    /\ led \in Colours \union {Sent}
    /\ servo # NoMove => servo \in Places
    /\ loop \in {"turn", "publishOrder"} => AllSent

(* The colour the lamp will have once the commands decided have arrived.   *)
Coming ==
    IF led # Sent THEN led
    ELSE IF air = <<>> THEN lamp
    ELSE IF Head(air).device = "LED" THEN Head(air).to
    ELSE IF Head(air).device = "RESET" THEN "OFF"
    ELSE lamp

(* What a copy of the state may show. *)
Agrees(copy) ==
    copy.result = "PICKUP_COMPLETE" =>
        copy.order # Zero /\ copy.removed = copy.order /\ copy.checked = copy.order

LampInv ==
    /\ Ledgers /\ Paused
    /\ Coming = "GREEN" => Match
    /\ result = "PICKUP_COMPLETE" => Match /\ mode = "RIDER"
    /\ loop \in {"turn", "send"} => shown = Copy
    /\ loop \in {"sendOrder", "publishOrder"} => Agrees(shown)

-----------------------------------------------------------------------------
(* The lines. *)

LEMMA LineFacts ==
    /\ \A c : Board!Led(c).device = "LED" /\ Board!Led(c).to = c
    /\ \A p : Board!Servo(p).device = "SERVO" /\ Board!Servo(p).to = p
    /\ Board!ResetLine.device = "RESET"
    /\ \A line \in Lines : line.device \in {"LED", "SERVO", "RESET"}
  BY DEF Board!Led, Board!Servo, Board!ResetLine, Lines

LEMMA LampInit == LoopInit => LampInv
<1> SUFFICES ASSUME LoopInit PROVE LampInv
  OBVIOUS
<1>1. Ledgers
  <2>1. Zero \in Ledger
    BY LedgerFacts
  <2>2. mode \in Modes /\ result \in Results /\ committed \in BOOLEAN
    BY DEF LoopInit, Modes, Results
  <2>3. cooling \subseteq Items /\ paymentBatches \in Nat
    BY DEF LoopInit
  <2> QED
    BY <2>1, <2>2, <2>3 DEF LoopInit, Ledgers
<1>2. led = Sent /\ servo = NoMove /\ loop = "turn" /\ air = <<>> /\ lamp = "OFF"
  BY DEF LoopInit, Board!Init
<1>3. asleep \in BOOLEAN /\ ~asleep /\ result = "IDLE" /\ shown = Copy
  BY DEF LoopInit
<1> QED
  BY <1>1, <1>2, <1>3 DEF LampInv, Paused, Coming, AllSent

(* A step that leaves the rules' state and the coming colour alone. *)
LEMMA Untouched ==
    ASSUME LampInv, Paused',
           UNCHANGED <<mode, result, customerVars, riderVars, posVars, inventoryRemovedItems, shown>>,
           cooling' \in {cooling, {}},
           Coming' # "GREEN" \/ Coming' = Coming,
           loop' = loop \/ (loop' = "turn" /\ loop = "send") \/ (loop' = "send" /\ loop = "turn")
             \/ (loop = "sendOrder" /\ loop' = "publishOrder")
    PROVE  LampInv'
<1>1. Ledgers'
  BY DEF LampInv, Ledgers, customerVars, riderVars, posVars
<1>2. (Match' <=> Match) /\ Copy' = Copy
  BY SameMatch DEF Match, Copy, riderVars, posVars, Zero, Items
<1>3. shown' = shown /\ (Agrees(shown)' <=> Agrees(shown))
  BY DEF Agrees, Zero, Items
<1> QED
  BY <1>1, <1>2, <1>3 DEF LampInv

-----------------------------------------------------------------------------
(* The board. *)

LEMMA TakeLineKeeps ==
    ASSUME LampInv, BoardTakesLine
    PROVE  LampInv'
<1>1. PICK line \in Lines : air = <<line>> /\ asleep
  BY DEF LampInv, Paused, BoardTakesLine, Board!TakeLine
<1>2. air' = <<>> /\ Head(air) = line /\ Board!Obey(line)
      /\ UNCHANGED <<vars, loop, asleep, shown>>
  BY <1>1 DEF BoardTakesLine, Board!TakeLine
<1>3. Paused'
  BY <1>2 DEF LampInv, Paused, AllSent, vars, outputVars, Colours, Places, Items, Home
<1>4. Coming' = Coming
  <2>1. CASE led # Sent
    BY <1>2, <2>1 DEF Coming, vars, outputVars, Sent
  <2>2. CASE led = Sent
    <3>1. lamp' = IF line.device = "LED" THEN line.to
                  ELSE IF line.device = "RESET" THEN "OFF" ELSE lamp
      BY <1>2, LineFacts DEF Board!Obey
    <3>2. air # <<>> /\ air' = <<>> /\ led' = Sent
      BY <1>1, <1>2, <2>2 DEF vars, outputVars, Sent
    <3> QED
      BY <1>2, <2>2, <3>1, <3>2 DEF Coming, Sent
  <2> QED
    BY <2>1, <2>2
<1> QED
  BY <1>2, <1>3, <1>4, Untouched DEF vars, pickVars

LEMMA PowerLossKeeps ==
    ASSUME LampInv, BoardLosesPower
    PROVE  LampInv'
<1>1. air' = <<>> /\ lamp' = "OFF" /\ UNCHANGED <<vars, loop, asleep, shown>>
  BY DEF BoardLosesPower, Board!PowerCycle
<1>2. Paused'
  BY <1>1 DEF LampInv, Paused, AllSent, vars, outputVars, Colours, Places, Items, Home
<1>3. Coming' # "GREEN" \/ Coming' = Coming
  BY <1>1 DEF Coming, vars, outputVars, Sent
<1> QED
  BY <1>1, <1>2, <1>3, Untouched DEF vars, pickVars

-----------------------------------------------------------------------------
(* Sending. *)

LEMMA SendKeeps ==
    ASSUME LampInv, Send
    PROVE  LampInv'
<1>1. air = <<>> /\ ~asleep /\ asleep' = TRUE /\ loop \in {"send", "sendOrder"}
      /\ UNCHANGED <<mode, result, customerVars, riderVars, pickVars, posVars, loop, shown>>
  BY DEF LampInv, Paused, Send, SendCommand
<1>2. CASE led = "OFF" /\ Board!Write(Board!ResetLine) /\ led' = Sent /\ servo' = NoMove
  <2>1. air' = <<Board!ResetLine>> /\ lamp' = lamp
    BY <1>1, <1>2 DEF Board!Write
  <2>2. air' # <<>> /\ Head(air') = Board!ResetLine
    BY <2>1
  <2>3. Paused'
    BY <1>1, <1>2, <2>1 DEF Paused, Lines, AllSent
  <2>4. Coming = "OFF" /\ Coming' = "OFF"
    BY <1>2, <2>2, LineFacts DEF Coming, Sent
  <2> QED
    BY <1>1, <2>3, <2>4, Untouched DEF pickVars
<1>3. CASE led \notin {"OFF", Sent} /\ Board!Write(Board!Led(led)) /\ led' = Sent /\ UNCHANGED servo
  <2>1. air' = <<Board!Led(led)>> /\ lamp' = lamp /\ led \in Colours
    BY <1>1, <1>3 DEF Board!Write, LampInv, Paused
  <2>2. air' # <<>> /\ Head(air') = Board!Led(led)
    BY <2>1
  <2>3. Paused'
    <3>1. Board!Led(led) \in Lines
      BY <2>1 DEF Lines
    <3>2. (servo # NoMove => servo \in Places)'
      BY <1>3 DEF LampInv, Paused, Places, Items, Home, NoMove
    <3> QED
      BY <1>1, <1>3, <2>1, <3>1, <3>2 DEF Paused, AllSent, Lines, Colours, Places, Items, Home
  <2>4. Coming = led /\ Coming' = led
    BY <1>3, <2>2, LineFacts DEF Coming, Sent
  <2> QED
    BY <1>1, <2>3, <2>4, Untouched DEF pickVars
<1>4. CASE led = Sent /\ Board!Write(Board!Servo(servo)) /\ servo' = NoMove /\ UNCHANGED led
  <2>1. air' = <<Board!Servo(servo)>> /\ lamp' = lamp /\ servo \in Places
    BY <1>1, <1>4 DEF Board!Write, LampInv, Paused, Send, SendCommand, AllSent
  <2>2. air' # <<>> /\ Head(air') = Board!Servo(servo)
    BY <2>1
  <2>3. Paused'
    <3>1. Board!Servo(servo) \in Lines
      BY <2>1 DEF Lines
    <3> QED
      BY <1>1, <1>4, <2>1, <3>1 DEF Paused, AllSent, Lines, Colours, Places, Items, Home
  <2>4. Coming = lamp /\ Coming' = lamp
    BY <1>1, <1>4, <2>1, <2>2, LineFacts DEF Coming, Sent
  <2> QED
    BY <1>1, <2>3, <2>4, Untouched DEF pickVars
<1> QED
  BY <1>2, <1>3, <1>4 DEF Send, SendCommand

LEMMA PauseKeeps ==
    ASSUME LampInv, WakeUp \/ SentAll
    PROVE  LampInv'
<1>1. /\ UNCHANGED <<vars, shown, boardVars>> /\ asleep' = FALSE /\ air = <<>>
      /\ loop' = loop \/ (loop = "send" /\ loop' = "turn" /\ AllSent)
           \/ (loop = "sendOrder" /\ loop' = "publishOrder" /\ AllSent)
  BY DEF WakeUp, SentAll, LampInv, Paused
<1>2. Paused'
  BY <1>1 DEF LampInv, Paused, AllSent, vars, outputVars, boardVars, Colours, Places, Items, Home
<1>3. Coming' = Coming
  BY <1>1 DEF Coming, vars, outputVars, boardVars, Sent
<1> QED
  BY <1>1, <1>2, <1>3, Untouched DEF vars, pickVars

-----------------------------------------------------------------------------
(* The turns of the loop. *)

LEMMA AlarmKeeps ==
    ASSUME LampInv, CriticalExit
    PROVE  LampInv'
<1>1. /\ led' = "RED" /\ loop = "turn" /\ loop' = "send"
      /\ UNCHANGED <<mode, result, customerVars, riderVars, pickVars, posVars, servo, asleep,
                     shown, boardVars>>
  BY DEF CriticalExit
<1>2. Paused'
  BY <1>1 DEF LampInv, Paused, AllSent, boardVars, Colours, Places, Items, Home
<1>3. Coming' # "GREEN"
  BY <1>1 DEF Coming, Sent
<1> QED
  BY <1>1, <1>2, <1>3, Untouched DEF pickVars

(* What handle() or set_order() does to the display, from a turn. *)
LEMMA EventKeeps ==
    ASSUME LampInv, loop = "turn", Next, loop' \in {"sendOrder", "publish"},
           UNCHANGED <<asleep, boardVars>>,
           loop' = "sendOrder" => Agrees(shown)'
    PROVE  LampInv'
<1>1. Ledgers' /\ LightKept /\ ResultKept /\ (UNCHANGED servo \/ servo' \in Places)
  BY LedgersStep, DisplayStep, ServoStep DEF LampInv
<1>2. led = Sent /\ servo = NoMove /\ air = <<>> /\ ~asleep
  BY DEF LampInv, Paused, AllSent
<1>3. led' \in Colours \/ led' = Sent
  BY <1>1, <1>2 DEF LightKept, Colours
<1>4. Paused'
  BY <1>1, <1>2, <1>3 DEF Paused, LampInv, boardVars, Colours, Places, Items, Home, Lines
<1>5. (Coming = "GREEN" => Match)'
  <2>1. led' # Sent => Coming' = led'
    BY DEF Coming, Sent
  <2>2. led' = Sent => Coming' = Coming
    BY <1>2 DEF Coming, boardVars, Sent
  <2> QED
    BY <1>1, <1>2, <2>1, <2>2 DEF LightKept, LampInv, Sent
<1>6. (result = "PICKUP_COMPLETE" => Match /\ mode = "RIDER")'
  BY <1>1 DEF ResultKept, LampInv
<1> QED
  BY <1>1, <1>4, <1>5, <1>6 DEF LampInv

LEMMA CopyAgrees == LampInv => Agrees(Copy)
  BY DEF LampInv, Agrees, Copy, Match, ThreeWayMatch

LEMMA OrderKeeps ==
    ASSUME LampInv, TakeOrder
    PROVE  LampInv'
<1>1. Next /\ loop = "turn" /\ loop' = "sendOrder" /\ UNCHANGED <<asleep, boardVars, shown>>
  BY DEF TakeOrder, Next
<1>2. Agrees(shown)'
  BY <1>1, CopyAgrees DEF LampInv, Agrees, Zero, Items
<1> QED
  BY <1>1, <1>2, EventKeeps

LEMMA HandleKeeps ==
    ASSUME LampInv, HandleEvent
    PROVE  LampInv'
<1>1. Next /\ loop = "turn" /\ loop' = "publish" /\ UNCHANGED <<asleep, boardVars>>
  BY DEF HandleEvent, Next
<1> QED
  BY <1>1, EventKeeps

LEMMA UpdateKeeps ==
    ASSUME LampInv, UpdateAfterOrder \/ UpdateAfterEvent
    PROVE  LampInv'
<1>1. /\ UNCHANGED <<mode, result, customerVars, riderVars, posVars, inventoryRemovedItems,
                     outputVars, asleep, boardVars>>
      /\ cooling' \in {cooling, {}} /\ shown' = Copy /\ ~asleep
      /\ (loop' = "turn" /\ AllSent) \/ loop' = "send"
  BY DEF UpdateAfterOrder, UpdateAfterEvent, vars, pickVars, LampInv, Paused
<1>2. Ledgers'
  BY <1>1 DEF LampInv, Ledgers, customerVars, riderVars, posVars
<1>3. (Match' <=> Match) /\ Copy' = Copy
  BY <1>1, SameMatch DEF Match, Copy, riderVars, posVars, Zero, Items
<1>4. Coming' = Coming
  BY <1>1 DEF Coming, outputVars, boardVars, Sent
<1>5. Paused'
  BY <1>1 DEF LampInv, Paused, AllSent, outputVars, boardVars, Colours, Places, Items, Home, Lines
<1> QED
  BY <1>1, <1>2, <1>3, <1>4, <1>5 DEF LampInv

LEMMA LampStep == LampInv /\ [LoopNext]_riderLoopVars => LampInv'
<1> SUFFICES ASSUME LampInv, [LoopNext]_riderLoopVars PROVE LampInv'
  OBVIOUS
<1>1. CASE UNCHANGED riderLoopVars
  <2>1. Paused'
    BY <1>1 DEF LampInv, Paused, riderLoopVars, vars, loopVars, boardVars, AllSent, outputVars,
       Colours, Places, Items, Home, Lines
  <2>2. Coming' = Coming
    BY <1>1 DEF Coming, riderLoopVars, vars, loopVars, boardVars, outputVars, Sent
  <2> QED
    BY <1>1, <2>1, <2>2, Untouched DEF riderLoopVars, vars, loopVars, pickVars
<1> QED
  BY <1>1, TakeLineKeeps, PowerLossKeeps, SendKeeps, PauseKeeps, AlarmKeeps, OrderKeeps,
     HandleKeeps, UpdateKeeps DEF LoopNext, LoopStep

(* A green lamp means a three-way match. *)
THEOREM LampIsTrue == LoopSpec => []LampTellsTheTruth
<1>1. LampInv => LampTellsTheTruth
  BY DEF LampInv, LampTellsTheTruth, Settled, AllSent, Coming, Match, Sent
<1> QED
  BY <1>1, LampInit, LampStep, PTL DEF LoopSpec

(* The dashboard shows no completed pickup over ledgers that differ. *)
THEOREM DashboardIsTrue == LoopSpec => []DashboardAgrees
<1>1. LampInv => DashboardAgrees
  <2> SUFFICES ASSUME LampInv PROVE DashboardAgrees
    OBVIOUS
  <2>1. loop # "publish" => Agrees(shown)
    BY CopyAgrees DEF LampInv, Paused
  <2> QED
    BY <2>1 DEF Agrees, DashboardAgrees
<1> QED
  BY <1>1, LampInit, LampStep, PTL DEF LoopSpec

-----------------------------------------------------------------------------
(* The servo.  A pick may complete a product and exceed it at once, and    *)
(* WRONG_PICKUP does not move the servo: it then points at a product       *)
(* picked too often, which stays so until there is a new order.            *)

MissingNow == Missing(orderItems, riderRemoved)
NextMissing == FirstMissing(orderItems, riderRemoved)
Right == {NextMissing} \union OverPicked

(* An event points the servo at the first missing product, or leaves it    *)
(* and takes products off the missing ones by exceeding them only.         *)
ServoGuides ==
    \/ MissingNow' = {}
    \/ servo' = NextMissing'
    \/ /\ UNCHANGED servo
       /\ MissingNow' \subseteq MissingNow /\ MissingNow \ MissingNow' \subseteq OverPicked'
       /\ OverPicked \subseteq OverPicked'

LEMMA SameMissing ==
    ASSUME UNCHANGED <<orderItems, riderRemoved>>
    PROVE  UNCHANGED <<MissingNow, NextMissing, OverPicked, Right>>
  BY DEF MissingNow, NextMissing, Missing, FirstMissing, OverPicked, Right, Items

(* The first missing product is the only one of its kind.                  *)
LEMMA FirstIsFirst ==
    ASSUME NEW order, NEW removed, NEW i \in Missing(order, removed),
           \A j \in Missing(order, removed) : i <= j
    PROVE  FirstMissing(order, removed) = i
<1> DEFINE M == Missing(order, removed)
<1>1. M \subseteq Nat
  BY DEF Missing, Items
<1>2. \A k \in M : (\A j \in M : k <= j) => k = i
  BY <1>1
<1> HIDE DEF M
<1> QED
  BY <1>2 DEF FirstMissing, M

(* What was right stays right under such an event that leaves the servo.   *)
LEMMA StaysRight ==
    ASSUME MissingNow' # {}, MissingNow' \subseteq MissingNow,
           MissingNow \ MissingNow' \subseteq OverPicked', OverPicked \subseteq OverPicked',
           NEW position \in Right
    PROVE  position \in Right'
<1>1. CASE position \in OverPicked
  BY <1>1 DEF Right
<1>2. CASE position = NextMissing
  <2>1. /\ NextMissing \in MissingNow /\ \A j \in MissingNow : NextMissing <= j
    BY FirstMissingIsMissing DEF NextMissing, MissingNow, Missing, Items
  <2>2. CASE position \in MissingNow'
    <3>1. \A j \in MissingNow' : position <= j
      BY <1>2, <2>1
    <3>2. NextMissing' = position
      BY <2>2, <3>1, FirstIsFirst DEF MissingNow, NextMissing, Missing, FirstMissing, Items
    <3> QED
      BY <3>2 DEF Right
  <2>3. CASE position \notin MissingNow'
    BY <1>2, <2>1, <2>3 DEF Right
  <2> QED
    BY <2>2, <2>3
<1> QED
  BY <1>1, <1>2 DEF Right

LEMMA CommitGuides ==
    ASSUME Ledgers, NEW force, Commit(force), UNCHANGED <<orderItems, riderRemoved>>
    PROVE  ServoGuides
<1>1. CASE UNCHANGED servo
  BY <1>1, SameMissing DEF ServoGuides
<1>2. CASE result' = "PICKUP_COMPLETE" /\ Verify
  <2>1. riderRemoved = orderItems
    BY <1>2, Zenon DEF Verify, Verdict
  <2>2. MissingNow' = {}
    BY <2>1 DEF MissingNow, Missing, Ledgers, Ledger
  <2> QED
    BY <2>2 DEF ServoGuides
<1> QED
  BY <1>1, <1>2 DEF Commit, Verify, Show, outputVars

LEMMA PickGuides ==
    ASSUME Ledgers, NEW i \in Items, NEW q \in Nat, RemoveCandidate(i, q)
    PROVE  ServoGuides
<1>1. UNCHANGED orderItems /\ orderItems \in Ledger /\ riderRemoved \in Ledger
  BY DEF RemoveCandidate, Ledgers
<1>2. CASE mode # "RIDER"
  BY <1>1, <1>2, SameMissing DEF RemoveCandidate, outputVars, ServoGuides
<1>3. CASE mode = "RIDER"
  <2>1. RiderPick(i) /\ riderRemoved' = Add(riderRemoved, i, q)
    BY <1>3 DEF RemoveCandidate
  <2>2. CASE riderRemoved'[i] > orderItems[i]
    <3>1. riderRemoved'[i] = riderRemoved[i] + q
          /\ \A j \in Items : j # i => riderRemoved'[j] = riderRemoved[j]
      BY <1>1, <2>1 DEF Add, Ledger
    <3>2. \A j \in Items : orderItems[j] \in Nat /\ riderRemoved[j] \in Nat
      BY <1>1 DEF Ledger
    <3>3. MissingNow' = {j \in Items : riderRemoved'[j] < orderItems[j]}
          /\ OverPicked' = {j \in Items : riderRemoved'[j] > orderItems[j]}
      BY <1>1 DEF MissingNow, Missing, OverPicked, Items
    <3>4. MissingNow' \subseteq MissingNow
      BY <2>2, <3>1, <3>2, <3>3 DEF MissingNow, Missing
    <3>5. MissingNow \ MissingNow' \subseteq {i} /\ i \in OverPicked'
      BY <2>2, <3>1, <3>3 DEF MissingNow, Missing
    <3>6. OverPicked \subseteq OverPicked'
      BY <2>2, <3>1, <3>3 DEF OverPicked
    <3>7. riderRemoved' # orderItems
      BY <1>1, <3>2, <2>2
    <3>8. ~(riderRemoved'[i] <= orderItems[i])
      BY <2>2, <3>1, <3>2
    <3>9. UNCHANGED servo
      BY <2>1, <3>7, <3>8, Zenon DEF RiderPick, Show
    <3> QED
      BY <3>4, <3>5, <3>6, <3>9 DEF ServoGuides
  <2>3. CASE riderRemoved' = orderItems
    <3>1. MissingNow' = {}
      BY <1>1, <2>3 DEF MissingNow, Missing, Ledger
    <3> QED
      BY <3>1 DEF ServoGuides
  <2>4. CASE ~(riderRemoved'[i] > orderItems[i]) /\ riderRemoved' # orderItems
    <3>1. /\ MissingNow' = Missing(orderItems, riderRemoved')
          /\ NextMissing' = FirstMissing(orderItems, riderRemoved')
      BY <1>1 DEF MissingNow, NextMissing, Missing, FirstMissing, Items
    <3>2. \/ Missing(orderItems, riderRemoved') # {}
             /\ ShowAndPoint("BLUE", FirstMissing(orderItems, riderRemoved'))
          \/ Missing(orderItems, riderRemoved') = {}
      BY <2>1, <2>4 DEF RiderPick
    <3> QED
      BY <3>1, <3>2 DEF ServoGuides, ShowAndPoint
  <2> QED
    BY <2>2, <2>3, <2>4
<1> QED
  BY <1>2, <1>3

(* Only SYSTEM_RESET turns the lamp off, and it sends the servo home.      *)
LEMMA GuideStep ==
    ASSUME Ledgers, Next, led # "OFF"
    PROVE  ServoGuides /\ (led' = "OFF" => servo' = Home)
<1> USE DEF Show, ShowAndPoint, outputVars
<1>1. CASE UNCHANGED <<led, servo, orderItems, riderRemoved>>
  BY <1>1, SameMissing DEF ServoGuides
<1>2. ASSUME NEW order \in Orders, SetOrder(order)
      PROVE  ServoGuides /\ (led' = "OFF" => servo' = Home)
  <2>1. order # Zero
    BY OrdersNotEmpty
  <2>2. /\ servo' = FirstMissing(order, Zero) /\ led' = "BLUE"
        /\ orderItems' = order /\ riderRemoved' = Zero
    BY <1>2, <2>1 DEF SetOrder
  <2>3. NextMissing' = FirstMissing(order, Zero)
    BY <2>2 DEF NextMissing, FirstMissing, Missing, Items
  <2> QED
    BY <2>2, <2>3 DEF ServoGuides
<1>3. ASSUME NEW m, SelectMode(m) PROVE ServoGuides /\ (led' = "OFF" => servo' = Home)
  BY <1>3, SameMissing DEF SelectMode, riderVars, ServoGuides
<1>4. CASE PosSessionStart \/ PosReset \/ PosBoot
  BY <1>1, <1>4 DEF PosSessionStart, PosReset, RollbackAndReset, PosBoot, riderVars
<1>5. ASSUME NEW i \in Items, Pay(i) PROVE ServoGuides /\ (led' = "OFF" => servo' = Home)
  BY <1>5, SameMissing DEF Pay, ServoGuides
<1>6. ASSUME NEW counts, PosCount(counts) PROVE ServoGuides /\ (led' = "OFF" => servo' = Home)
  BY <1>1, <1>6 DEF PosCount, riderVars
<1>7. ASSUME NEW force, Commit(force), UNCHANGED <<orderItems, riderRemoved>>
      PROVE  ServoGuides /\ (led' = "OFF" => servo' = Home)
  BY <1>7, CommitGuides DEF Commit, Verify
<1>8. CASE PayDone
  BY <1>7, <1>8 DEF PayDone, riderVars
<1>9. ASSUME NEW m, NEW summary, PosDoneSummary(m, summary)
      PROVE  ServoGuides /\ (led' = "OFF" => servo' = Home)
  BY <1>7, <1>9 DEF PosDoneSummary
<1>10. ASSUME NEW i \in Items, NEW q \in Quantities, RemoveCandidate(i, q)
       PROVE  ServoGuides /\ (led' = "OFF" => servo' = Home)
  <2>1. ServoGuides
    BY <1>10, PickGuides, QuantitiesAssumption
  <2>2. led' # "OFF"
    BY <1>10 DEF RemoveCandidate, RiderPick
  <2> QED
    BY <2>1, <2>2
<1>11. ASSUME NEW i, CooldownOver(i) PROVE ServoGuides /\ (led' = "OFF" => servo' = Home)
  BY <1>1, <1>11 DEF CooldownOver, riderVars
<1>12. CASE SystemReset
  <2>1. MissingNow' = {}
    <3>1. \A i \in Items : ~(Zero[i] < Zero[i])
      BY DEF Zero
    <3> QED
      BY <1>12, <3>1 DEF SystemReset, MissingNow, Missing, Items
  <2> QED
    BY <1>12, <2>1 DEF SystemReset, ServoGuides
<1> QED
  BY <1>2, <1>3, <1>4, <1>5, <1>6, <1>8, <1>9, <1>10, <1>11, <1>12 DEF Next, AnyEvent

(* Where the servo will point once the commands decided have arrived.      *)
ComingArm ==
    IF servo # NoMove THEN servo
    ELSE IF air = <<>> THEN arm
    ELSE IF Head(air).device = "LED" THEN arm
    ELSE Head(air).to

ArmInv ==
    /\ losses \in Nat
    /\ led = "OFF" => servo = Home
    /\ losses = 0 /\ MissingNow # {} => ComingArm \in Right

(* A step that leaves the order, the picks and the coming position alone. *)
LEMMA ArmUntouched ==
    ASSUME ArmInv, UNCHANGED <<orderItems, riderRemoved, losses>>, ComingArm' = ComingArm,
           led' = "OFF" => led = "OFF" /\ servo' = servo
    PROVE  ArmInv'
  BY SameMissing DEF ArmInv, Home

LEMMA ArmStep == ASSUME LampInv, ArmInv, [LoopNext]_riderLoopVars PROVE ArmInv'
<1>1. CASE BoardTakesLine
  <2>1. PICK line \in Lines : air = <<line>>
    BY <1>1 DEF LampInv, Paused, BoardTakesLine, Board!TakeLine
  <2>2. air' = <<>> /\ Head(air) = line /\ Board!Obey(line) /\ UNCHANGED <<vars, losses>>
    BY <1>1, <2>1 DEF BoardTakesLine, Board!TakeLine, boundVars
  <2>3. line.device = "RESET" => line.to = Home
    BY LineFacts DEF Lines, Board!Led, Board!Servo, Board!ResetLine
  <2>4. ComingArm' = ComingArm
    <3>1. air # <<>> /\ air' = <<>> /\ servo' = servo
      BY <2>1, <2>2 DEF vars, outputVars
    <3>2. arm' = IF line.device = "LED" THEN arm ELSE line.to
      BY <2>1, <2>2, <2>3, LineFacts DEF Board!Obey
    <3> QED
      BY <2>2, <3>1, <3>2 DEF ComingArm, NoMove
  <2> QED
    BY <2>2, <2>4, ArmUntouched DEF vars, riderVars, outputVars
<1>2. CASE BoardLosesPower
  <2>1. losses' = losses + 1 /\ UNCHANGED vars
    BY <1>2 DEF BoardLosesPower
  <2> QED
    BY <2>1 DEF ArmInv, vars, outputVars, Home
<1>3. CASE CriticalExit
  <2>1. /\ led' = "RED" /\ UNCHANGED <<orderItems, riderRemoved, losses, servo, air, arm>>
    BY <1>3 DEF CriticalExit, riderVars, boardVars, boundVars
  <2>2. ComingArm' = ComingArm
    BY <2>1 DEF ComingArm, NoMove
  <2> QED
    BY <2>1, <2>2, ArmUntouched
<1>4. ASSUME loop = "turn", Next, UNCHANGED <<boardVars, losses>> PROVE ArmInv'
  <2>1. led = Sent /\ servo = NoMove /\ air = <<>> /\ Ledgers
    BY <1>4 DEF LampInv, Paused, AllSent
  <2>2. led # "OFF"
    BY <2>1 DEF Sent
  <2>3. ServoGuides /\ (led' = "OFF" => servo' = Home)
    BY <1>4, <2>1, <2>2, GuideStep
  <2>4. UNCHANGED servo \/ servo' \in Places
    BY <1>4, <2>1, ServoStep
  <2>5. servo' # servo => ComingArm' = servo'
    BY <2>1, <2>4 DEF ComingArm, NoMove
  <2>6. servo' = servo => ComingArm' = ComingArm
    BY <1>4 DEF ComingArm, boardVars, NoMove
  <2>7. ASSUME MissingNow' # {}, losses = 0 PROVE ComingArm' \in Right'
    <3>1. CASE servo' = NextMissing'
      <4>1. NextMissing' \in MissingNow' /\ MissingNow' \subseteq Items
        BY <2>7, FirstMissingIsMissing DEF NextMissing, MissingNow, Missing, Items
      <4>2. NextMissing' # NoMove
        BY <4>1 DEF Items, NoMove
      <4> QED
        BY <2>1, <2>5, <3>1, <4>2 DEF Right
    <3>2. CASE /\ UNCHANGED servo
               /\ MissingNow' \subseteq MissingNow
               /\ MissingNow \ MissingNow' \subseteq OverPicked'
               /\ OverPicked \subseteq OverPicked'
      <4>1. ComingArm \in Right /\ ComingArm' = ComingArm
        BY <2>6, <2>7, <3>2 DEF ArmInv
      <4>2. \A position \in Right : position \in Right'
        BY <2>7, <3>2, StaysRight
      <4> QED
        BY <4>1, <4>2
    <3> QED
      BY <2>3, <2>7, <3>1, <3>2 DEF ServoGuides
  <2> QED
    BY <1>4, <2>3, <2>7 DEF ArmInv, Home
<1>5. CASE TakeOrder
  BY <1>4, <1>5 DEF TakeOrder, Next
<1>6. CASE HandleEvent
  BY <1>4, <1>6 DEF HandleEvent, Next, boundVars
<1>7. CASE UpdateAfterOrder \/ UpdateAfterEvent \/ WakeUp \/ SentAll \/ UNCHANGED riderLoopVars
  <2>1. UNCHANGED <<orderItems, riderRemoved, losses, led, servo, air, arm>>
    BY <1>7 DEF UpdateAfterOrder, UpdateAfterEvent, WakeUp, SentAll, riderLoopVars, loopVars, vars,
       riderVars, outputVars, boardVars, boundVars
  <2>2. ComingArm' = ComingArm
    BY <2>1 DEF ComingArm, NoMove
  <2> QED
    BY <2>1, <2>2, ArmUntouched
<1>8. CASE Send
  <2>1. air = <<>> /\ UNCHANGED <<orderItems, riderRemoved, losses>>
    BY <1>8 DEF LampInv, Paused, Send, SendCommand, riderVars, boundVars
  <2>2. CASE led = "OFF" /\ Board!Write(Board!ResetLine) /\ led' = Sent /\ servo' = NoMove
    <3>1. air' = <<Board!ResetLine>>
      BY <2>1, <2>2 DEF Board!Write
    <3>2. air' # <<>> /\ Head(air') = Board!ResetLine
      BY <3>1
    <3>3. ComingArm' = Home
      BY <2>2, <3>2 DEF ComingArm, Board!ResetLine
    <3>4. ComingArm = Home
      BY <2>2 DEF ArmInv, ComingArm, Home, NoMove
    <3> QED
      BY <2>1, <2>2, <3>3, <3>4, ArmUntouched DEF Sent
  <2>3. CASE led \notin {"OFF", Sent} /\ Board!Write(Board!Led(led)) /\ led' = Sent /\ UNCHANGED servo
    <3>1. air' = <<Board!Led(led)>> /\ arm' = arm
      BY <2>1, <2>3 DEF Board!Write
    <3>2. air' # <<>> /\ Head(air') = Board!Led(led)
      BY <3>1
    <3>3. ComingArm' = ComingArm
      BY <2>1, <2>3, <3>1, <3>2, LineFacts DEF ComingArm, NoMove
    <3> QED
      BY <2>1, <2>3, <3>3, ArmUntouched DEF Sent
  <2>4. CASE led = Sent /\ Board!Write(Board!Servo(servo)) /\ servo' = NoMove /\ UNCHANGED led
    <3>1. air' = <<Board!Servo(servo)>> /\ servo # NoMove
      BY <1>8, <2>1, <2>4 DEF Board!Write, Send, SendCommand, AllSent
    <3>2. air' # <<>> /\ Head(air') = Board!Servo(servo)
      BY <3>1
    <3>3. ComingArm' = ComingArm
      BY <2>4, <3>1, <3>2 DEF ComingArm, Board!Servo
    <3> QED
      BY <2>1, <2>4, <3>3, ArmUntouched DEF Sent
  <2> QED
    BY <1>8, <2>2, <2>3, <2>4 DEF Send, SendCommand
<1> QED
  BY <1>1, <1>2, <1>3, <1>5, <1>6, <1>7, <1>8 DEF LoopNext, LoopStep

LEMMA ArmInit == LoopInit => ArmInv
<1> SUFFICES ASSUME LoopInit PROVE ArmInv
  OBVIOUS
<1>1. orderItems = Zero /\ riderRemoved = Zero /\ led = Sent /\ losses = 0
  BY DEF LoopInit
<1>2. \A i \in Items : ~(Zero[i] < Zero[i])
  BY DEF Zero
<1>3. MissingNow = {}
  BY <1>1, <1>2 DEF MissingNow, Missing
<1> QED
  BY <1>1, <1>3 DEF ArmInv, Sent

(* Once the commands have arrived, and the board has not lost its power,   *)
(* the servo points at the first product the rider misses, or at one the   *)
(* rider has taken too many of (_rider_pick, set_order,                    *)
(* send_rider_command), however many pieces an event reports.              *)
THEOREM ServoIsRight == LoopSpec => []ServoPointsAtNext
<1>1. LampInv /\ ArmInv /\ [LoopNext]_riderLoopVars => ArmInv'
  BY ArmStep
<1>2. ArmInv => ServoPointsAtNext
  BY DEF ArmInv, ServoPointsAtNext, Settled, AllSent, ComingArm, MissingNow, NextMissing, Right
<1> QED
  BY <1>1, <1>2, LampInit, LampStep, ArmInit, PTL DEF LoopSpec
=============================================================================
