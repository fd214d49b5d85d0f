------------------------------ MODULE RiderLoop ------------------------------
(***************************************************************************)
(* The central loop of fusion_pc (main.py) as the rider and the operator   *)
(* see it: orders typed at the console, events of any kind from any        *)
(* source, the commands they cause, written one by one to the rider's      *)
(* guide (RiderBoard), and the copy of the state the operations dashboard  *)
(* serves (ops_dashboard.py).  FusionLoop models the same loop as the      *)
(* customers see it; of them only the red light of a critical exit         *)
(* matters here.                                                           *)
(*                                                                         *)
(* A turn of the loop judges exits, takes orders and takes one event, and  *)
(* any of them may find nothing to do: between two of its steps (loop =    *)
(* "turn") each kind of step may come next.                                *)
(*                                                                         *)
(* StateManager's led and servo hold the commands handle() and set_order() *)
(* returned and the loop has not sent yet; otherwise Sent and NoMove.      *)
(***************************************************************************)
EXTENDS StateManager

CONSTANTS
    MaxOrders,    \* bound on the orders
    MaxScans,     \* bound on the scans of a product in the POS session and
                  \* in the rider's ledger
    MaxBought,    \* bound on a product in the customers' ledgers
    PowerLosses   \* bound on the power losses of the rider's board

ASSUME OrdersNotEmpty == Zero \notin Orders  \* the console refuses one

VARIABLES
    loop,            \* what the loop does next
    asleep,          \* in the pause after a rider command
    shown,           \* dashboard.data['fusion']
    air, lamp, arm,  \* RiderBoard
    orders, losses   \* bounds

boardVars == <<air, lamp, arm>>
boundVars == <<orders, losses>>
loopVars == <<loop, asleep, shown, boardVars, boundVars>>
riderLoopVars == <<vars, loopVars>>

Board == INSTANCE RiderBoard

Sent == "sent"
NoMove == -1
AllSent == led = Sent /\ servo = NoMove

(* FusionState as update_fusion() copies it: the values are copied, the    *)
(* ledgers are shared.                                                     *)
Copy == [mode |-> mode, result |-> result, order |-> orderItems,
         removed |-> riderRemoved, checked |-> riderCheckedItems]

LoopInit ==
    /\ mode = "IDLE" /\ result = "IDLE"
    /\ removedItems = Zero /\ paidItems = Zero /\ paymentBatches = 0
    /\ orderItems = Zero /\ riderRemoved = Zero /\ riderCheckedItems = Zero
    /\ inventoryRemovedItems = Zero /\ cooling = {}
    /\ posSessionItems = Zero /\ posReportedItems = Zero /\ committed = FALSE
    /\ led = Sent /\ servo = NoMove
    /\ loop = "turn" /\ asleep = FALSE
    /\ shown = Copy
    /\ Board!Init
    /\ orders = 0 /\ losses = 0

-----------------------------------------------------------------------------
(* The board.                                                              *)

BoardTakesLine ==
    /\ Board!TakeLine
    /\ UNCHANGED <<vars, loop, asleep, shown, boundVars>>

BoardLosesPower ==
    /\ losses < PowerLosses
    /\ losses' = losses + 1
    /\ Board!PowerCycle
    /\ UNCHANGED <<vars, loop, asleep, shown, orders>>

-----------------------------------------------------------------------------
(* Sending rider commands. *)

SendTogether ==  \* mutant: no pause between two commands
    /\ ~AllSent
    /\ \/ led = "OFF" /\ Board!Write(Board!ResetLine) /\ led' = Sent /\ servo' = NoMove
       \/ /\ led \notin {"OFF", Sent}
          /\ Board!Write(Board!Led(led)) /\ led' = Sent /\ UNCHANGED servo
       \/ /\ led = Sent
          /\ Board!Write(Board!Servo(servo)) /\ servo' = NoMove /\ UNCHANGED led
    /\ asleep' = FALSE

(* send_rider_command(): the next command is written, LED first, and the   *)
(* loop sleeps RIDER_COMMAND_GAP_SEC.                                      *)
SendCommand ==
    /\ ~AllSent /\ ~asleep
    /\ \/ led = "OFF" /\ Board!Write(Board!ResetLine) /\ led' = Sent /\ servo' = NoMove
       \/ /\ led \notin {"OFF", Sent}
          /\ Board!Write(Board!Led(led)) /\ led' = Sent /\ UNCHANGED servo
       \/ /\ led = Sent
          /\ Board!Write(Board!Servo(servo)) /\ servo' = NoMove /\ UNCHANGED led
    /\ asleep' = TRUE

Send ==
    /\ loop \in {"send", "sendOrder"}
    /\ SendCommand
    /\ UNCHANGED <<mode, result, customerVars, riderVars, pickVars, posVars, loop, shown,
                   boundVars>>

(* The pause is long enough for a line to arrive and be handled, but by a *)
(* board that is still in its boot delay.                                 *)
WakeUp ==
    /\ asleep /\ air = <<>>
    /\ asleep' = FALSE
    /\ UNCHANGED <<vars, loop, shown, boardVars, boundVars>>

SentAll ==
    /\ AllSent /\ ~asleep
    /\ \/ loop = "send" /\ loop' = "turn"
       \/ loop = "sendOrder" /\ loop' = "publishOrder"
    /\ UNCHANGED <<vars, asleep, shown, boardVars, boundVars>>

-----------------------------------------------------------------------------
(* The steps of a turn. *)

(* A customer exit is critical (FusionLoop!RaiseAlarm). *)
CriticalExit ==
    /\ loop = "turn"
    /\ led' = "RED" /\ loop' = "send"
    /\ UNCHANGED <<mode, result, customerVars, riderVars, pickVars, posVars, servo, asleep,
                   shown, boardVars, boundVars>>

(* An order typed at the console.  set_order() makes new ledgers, which    *)
(* the dashboard does not share yet.                                       *)
TakeOrder ==
    /\ loop = "turn" /\ orders < MaxOrders
    /\ \E order \in Orders : SetOrder(order)
    /\ orders' = orders + 1
    /\ loop' = "sendOrder"
    /\ UNCHANGED <<asleep, shown, boardVars, losses>>

(* update_fusion(), called after the commands of an order were sent. *)
UpdateAfterOrder ==
    /\ loop = "publishOrder"
    /\ shown' = Copy /\ loop' = "turn"
    /\ UNCHANGED <<vars, asleep, boardVars, boundVars>>

(* What the dashboard shows of an event it has not been told of: the       *)
(* ledgers it shares, unless SYSTEM_RESET, which alone turns the lamp off, *)
(* replaced them all.                                                      *)
SeenThrough ==
    IF led' = "OFF" THEN shown
    ELSE [shown EXCEPT !.order = orderItems', !.removed = riderRemoved',
                       !.checked = riderCheckedItems']

Bounded ==
    \A i \in Items : /\ posSessionItems'[i] <= MaxScans /\ riderCheckedItems'[i] <= MaxScans
                    /\ removedItems'[i] <= MaxBought /\ paidItems'[i] <= MaxBought

UpdateLast ==  \* mutant: the dashboard is told after the commands are sent
    /\ loop = "turn"
    /\ AnyEvent /\ Bounded
    /\ shown' = SeenThrough
    /\ loop' = "sendOrder"
    /\ UNCHANGED <<asleep, boardVars, boundVars>>

HandleEvent ==
    /\ loop = "turn"
    /\ AnyEvent /\ Bounded
    /\ shown' = SeenThrough
    /\ loop' = "publish"
    /\ UNCHANGED <<asleep, boardVars, boundVars>>

(* update_fusion(), called before the commands of an event are sent.  The  *)
(* cooldown ends here: a pick within it is dropped and changes nothing.    *)
UpdateAfterEvent ==
    /\ loop = "publish"
    /\ shown' = Copy /\ loop' = "send"
    /\ cooling' = {}
    /\ UNCHANGED <<mode, result, customerVars, riderVars, inventoryRemovedItems, posVars,
                   outputVars, asleep, boardVars, boundVars>>

LoopStep ==
    \/ CriticalExit
    \/ TakeOrder
    \/ UpdateAfterOrder
    \/ HandleEvent
    \/ UpdateAfterEvent
    \/ Send
    \/ WakeUp
    \/ SentAll

LoopNext ==
    \/ BoardTakesLine
    \/ BoardLosesPower
    \/ LoopStep

LoopSpec == LoopInit /\ [][LoopNext]_riderLoopVars

-----------------------------------------------------------------------------
(* Properties. *)

(* Everything the loop decided has reached the board. *)
Settled == AllSent /\ air = <<>>

(* What the rider sees: once the commands have arrived, a green lamp means *)
(* that order, Vision picks and POS scans are equal                        *)
(* (docs/RIDER_THREE_WAY_FLOW.md), although the board misses a command     *)
(* that is sent too soon, a critical exit paints the lamp red in between   *)
(* and the board loses power.                                              *)
LampTellsTheTruth == Settled /\ lamp = "GREEN" => ThreeWayMatch

(* While products of the order are missing the servo points at the first   *)
(* of them (docs/SCENARIO_MATRIX.md, rider scenarios), or still at one the *)
(* rider has since taken too many of: one event may report several pieces, *)
(* and WRONG_PICKUP moves nothing until the next right pick.  Only a board *)
(* that has lost its power may point elsewhere.                            *)
OverPicked == {i \in Items : riderRemoved[i] > orderItems[i]}
ServoPointsAtNext ==
    Settled /\ losses = 0 /\ Missing(orderItems, riderRemoved) # {}
        => arm \in {FirstMissing(orderItems, riderRemoved)} \union OverPicked

(* A browser may read the dashboard at any moment, and the ledgers it gets *)
(* are shared with the state manager.  Only between handle() and           *)
(* update_fusion() does it see a completed pickup over ledgers that differ.*)
DashboardAgrees ==
    shown.result = "PICKUP_COMPLETE" /\ loop # "publish"
        => /\ shown.order # Zero
           /\ shown.removed = shown.order /\ shown.checked = shown.order
=============================================================================
