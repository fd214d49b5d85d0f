----------------------------- MODULE FusionLoop -----------------------------
(***************************************************************************)
(* The central loop of fusion_pc (main.py) with everything that feeds it:  *)
(* the checkout and StateManager (PosSession), the Vision subscriber       *)
(* (RetailSubscriber) and the customers in the store.  The loop matches    *)
(* POS payments with the customers Vision reports, and judges each exit.   *)
(*                                                                         *)
(* Time is counted in ticks.  Deadlines and ages are kept as the ticks     *)
(* still to go or gone by, so the model needs no clock.                    *)
(***************************************************************************)
EXTENDS PosSession, ExitVerdict, Functions

CONSTANTS
    Customers,
    PickSets,       \* counts Vision may report, for each customer
    Grace,          \* CUSTOMER_EXIT_GRACE_SEC in ticks
    Window,         \* PAYMENT_ASSOCIATION_WINDOW_SEC in ticks
    WireDelay,      \* ticks a Vision message may take
    Prompt,         \* the loop handles what has arrived within the tick
    EmptySessions,  \* customers may press DONE without a scan
    MayEnd,         \* a write of the loop may raise, the operator may quit
    Losses,         \* bound on the Vision messages lost
    Repeats,        \* bound on the Vision messages received twice
    Resets          \* bound on the operator's resets

ASSUME TimeAssumption == Grace \in Nat /\ Window \in Nat /\ WireDelay \in Nat

VARIABLES
    (* The store. *)
    stage,          \* of each customer: shopping, kiosk, paid or left
    waited,         \* a tick has passed since the kiosk changed hands
    truePaid,       \* history: what each customer scanned in finished sessions
    visitedPos,     \* history: customers Vision confirmed at the kiosk
    wire,           \* Vision messages on the way
    lost, repeated, resets,       \* counters of the faults (bounds)
    (* RetailSubscriber and its queues. *)
    lastCounts, posSeen, seenTransitions, eventQueue, sessionQueue,
    (* The loop. *)
    loop,           \* sessions, exits, events: its parts; dead: it ended
    activeCustomer, \* active_customer_id
    paidByCustomer, \* paid_by_customer
    pendingExits,   \* pending_exits
    unassigned,     \* unassigned_payment
    verdicts,       \* history: results of finalize_customer_exit
    emergencies     \* jobs submitted to the EmergencyDispatcher

storeVars == <<stage, waited, truePaid, visitedPos>>
faultVars == <<lost, repeated, resets>>
visionVars == <<lastCounts, posSeen, seenTransitions>>
bookVars == <<activeCustomer, paidByCustomer, unassigned>>
outcomeVars == <<verdicts, emergencies>>
loopVars == <<loop, bookVars, pendingExits, outcomeVars>>
fusionVars == <<sessionVars, storeVars, wire, faultVars, visionVars, eventQueue,
                sessionQueue, loopVars>>

Vision == INSTANCE RetailSubscriber

NoCustomer == "none"
NoPayment == [items |-> Zero, age |-> Window + 1]
NotPaid == [i \in {} |-> 0]

FusionInit ==
    /\ SessionInit
    /\ stage = [c \in Customers |-> "shopping"] /\ waited = TRUE
    /\ truePaid = [c \in Customers |-> Zero] /\ visitedPos = {}
    /\ wire = <<>> /\ lost = 0 /\ repeated = 0 /\ resets = 0
    /\ Vision!Init /\ eventQueue = <<>> /\ sessionQueue = <<>>
    /\ loop = "sessions"
    /\ activeCustomer = NoCustomer /\ unassigned = NoPayment
    /\ paidByCustomer = [c \in Customers |-> NotPaid]
    /\ pendingExits = <<>> /\ verdicts = <<>> /\ emergencies = <<>>

-----------------------------------------------------------------------------
(* The store and Vision's transitions (outside fusion_pc).                 *)

AtKiosk == {c \in Customers : stage[c] \in {"kiosk", "paid"}}

Message(c, state, picked) ==
    [customer |-> c, state |-> state, picked |-> picked,
     timestamp |-> IF state = "POS" THEN 1 ELSE 2, age |-> 0]

Publish(c, state) ==
    \E picked \in PickSets[c] : wire' = Append(wire, Message(c, state, picked))

(* A customer reaches the free kiosk and Vision publishes POS.  Getting    *)
(* there once it is free takes at least a tick, and so does using it.      *)
Approach(c) ==
    /\ stage[c] = "shopping" /\ AtKiosk = {} /\ waited
    /\ stage' = [stage EXCEPT ![c] = "kiosk"]
    /\ visitedPos' = visitedPos \union {c}
    /\ waited' = FALSE
    /\ Publish(c, "POS")
    /\ UNCHANGED <<sessionVars, truePaid, faultVars, visionVars, eventQueue,
                   sessionQueue, loopVars>>

(* A customer leaves the store and Vision publishes EXIT. *)
Leave(c) ==
    /\ stage[c] # "left"
    /\ stage' = [stage EXCEPT ![c] = "left"]
    /\ waited' = (waited /\ c \notin AtKiosk)
    /\ Publish(c, "EXIT")
    /\ UNCHANGED <<sessionVars, truePaid, visitedPos, faultVars, visionVars,
                   eventQueue, sessionQueue, loopVars>>

(* The customer at the kiosk uses the checkout; the board prints its last  *)
(* line on its own.                                                        *)
Scanning ==
    \/ POS!SelectUser("CUSTOMER")
    \/ \E i \in Items : POS!AddScan(i)
    \/ POS!Cancel

PressDone(c) ==
    /\ waited
    /\ EmptySessions \/ count # Zero
    /\ POS!Finish
    /\ stage' = [stage EXCEPT ![c] = "paid"]
    /\ truePaid' = [truePaid EXCEPT ![c] = [i \in Items |-> @[i] + count[i]]]

Checkout ==
    /\ Len(uart) < Backlog
    /\ \/ \E c \in AtKiosk :
            /\ stage[c] = "kiosk"
            /\ \/ Scanning /\ UNCHANGED <<stage, truePaid>>
               \/ PressDone(c)
       \/ POS!Summarise /\ UNCHANGED <<stage, truePaid>>
    /\ UNCHANGED <<vars, waited, visitedPos, wire, faultVars, visionVars, eventQueue,
                   sessionQueue, loopVars>>

-----------------------------------------------------------------------------
(* The threads that fill the queues.                                       *)

Alive == loop # "dead"

(* SerialEventReader.run(): one parsed line. *)
SerialRead ==
    /\ Alive /\ uart # <<>>
    /\ eventQueue' = Append(eventQueue, Head(uart))
    /\ uart' = Tail(uart)
    /\ UNCHANGED <<vars, firmwareVars, storeVars, wire, faultVars, visionVars,
                   sessionQueue, loopVars>>

(* A line is lost while the reader reconnects. *)
LoseCheckoutLine ==
    /\ LoseLine
    /\ UNCHANGED <<storeVars, wire, faultVars, visionVars, eventQueue, sessionQueue,
                   loopVars>>

(* RetailCustomerSubscriber.run(): one message, which may come again. *)
ReceiveTransition ==
    /\ Alive /\ wire # <<>>
    /\ Vision!ProcessTransition(Head(wire))
    /\ \/ wire' = Tail(wire) /\ UNCHANGED repeated
       \/ wire' = wire /\ repeated < Repeats /\ repeated' = repeated + 1
    /\ UNCHANGED <<sessionVars, storeVars, lost, resets, loopVars>>

(* PUB/SUB drops a message (no subscriber yet, high-water mark). *)
LoseTransition ==
    /\ wire # <<>> /\ lost < Losses
    /\ lost' = lost + 1
    /\ wire' = Tail(wire)
    /\ UNCHANGED <<sessionVars, storeVars, repeated, resets, visionVars, eventQueue,
                   sessionQueue, loopVars>>

(* manual_console(): the operator types reset. *)
ConsoleReset ==
    /\ Alive /\ resets < Resets
    /\ resets' = resets + 1
    /\ eventQueue' = Append(eventQueue, [kind |-> "SYSTEM_RESET"])
    /\ UNCHANGED <<sessionVars, storeVars, wire, lost, repeated, visionVars,
                   sessionQueue, loopVars>>

-----------------------------------------------------------------------------
(* The loop, first part: Vision sessions.                                  *)

Usable == unassigned.age <= Window

PaymentStays(c) ==  \* mutant: a payment that was taken stays usable
    /\ activeCustomer' = c
    /\ paidByCustomer' = IF Usable THEN [paidByCustomer EXCEPT ![c] = unassigned.items]
                         ELSE paidByCustomer
    /\ UNCHANGED <<unassigned, pendingExits>>

(* CUSTOMER_POS: the customer is active and takes a waiting payment. *)
CustomerPos(c) ==
    /\ activeCustomer' = c
    /\ paidByCustomer' = IF Usable THEN [paidByCustomer EXCEPT ![c] = unassigned.items]
                         ELSE paidByCustomer
    /\ unassigned' = IF Usable THEN NoPayment ELSE unassigned
    /\ UNCHANGED pendingExits

ForgetExit(s) ==  \* mutant: only the active customer's exit is kept
    /\ pendingExits' = IF activeCustomer = s.customer
                       THEN Append(pendingExits, [session |-> s, due |-> Grace])
                       ELSE pendingExits
    /\ UNCHANGED bookVars

JudgeAtOnce(s) ==  \* mutant: no grace for the payment in transit
    /\ pendingExits' = Append(pendingExits, [session |-> s, due |-> 0])
    /\ UNCHANGED bookVars

(* CUSTOMER_EXIT: the decision waits for a PAY_DONE in transit. *)
CustomerExit(s) ==
    /\ pendingExits' = Append(pendingExits, [session |-> s, due |-> Grace])
    /\ UNCHANGED bookVars

TakeSession ==
    /\ loop = "sessions" /\ sessionQueue # <<>>
    /\ sessionQueue' = Tail(sessionQueue)
    /\ LET s == Head(sessionQueue) IN
         \/ s.kind = "POS" /\ CustomerPos(s.customer)
         \/ s.kind = "EXIT" /\ CustomerExit(s)
    /\ UNCHANGED <<sessionVars, storeVars, wire, faultVars, visionVars, eventQueue,
                   loop, outcomeVars>>

DueExit(exits) == exits # <<>> /\ Head(exits).due = 0

(* No session is left: exits whose grace is over come first, then an event. *)
AfterSessions(exits) == IF DueExit(exits) THEN "exits" ELSE "events"

SessionsDrained ==
    /\ loop = "sessions" /\ sessionQueue = <<>>
    /\ loop' = AfterSessions(pendingExits)
    /\ UNCHANGED <<sessionVars, storeVars, wire, faultVars, visionVars, eventQueue,
                   sessionQueue, bookVars, pendingExits, outcomeVars>>

-----------------------------------------------------------------------------
(* Second part: exits whose grace is over, oldest first.                   *)

(* A waiting payment is used up by the exit that has none of its own. *)
UseUpUnassigned(own) ==
    unassigned' = IF own = NotPaid /\ Usable THEN NoPayment ELSE unassigned

PaidFor(own) == IF own # NotPaid THEN own ELSE IF Usable THEN unassigned.items ELSE Zero

(* A critical exit: rider red light, then the emergency job. *)
RaiseAlarm(verdict) ==
    /\ led' = "RED"
    /\ emergencies' = Append(emergencies, [customer |-> verdict.customer,
                                           reason |-> verdict.code])

(* The writes between a verdict and its job are not guarded: the log, the  *)
(* rider's serial link, the push to the Pi.  If one raises, the loop       *)
(* unwinds; only the push comes after the red light.                       *)
BreakOff(code) ==
    /\ MayEnd /\ loop' = "dead"
    /\ led' = led \/ (Critical(code) /\ led' = "RED")
    /\ UNCHANGED emergencies

JudgeExit ==
    /\ loop = "exits"
    /\ LET s == Head(pendingExits).session
           own == paidByCustomer[s.customer]
           code == ExitCode(s.picked, PaidFor(own), s.wasAtKiosk)
           verdict == [customer |-> s.customer, picked |-> s.picked,
                       paid |-> PaidFor(own), code |-> code]
       IN  /\ verdicts' = Append(verdicts, verdict)
           /\ UseUpUnassigned(own)
           /\ \/ /\ loop' = AfterSessions(Tail(pendingExits))
                 /\ \/ Critical(code) /\ RaiseAlarm(verdict)
                    \/ ~Critical(code) /\ UNCHANGED <<led, emergencies>>
              \/ BreakOff(code)
           /\ paidByCustomer' = [paidByCustomer EXCEPT ![s.customer] = NotPaid]
           /\ activeCustomer' = IF activeCustomer = s.customer THEN NoCustomer
                                ELSE activeCustomer
    /\ pendingExits' = Tail(pendingExits)
    /\ UNCHANGED <<mode, result, customerVars, riderVars, pickVars, posVars, servo,
                   firmwareVars, uart, storeVars, wire, faultVars, visionVars,
                   eventQueue, sessionQueue>>

-----------------------------------------------------------------------------
(* Third part: one event of the queue.                                     *)

(* choose_customer_payment(), on the state the handler left. *)
CustomerPayment ==
    IF posReportedItems' # Zero THEN posReportedItems'
    ELSE IF posSessionItems' # Zero THEN posSessionItems'
    ELSE paidItems'

PaymentEdge == ~committed /\ committed' /\ mode' = "CUSTOMER"

(* A completed customer session is credited to the active customer, or     *)
(* waits for one.                                                          *)
CreditPayment ==
    IF PaymentEdge
    THEN \/ /\ activeCustomer # NoCustomer
            /\ paidByCustomer' = [paidByCustomer EXCEPT ![activeCustomer] = CustomerPayment]
            /\ UNCHANGED <<activeCustomer, unassigned>>
         \/ /\ activeCustomer = NoCustomer
            /\ unassigned' = [items |-> CustomerPayment, age |-> 0]
            /\ UNCHANGED <<activeCustomer, paidByCustomer>>
    ELSE UNCHANGED bookVars

(* The round is over.  The next one begins, unless a write raised (the log *)
(* or the rider's link) or the operator has quit: then nothing reads the   *)
(* state of the loop any more.                                             *)
NextRound == loop' = "sessions" \/ (MayEnd /\ loop' = "dead")

NextEvent(kind) ==
    /\ loop = "events" /\ eventQueue # <<>>
    /\ Head(eventQueue).kind = kind
    /\ eventQueue' = Tail(eventQueue)

HandlePosEvent ==
    /\ \E kind \in POS!LineKinds : NextEvent(kind)
    /\ Handle(Head(eventQueue))
    /\ CreditPayment
    /\ NextRound
    /\ UNCHANGED <<firmwareVars, uart, storeVars, wire, faultVars, visionVars,
                   sessionQueue, pendingExits, outcomeVars>>

HandlePick ==
    /\ NextEvent("REMOVE_CANDIDATE")
    /\ LET pick == Head(eventQueue) IN
         \/ RemoveCandidate(pick.item, pick.qty)
         \/ pick.item \in cooling /\ UNCHANGED vars
    /\ NextRound
    /\ UNCHANGED <<firmwareVars, uart, storeVars, wire, faultVars, visionVars,
                   sessionQueue, pendingExits, bookVars, outcomeVars>>

HandleReset ==
    /\ NextEvent("SYSTEM_RESET")
    /\ SystemReset
    /\ activeCustomer' = NoCustomer /\ unassigned' = NoPayment
    /\ paidByCustomer' = [c \in Customers |-> NotPaid]
    /\ pendingExits' = <<>>
    /\ NextRound
    /\ UNCHANGED <<firmwareVars, uart, storeVars, wire, faultVars, visionVars,
                   sessionQueue, outcomeVars>>

NoEvent ==
    /\ loop = "events" /\ eventQueue = <<>>
    /\ NextRound
    /\ UNCHANGED <<sessionVars, storeVars, wire, faultVars, visionVars, eventQueue,
                   sessionQueue, bookVars, pendingExits, outcomeVars>>

-----------------------------------------------------------------------------
(* Time.                                                                   *)

Older(age, most) == IF age < most THEN age + 1 ELSE most

(* Prompt: everything that has arrived is handled before the tick ends,    *)
(* and Vision messages are no older than WireDelay.                        *)
CaughtUp ==
    /\ uart = <<>> /\ eventQueue = <<>> /\ sessionQueue = <<>> /\ ~DueExit(pendingExits)
    /\ pc # "summary"
    /\ \A n \in DOMAIN wire : wire[n].age < WireDelay

Tick ==
    /\ loop \in {"sessions", "events"}
    /\ Prompt => CaughtUp /\ loop = "sessions"
    /\ waited' = TRUE
    /\ wire' = [n \in DOMAIN wire |-> [wire[n] EXCEPT !.age = Older(@, WireDelay)]]
    /\ pendingExits' = [n \in DOMAIN pendingExits |->
                           [pendingExits[n] EXCEPT !.due = IF @ = 0 THEN 0 ELSE @ - 1]]
    /\ unassigned' = IF unassigned.age < Window THEN [unassigned EXCEPT !.age = @ + 1]
                     ELSE NoPayment
    /\ cooling' = {}
    /\ UNCHANGED <<mode, result, customerVars, riderVars, inventoryRemovedItems, posVars,
                   outputVars, firmwareVars, uart, stage, truePaid, visitedPos,
                   faultVars, visionVars, eventQueue, sessionQueue, loop,
                   activeCustomer, paidByCustomer, outcomeVars>>

LoopStep ==
    \/ TakeSession
    \/ SessionsDrained
    \/ JudgeExit
    \/ HandlePosEvent
    \/ HandlePick
    \/ HandleReset
    \/ NoEvent

FusionNext ==
    \/ \E c \in Customers : Approach(c)
    \/ \E c \in Customers : Leave(c)
    \/ Checkout
    \/ SerialRead
    \/ LoseCheckoutLine
    \/ ReceiveTransition
    \/ LoseTransition
    \/ ConsoleReset
    \/ LoopStep
    \/ Tick

FusionSpec == FusionInit /\ [][FusionNext]_fusionVars

(* The loop and the reader threads run, and time passes. *)
FairFusionSpec ==
    /\ FusionSpec
    /\ WF_fusionVars(LoopStep)
    /\ WF_fusionVars(SerialRead)
    /\ WF_fusionVars(ReceiveTransition)
    /\ WF_fusionVars(Tick)

-----------------------------------------------------------------------------
(* Properties. *)

(* Every exit gets the code of the row of docs/SCENARIO_MATRIX.md that     *)
(* fits what the customer really paid and whether the customer really was  *)
(* at the kiosk, although PAY_DONE, the Vision messages and the end of the *)
(* grace race each other.                                                  *)
VerdictIsRight ==
    \A n \in DOMAIN verdicts :
        LET v == verdicts[n]
        IN  Situation(v.code, v.picked, truePaid[v.customer], v.customer \in visitedPos)

(* No customer is judged twice, although Vision messages are repeated, the *)
(* operator resets and the queues are handled late.                        *)
OneVerdictPerCustomer ==
    \A n, k \in DOMAIN verdicts :
        verdicts[n].customer = verdicts[k].customer => n = k

PaidInVerdicts(i) == SumFunction([n \in DOMAIN verdicts |-> verdicts[n].paid[i]])

(* A payment clears at most one exit: the exits judged so far together use *)
(* no more of a product than customers paid for.                           *)
CreditedWasSold == \A i \in Items : PaidInVerdicts(i) <= sold["CUSTOMER"][i]

Awaited(c) ==
    \/ \E n \in DOMAIN sessionQueue :
          sessionQueue[n].kind = "EXIT" /\ sessionQueue[n].customer = c
    \/ \E n \in DOMAIN pendingExits : pendingExits[n].session.customer = c
Settled(c) ==
    \E n \in DOMAIN verdicts :
        /\ verdicts[n].customer = c
        /\ Critical(verdicts[n].code) =>
               \E k \in DOMAIN emergencies : emergencies[k].customer = c

(* An exit the subscriber has queued is judged in the end, however many    *)
(* events wait, and with its emergency job if it is critical, unless the   *)
(* operator resets the system, or quits, or a write that raises ends the   *)
(* loop.                                                                   *)
ExitIsSettled == \A c \in Customers : Awaited(c) ~> Settled(c) \/ resets > 0 \/ loop = "dead"
=============================================================================
