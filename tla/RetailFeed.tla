----------------------------- MODULE RetailFeed -----------------------------
(***************************************************************************)
(* Vision's retail stream and RetailSubscriber: Vision publishes at most   *)
(* one POS and then one EXIT transition for each customer over PUB/SUB,    *)
(* which keeps the order but may lose a message, and a transition may come *)
(* again at any later time.  The queues are not drained here, so they are  *)
(* the log of everything the subscriber emitted.                           *)
(***************************************************************************)
EXTENDS RetailSubscriber, FiniteSets, Functions

CONSTANTS
    PickSets,  \* counts Vision may report for a customer
    Losses,    \* bound on the messages lost
    Repeats    \* bound on the messages received again

ASSUME ItemsAssumption == NItems \in Nat \ {0}
ASSUME CustomersAssumption == IsFiniteSet(Customers)
ASSUME PicksAssumption == PickSets \subseteq [1..NItems -> Nat]

VARIABLES
    stage,     \* of each customer: shopping, kiosk or left
    wire,      \* messages on the way
    received,  \* history: the transitions that reached the subscriber
    lost, repeated

subscriberVars == <<lastCounts, posSeen, seenTransitions, eventQueue, sessionQueue>>
feedVars == <<subscriberVars, stage, wire, received, lost, repeated>>

FeedInit ==
    /\ Init /\ eventQueue = <<>> /\ sessionQueue = <<>>
    /\ stage = [c \in Customers |-> "shopping"]
    /\ wire = <<>> /\ received = {} /\ lost = 0 /\ repeated = 0

Transition(c, state, picked) ==
    [customer |-> c, state |-> state, picked |-> picked,
     timestamp |-> IF state = "POS" THEN 1 ELSE 2]

Publish(c, state) ==
    /\ \E picked \in PickSets : wire' = Append(wire, Transition(c, state, picked))
    /\ UNCHANGED <<subscriberVars, received, lost, repeated>>

Approach(c) ==
    /\ stage[c] = "shopping"
    /\ stage' = [stage EXCEPT ![c] = "kiosk"]
    /\ Publish(c, "POS")

Leave(c) ==
    /\ stage[c] # "left"
    /\ stage' = [stage EXCEPT ![c] = "left"]
    /\ Publish(c, "EXIT")

Receive ==
    /\ wire # <<>>
    /\ ProcessTransition(Head(wire))
    /\ wire' = Tail(wire)
    /\ received' = received \union {Head(wire)}
    /\ UNCHANGED <<stage, lost, repeated>>

ReceiveAgain ==
    /\ repeated < Repeats
    /\ \E m \in received : ProcessTransition(m)
    /\ repeated' = repeated + 1
    /\ UNCHANGED <<stage, wire, received, lost>>

Lose ==
    /\ wire # <<>> /\ lost < Losses
    /\ wire' = Tail(wire)
    /\ lost' = lost + 1
    /\ UNCHANGED <<subscriberVars, stage, received, repeated>>

FeedNext ==
    \/ \E c \in Customers : Approach(c)
    \/ \E c \in Customers : Leave(c)
    \/ Receive
    \/ ReceiveAgain
    \/ Lose

FeedSpec == FeedInit /\ [][FeedNext]_feedVars

-----------------------------------------------------------------------------
(* Properties. *)

Emitted(i) ==
    SumFunction([n \in DOMAIN eventQueue |->
                    IF eventQueue[n].item = i THEN eventQueue[n].qty ELSE 0])

(* What the received transitions show customer c to have taken of i: the   *)
(* counts only matter where they rise, so it is the largest of them.       *)
Shown(c, i) ==
    LET reports == {m.picked[i] : m \in {n \in received : n.customer = c}}
    IN  CHOOSE q \in reports \union {0} : \A r \in reports : r <= q

(* The pick events add up to exactly what Vision has shown, although POS   *)
(* and EXIT repeat the counts, a count may be corrected downwards, and     *)
(* transitions are lost or come again.                                     *)
PicksAddUp == \A i \in Items : Emitted(i) = SumFunction([c \in Customers |-> Shown(c, i)])

(* The loop gets one session for each transition received, in whatever     *)
(* order and however often it arrived: no exit is judged twice.            *)
OneSessionEach ==
    /\ Len(sessionQueue) = Cardinality(received)
    /\ \A m \in received : \E n \in DOMAIN sessionQueue :
          sessionQueue[n].customer = m.customer /\ sessionQueue[n].kind = m.state

(* was_at_kiosk of an exit tells whether the POS transition of the same    *)
(* customer was received.                                                  *)
KioskFlagRight ==
    \A n \in DOMAIN sessionQueue :
        LET s == sessionQueue[n]
        IN  s.kind = "EXIT" =>
                (s.wasAtKiosk <=> \E m \in received : m.customer = s.customer /\ m.state = "POS")
=============================================================================
