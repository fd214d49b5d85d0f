-------------------------- MODULE RetailSubscriber --------------------------
(***************************************************************************)
(* RetailCustomerSubscriber (adapters/retail_zmq.py): the thread that      *)
(* turns Vision's POS and EXIT transitions into pick events for the event  *)
(* queue and customer sessions for the session queue.  The ENTER events it  *)
(* also emits only set the zone on the display and are left out.           *)
(***************************************************************************)
EXTENDS Integers, Sequences

CONSTANTS NItems, Customers

VARIABLES
    lastCounts,       \* _last_counts; a customer without an entry counts zero
    posSeen,          \* _pos_seen
    seenTransitions,  \* _seen_transitions
    eventQueue,       \* event_queue, shared with the POS serial reader
    sessionQueue      \* customer_session_queue

Items == 1..NItems
NoPicks == [i \in Items |-> 0]

Init ==
    /\ lastCounts = [c \in Customers |-> NoPicks]
    /\ posSeen = {} /\ seenTransitions = {}

Pick(i, q) == [kind |-> "REMOVE_CANDIDATE", item |-> i, qty |-> q]

AllPicks(previous, current) ==  \* mutant: the counts instead of their increase
    LET some == SelectSeq([i \in Items |-> i], LAMBDA i : current[i] > 0)
    IN  [n \in DOMAIN some |-> Pick(some[n], current[some[n]])]

(* _emit_pick_deltas() walks the products and queues one event for each    *)
(* whose count rose; upTo[n] are the events of the first n products.       *)
PickDeltas(previous, current) ==
    LET upTo[n \in 0..NItems] ==
            IF n = 0 THEN <<>>
            ELSE IF current[n] > previous[n]
                 THEN Append(upTo[n - 1], Pick(n, current[n] - previous[n]))
                 ELSE upTo[n - 1]
    IN  upTo[NItems]

AnyAtKiosk(m) ==  \* mutant: the flag of whoever was at the kiosk
    [kind |-> m.state, customer |-> m.customer, picked |-> m.picked,
     wasAtKiosk |-> posSeen # {}]

Session(m) ==
    [kind |-> m.state, customer |-> m.customer, picked |-> m.picked,
     wasAtKiosk |-> m.customer \in posSeen]

Key(m) == <<m.customer, m.state, m.timestamp>>

Fresh(m) == TRUE  \* mutant: repeated transitions are not recognised
NotSeen(m) == Key(m) \notin seenTransitions

(* _process_transition() *)
ProcessTransition(m) ==
    IF NotSeen(m)
    THEN /\ seenTransitions' = seenTransitions \union {Key(m)}
         /\ eventQueue' = eventQueue \o PickDeltas(lastCounts[m.customer], m.picked)
         /\ sessionQueue' = Append(sessionQueue, Session(m))
         /\ \/ /\ m.state = "POS"
               /\ posSeen' = posSeen \union {m.customer}
               /\ lastCounts' = [lastCounts EXCEPT ![m.customer] = m.picked]
            \/ /\ m.state = "EXIT"
               /\ posSeen' = posSeen \ {m.customer}
               /\ lastCounts' = [lastCounts EXCEPT ![m.customer] = NoPicks]
    ELSE UNCHANGED <<lastCounts, posSeen, seenTransitions, eventQueue, sessionQueue>>
=============================================================================
