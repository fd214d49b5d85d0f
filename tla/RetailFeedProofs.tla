-------------------------- MODULE RetailFeedProofs --------------------------
(***************************************************************************)
(* Proofs about RetailFeed, for any customers, products, counts, losses    *)
(* and repetitions: the loop gets one session per transition received, an  *)
(* exit's was_at_kiosk is right, and the picks add up to the counts.       *)
(***************************************************************************)
EXTENDS RetailFeed, FiniteSetTheorems, SequenceTheorems, SumTheorems, TLAPS

Messages ==
    {m \in [customer : Customers, state : {"POS", "EXIT"}, picked : PickSets, timestamp : {1, 2}] :
        m.timestamp = IF m.state = "POS" THEN 1 ELSE 2}

FeedTypes ==
    /\ wire \in Seq(Messages) /\ received \subseteq Messages
    /\ stage \in [Customers -> {"shopping", "kiosk", "left"}]

(* Two transitions of one customer are its POS and then its EXIT. *)
Before(m, n) == m.customer = n.customer => m.state = "POS" /\ n.state = "EXIT"

(* Customers at these stages have sent m. *)
Published(stages, m) ==
    /\ stages[m.customer] # "shopping"
    /\ m.state = "EXIT" => stages[m.customer] = "left"

WireOrdered ==
    /\ FeedTypes
    /\ \A m \in received : Published(stage, m)
    /\ \A k \in 1..Len(wire) : Published(stage, wire[k])
    /\ \A j, k \in 1..Len(wire) : j < k => Before(wire[j], wire[k])
    /\ \A m \in received : \A k \in 1..Len(wire) : Before(m, wire[k])

LEMMA PublishOrdered ==
    ASSUME WireOrdered, NEW c \in Customers, NEW picked \in PickSets, NEW state \in {"POS", "EXIT"},
           wire' = Append(wire, Transition(c, state, picked)), UNCHANGED received,
           stage' \in [Customers -> {"shopping", "kiosk", "left"}],
           \A d \in Customers : d # c => stage'[d] = stage[d],
           state = "POS" => stage[c] = "shopping" /\ stage'[c] = "kiosk",
           state = "EXIT" => stage[c] # "left" /\ stage'[c] = "left"
    PROVE  WireOrdered'
<1> DEFINE new == Transition(c, state, picked)
<1>1. new \in Messages /\ new.customer = c /\ new.state = state
  BY DEF Transition, Messages
<1>2. wire \in Seq(Messages)
  BY DEF WireOrdered, FeedTypes
<1> HIDE DEF new
<1>3. /\ wire' \in Seq(Messages) /\ Len(wire') = Len(wire) + 1 /\ Len(wire) \in Nat
      /\ wire'[Len(wire) + 1] = new
      /\ \A k \in 1..Len(wire) : wire'[k] = wire[k]
  BY <1>1, <1>2 DEF new
<1>4. /\ \A m \in received : m.customer \in Customers /\ m.state \in {"POS", "EXIT"}
      /\ \A k \in 1..Len(wire) : wire[k].customer \in Customers /\ wire[k].state \in {"POS", "EXIT"}
  <2>1. \A m \in Messages : m.customer \in Customers /\ m.state \in {"POS", "EXIT"}
    BY DEF Messages
  <2>2. \A k \in 1..Len(wire) : wire[k] \in Messages
    BY <1>2, ElementOfSeq
  <2>3. QED
    BY <2>1, <2>2 DEF WireOrdered, FeedTypes
<1>5. ASSUME NEW m, m.customer \in Customers, m.state \in {"POS", "EXIT"}, Published(stage, m)
      PROVE  Published(stage', m) /\ Before(m, new)
  BY <1>1, <1>5 DEF Published, Before
<1>6. Published(stage', new)
  BY <1>1 DEF Published
<1>7. \A m \in received : Published(stage', m) /\ Before(m, new)
  BY <1>4, <1>5 DEF WireOrdered
<1>8. \A k \in 1..Len(wire) : Published(stage', wire[k]) /\ Before(wire[k], new)
  BY <1>4, <1>5 DEF WireOrdered
<1>9. QED
  BY <1>3, <1>6, <1>7, <1>8 DEF WireOrdered, FeedTypes

(* The transition at the head of the wire leaves it. *)
LEMMA TakeOrdered ==
    ASSUME WireOrdered, wire # <<>>, wire' = Tail(wire), UNCHANGED stage,
           received' = received \/ received' = received \union {Head(wire)}
    PROVE  WireOrdered'
<1>1. wire \in Seq(Messages)
  BY DEF WireOrdered, FeedTypes
<1>2. /\ wire' \in Seq(Messages) /\ Len(wire') = Len(wire) - 1 /\ Len(wire) \in Nat \ {0}
      /\ Head(wire) = wire[1] /\ wire[1] \in Messages
      /\ \A k \in 1..Len(wire') : wire'[k] = wire[k + 1]
  BY <1>1
<1>3. \A k \in 1..Len(wire') : /\ k + 1 \in 1..Len(wire) /\ 1 < k + 1
                              /\ \A j \in 1..Len(wire') : j < k => j + 1 < k + 1
  BY <1>2
<1>4. 1 \in 1..Len(wire)
  BY <1>2
<1>5. /\ \A m \in received' : Published(stage', m)
      /\ received' \subseteq Messages
  BY <1>2, <1>4 DEF WireOrdered, FeedTypes
<1>6. /\ \A k \in 1..Len(wire') : Published(stage', wire'[k])
      /\ \A j, k \in 1..Len(wire') : j < k => Before(wire'[j], wire'[k])
  BY <1>2, <1>3 DEF WireOrdered
<1>7. \A m \in received' : \A k \in 1..Len(wire') : Before(m, wire'[k])
  BY <1>2, <1>3, <1>4 DEF WireOrdered
<1>8. QED
  BY <1>2, <1>5, <1>6, <1>7 DEF WireOrdered, FeedTypes

LEMMA Seen ==
    ASSUME WireOrdered, seenTransitions = {Key(m) : m \in received}
    PROVE  /\ \A m \in received : Key(m) \in seenTransitions
           /\ wire # <<>> => Key(Head(wire)) \notin seenTransitions /\ Head(wire) \notin received
<1>1. \A m \in received : Key(m) \in seenTransitions
  OBVIOUS
<1>2. ASSUME wire # <<>> PROVE \A m \in received : Before(m, Head(wire))
  <2>1. wire \in Seq(Messages)
    BY DEF WireOrdered, FeedTypes
  <2>2. Head(wire) = wire[1] /\ 1 \in 1..Len(wire)
    BY <1>2, <2>1
  <2>3. QED
    BY <2>2 DEF WireOrdered
<1>3. \A m \in received : wire # <<>> => Key(m) # Key(Head(wire)) /\ m # Head(wire)
  BY <1>2 DEF Before, Key
<1>4. QED
  BY <1>1, <1>3

-----------------------------------------------------------------------------
(* What the subscriber and its queue remember of the received transitions. *)

Got(transitions, c, state) == \E m \in transitions : m.customer = c /\ m.state = state

Remembered ==
    /\ WireOrdered
    /\ seenTransitions = {Key(m) : m \in received}
    /\ posSeen = {c \in Customers : Got(received, c, "POS") /\ ~Got(received, c, "EXIT")}
    /\ sessionQueue \in Seq([kind : {"POS", "EXIT"}, customer : Customers, picked : PickSets,
                             wasAtKiosk : BOOLEAN])
    /\ IsFiniteSet(received) /\ Len(sessionQueue) = Cardinality(received)
    /\ \A m \in received : \E n \in 1..Len(sessionQueue) :
          sessionQueue[n].customer = m.customer /\ sessionQueue[n].kind = m.state
    /\ \A n \in 1..Len(sessionQueue) : sessionQueue[n].kind = "EXIT" =>
          /\ Got(received, sessionQueue[n].customer, "EXIT")
          /\ sessionQueue[n].wasAtKiosk <=> Got(received, sessionQueue[n].customer, "POS")

(* The first receipt of a transition adds it to everything remembered. *)
LEMMA RememberedReceive ==
    ASSUME Remembered, Receive
    PROVE  Remembered'
<1> DEFINE m == Head(wire)
<1>1. /\ wire # <<>> /\ m \in Messages /\ m.customer \in Customers /\ m.state \in {"POS", "EXIT"}
      /\ m.picked \in PickSets
  <2>1. wire \in Seq(Messages) /\ wire # <<>>
    BY DEF Remembered, WireOrdered, FeedTypes, Receive
  <2>2. m \in Messages
    BY <2>1
  <2>3. QED
    BY <2>1, <2>2 DEF Messages
<1>2. /\ Key(m) \notin seenTransitions /\ m \notin received
      /\ \A r \in received : Before(r, m)
  <2>1. Key(m) \notin seenTransitions /\ m \notin received
    BY <1>1, Seen DEF Remembered
  <2>2. m = wire[1] /\ 1 \in 1..Len(wire)
    BY <1>1 DEF Remembered, WireOrdered, FeedTypes
  <2>3. QED
    BY <2>1, <2>2 DEF Remembered, WireOrdered
<1> HIDE DEF m
<1>3. /\ received' = received \union {m}
      /\ seenTransitions' = seenTransitions \union {Key(m)}
      /\ sessionQueue' = Append(sessionQueue, Session(m))
      /\ \/ m.state = "POS" /\ posSeen' = posSeen \union {m.customer}
         \/ m.state = "EXIT" /\ posSeen' = posSeen \ {m.customer}
  BY <1>2 DEF m, Receive, ProcessTransition, NotSeen
<1>4. WireOrdered'
  BY <1>1, <1>3, TakeOrdered DEF m, Remembered, Receive
<1>5. seenTransitions' = {Key(r) : r \in received'}
  BY <1>3 DEF Remembered
<1>6. \A c, state : Got(received', c, state) <=> Got(received, c, state) \/ (c = m.customer /\ state = m.state)
  BY <1>3 DEF Got
<1>7. /\ ~Got(received, m.customer, "EXIT")
      /\ m.state = "POS" => ~Got(received, m.customer, "POS")
  BY <1>2 DEF Got, Before
<1>8. posSeen' = {c \in Customers : Got(received', c, "POS") /\ ~Got(received', c, "EXIT")}
  <2>1. posSeen = {c \in Customers : Got(received, c, "POS") /\ ~Got(received, c, "EXIT")}
    BY DEF Remembered
  <2>2. ASSUME NEW c
        PROVE  c \in posSeen' <=> c \in Customers /\ Got(received', c, "POS") /\ ~Got(received', c, "EXIT")
    <3>1. c \in posSeen <=> c \in Customers /\ Got(received, c, "POS") /\ ~Got(received, c, "EXIT")
      BY <2>1
    <3>2. CASE c # m.customer
      BY <1>3, <1>6, <3>1, <3>2
    <3>3. CASE c = m.customer
      <4>1. CASE m.state = "POS"
        <5>1. Got(received', c, "POS") /\ ~Got(received', c, "EXIT")
          BY <1>6, <1>7, <3>3, <4>1
        <5>2. c \in posSeen' /\ c \in Customers
          BY <1>1, <1>3, <3>3, <4>1
        <5>3. QED
          BY <5>1, <5>2
      <4>2. CASE m.state = "EXIT"
        BY <1>3, <1>6, <3>3, <4>2
      <4>3. QED
        BY <1>1, <4>1, <4>2
    <3>4. QED
      BY <3>2, <3>3
  <2>3. QED
    BY <2>2
<1>9. /\ Session(m).kind = m.state /\ Session(m).customer = m.customer
      /\ Session(m).wasAtKiosk <=> Got(received, m.customer, "POS") /\ ~Got(received, m.customer, "EXIT")
      /\ Session(m) \in [kind : {"POS", "EXIT"}, customer : Customers, picked : PickSets,
                         wasAtKiosk : BOOLEAN]
  <2>1. (m.customer \in posSeen) \in BOOLEAN
    OBVIOUS
  <2>2. m.customer \in posSeen <=> Got(received, m.customer, "POS") /\ ~Got(received, m.customer, "EXIT")
    BY <1>1 DEF Remembered
  <2>3. QED
    BY <1>1, <2>1, <2>2 DEF Session
<1> DEFINE Sessions == [kind : {"POS", "EXIT"}, customer : Customers, picked : PickSets,
                        wasAtKiosk : BOOLEAN]
<1>10. sessionQueue \in Seq(Sessions)
  BY DEF Remembered
<1> HIDE DEF Sessions
<1>11. /\ sessionQueue' \in Seq(Sessions) /\ Len(sessionQueue') = Len(sessionQueue) + 1
       /\ Len(sessionQueue) \in Nat /\ sessionQueue'[Len(sessionQueue) + 1] = Session(m)
       /\ \A n \in 1..Len(sessionQueue) : sessionQueue'[n] = sessionQueue[n]
  <2>1. Session(m) \in Sessions
    BY <1>9 DEF Sessions
  <2>2. QED
    BY <1>3, <1>10, <2>1
<1>12. IsFiniteSet(received') /\ Len(sessionQueue') = Cardinality(received')
  BY <1>2, <1>3, <1>11, FS_AddElement DEF Remembered
<1>13. \A r \in received' : \E n \in 1..Len(sessionQueue') :
          sessionQueue'[n].customer = r.customer /\ sessionQueue'[n].kind = r.state
  <2>1. ASSUME NEW r \in received
        PROVE  \E n \in 1..Len(sessionQueue') :
                  sessionQueue'[n].customer = r.customer /\ sessionQueue'[n].kind = r.state
    <3>1. PICK n \in 1..Len(sessionQueue) :
            sessionQueue[n].customer = r.customer /\ sessionQueue[n].kind = r.state
      BY DEF Remembered
    <3>2. n \in 1..Len(sessionQueue') /\ sessionQueue'[n] = sessionQueue[n]
      BY <1>11
    <3>3. QED
      BY <3>1, <3>2
  <2>2. /\ Len(sessionQueue) + 1 \in 1..Len(sessionQueue')
        /\ sessionQueue'[Len(sessionQueue) + 1].customer = m.customer
        /\ sessionQueue'[Len(sessionQueue) + 1].kind = m.state
    BY <1>9, <1>11
  <2>3. QED
    BY <1>3, <2>1, <2>2
<1>14. \A n \in 1..Len(sessionQueue') : sessionQueue'[n].kind = "EXIT" =>
          /\ Got(received', sessionQueue'[n].customer, "EXIT")
          /\ sessionQueue'[n].wasAtKiosk <=> Got(received', sessionQueue'[n].customer, "POS")
  <2>1. ASSUME NEW n \in 1..Len(sessionQueue), sessionQueue[n].kind = "EXIT"
        PROVE  /\ Got(received, sessionQueue[n].customer, "EXIT") /\ sessionQueue[n].customer # m.customer
               /\ sessionQueue[n].wasAtKiosk <=> Got(received, sessionQueue[n].customer, "POS")
    BY <1>7, <2>1 DEF Remembered
  <2>2. ASSUME NEW n \in 1..Len(sessionQueue'), sessionQueue'[n].kind = "EXIT"
        PROVE  /\ Got(received', sessionQueue'[n].customer, "EXIT")
               /\ sessionQueue'[n].wasAtKiosk <=> Got(received', sessionQueue'[n].customer, "POS")
    <3>1. CASE n \in 1..Len(sessionQueue)
      BY <1>6, <1>11, <2>1, <2>2, <3>1
    <3>2. CASE n = Len(sessionQueue) + 1
      BY <1>6, <1>7, <1>9, <1>11, <2>2, <3>2
    <3>3. QED
      BY <1>11, <3>1, <3>2
  <2>3. QED
    BY <2>2
<1>15. QED
  BY <1>4, <1>5, <1>8, <1>11, <1>12, <1>13, <1>14 DEF Remembered, Sessions

LEMMA RememberedStep == Remembered /\ [FeedNext]_feedVars => Remembered'
<1> SUFFICES ASSUME Remembered, [FeedNext]_feedVars PROVE Remembered'
  OBVIOUS
<1>1. WireOrdered
  BY DEF Remembered
<1>2. WireOrdered' /\ UNCHANGED <<subscriberVars, received>> => Remembered'
  BY DEF Remembered, subscriberVars
<1>3. ASSUME NEW c \in Customers, Approach(c) PROVE Remembered'
  <2>1. PICK picked \in PickSets : wire' = Append(wire, Transition(c, "POS", picked))
    BY <1>3 DEF Approach, Publish
  <2>2. /\ stage' = [stage EXCEPT ![c] = "kiosk"] /\ stage[c] = "shopping"
        /\ UNCHANGED <<subscriberVars, received>>
    BY <1>3 DEF Approach, Publish
  <2>3. WireOrdered'
    BY <1>1, <2>1, <2>2, PublishOrdered DEF WireOrdered, FeedTypes
  <2>4. QED
    BY <1>2, <2>2, <2>3
<1>4. ASSUME NEW c \in Customers, Leave(c) PROVE Remembered'
  <2>1. PICK picked \in PickSets : wire' = Append(wire, Transition(c, "EXIT", picked))
    BY <1>4 DEF Leave, Publish
  <2>2. /\ stage' = [stage EXCEPT ![c] = "left"] /\ stage[c] # "left"
        /\ UNCHANGED <<subscriberVars, received>>
    BY <1>4 DEF Leave, Publish
  <2>3. WireOrdered'
    BY <1>1, <2>1, <2>2, PublishOrdered DEF WireOrdered, FeedTypes
  <2>4. QED
    BY <1>2, <2>2, <2>3
<1>5. CASE Receive
  BY <1>5, RememberedReceive
<1>6. CASE ReceiveAgain
  <2>1. PICK m \in received : ProcessTransition(m) /\ UNCHANGED <<stage, wire, received>>
    BY <1>6 DEF ReceiveAgain
  <2>2. Key(m) \in seenTransitions
    BY <1>1, Seen DEF Remembered
  <2>3. UNCHANGED subscriberVars
    BY <2>1, <2>2 DEF ProcessTransition, NotSeen, subscriberVars
  <2>4. WireOrdered'
    BY <1>1, <2>1 DEF WireOrdered, FeedTypes, Published, Before
  <2>5. QED
    BY <1>2, <2>1, <2>3, <2>4
<1>7. CASE Lose
  BY <1>1, <1>2, <1>7, TakeOrdered DEF Lose
<1>8. CASE UNCHANGED feedVars
  <2>1. WireOrdered'
    BY <1>1, <1>8 DEF WireOrdered, FeedTypes, feedVars
  <2>2. QED
    BY <1>2, <1>8, <2>1 DEF feedVars
<1>9. QED
  BY <1>3, <1>4, <1>5, <1>6, <1>7, <1>8 DEF FeedNext

LEMMA RememberedInit == FeedInit => Remembered
<1> SUFFICES ASSUME FeedInit PROVE Remembered
  OBVIOUS
<1>1. /\ wire = <<>> /\ received = {} /\ posSeen = {} /\ seenTransitions = {} /\ sessionQueue = <<>>
      /\ stage \in [Customers -> {"shopping", "kiosk", "left"}]
  BY DEF FeedInit, Init
<1>2. IsFiniteSet(received) /\ Cardinality(received) = 0
  BY <1>1, FS_EmptySet
<1>3. \A c, state : ~Got(received, c, state)
  BY <1>1 DEF Got
<1>4. QED
  BY <1>1, <1>2, <1>3 DEF Remembered, WireOrdered, FeedTypes

(* The loop gets exactly one session for each transition received, however *)
(* often it arrives.                                                       *)
THEOREM OneSessionForEach == FeedSpec => []OneSessionEach
<1>1. Remembered => OneSessionEach
  <2> SUFFICES ASSUME Remembered PROVE OneSessionEach
    OBVIOUS
  <2>1. DOMAIN sessionQueue = 1..Len(sessionQueue)
    BY LenProperties DEF Remembered
  <2>2. Len(sessionQueue) = Cardinality(received)
    BY DEF Remembered
  <2>3. \A m \in received : \E n \in DOMAIN sessionQueue :
          sessionQueue[n].customer = m.customer /\ sessionQueue[n].kind = m.state
    BY <2>1 DEF Remembered
  <2>4. QED
    BY <2>2, <2>3 DEF OneSessionEach
<1>2. QED
  BY <1>1, RememberedInit, RememberedStep, PTL DEF FeedSpec

(* was_at_kiosk of every exit tells whether the customer's POS transition  *)
(* was received.                                                           *)
THEOREM KioskFlagTrue == FeedSpec => []KioskFlagRight
<1>1. Remembered => KioskFlagRight
  <2> SUFFICES ASSUME Remembered PROVE KioskFlagRight
    OBVIOUS
  <2>1. DOMAIN sessionQueue = 1..Len(sessionQueue)
    BY LenProperties DEF Remembered
  <2>2. QED
    BY <2>1 DEF Remembered, Got, KioskFlagRight
<1>2. QED
  BY <1>1, RememberedInit, RememberedStep, PTL DEF FeedSpec
-----------------------------------------------------------------------------
(* The picks add up.  First the events of one transition: upTo of          *)
(* PickDeltas is the function that defines it.                             *)

Counts == [Items -> Nat]
PickEvents == [kind : {"REMOVE_CANDIDATE"}, item : Items, qty : Nat]

Rise(previous, current, i) == IF current[i] > previous[i] THEN current[i] - previous[i] ELSE 0

LEMMA DeltasAre ==
    ASSUME NEW previous \in Counts, NEW current \in Counts
    PROVE  \E f : /\ PickDeltas(previous, current) = f[NItems] /\ f[0] = <<>>
                  /\ \A i \in Items :
                        f[i] = IF current[i] > previous[i]
                               THEN Append(f[i - 1], Pick(i, current[i] - previous[i]))
                               ELSE f[i - 1]
<1> DEFINE Def(f) == [n \in 0..NItems |->
               IF n = 0 THEN <<>>
               ELSE IF current[n] > previous[n]
                    THEN Append(f[n - 1], Pick(n, current[n] - previous[n]))
                    ELSE f[n - 1]]
           f == CHOOSE f : f = Def(f)
           C == {n \in Items : current[n] > previous[n]}
           e == [n \in Items |-> Pick(n, current[n] - previous[n])]
<1>1. PICK g : g = Walked(g, NItems, C, e)
  <2>1. \A n \in 1..NItems : n \in C => e[n] \in PickEvents
    BY DEF Pick, PickEvents, Counts, Items
  <2> HIDE DEF C, e
  <2>2. Walks(NItems, C, e, PickEvents) # {}
    BY <2>1, ItemsAssumption, WalkExists
  <2> QED
    BY <2>2 DEF Walks
<1>2. g = Def(g)
  <2>1. \A n \in 0..NItems : n # 0 => /\ n \in Items
                                      /\ n \in C <=> current[n] > previous[n]
                                      /\ e[n] = Pick(n, current[n] - previous[n])
    BY ItemsAssumption DEF Items
  <2> HIDE DEF C, e
  <2>2. Walked(g, NItems, C, e) = Def(g)
    BY <2>1 DEF Walked
  <2> QED
    BY <1>1, <2>2
<1>3. f = Def(f)
  BY <1>2
<1>4. PickDeltas(previous, current) = f[NItems]
  BY DEF PickDeltas
<1> HIDE DEF f
<1>5. f[0] = <<>>
  BY <1>3, ItemsAssumption
<1>6. ASSUME NEW i \in Items
      PROVE  f[i] = IF current[i] > previous[i]
                    THEN Append(f[i - 1], Pick(i, current[i] - previous[i])) ELSE f[i - 1]
  <2>1. i \in 0..NItems /\ i # 0
    BY ItemsAssumption DEF Items
  <2> QED
    BY <1>3, <2>1
<1> QED
  BY <1>4, <1>5, <1>6

-----------------------------------------------------------------------------
(* What the events q count of product i. *)
Picked(q, i) == SumFunction([n \in DOMAIN q |-> IF q[n].item = i THEN q[n].qty ELSE 0])

LEMMA PickedNone == \A i : Picked(<<>>, i) = 0
<1> TAKE i
<1>1. DOMAIN <<>> = {}
  OBVIOUS
<1> QED
  BY <1>1, SumEmpty DEF Picked, SumFunction

LEMMA PickedMore ==
    ASSUME NEW q \in Seq(PickEvents), NEW e \in PickEvents, NEW i
    PROVE  /\ Picked(Append(q, e), i) = Picked(q, i) + (IF e.item = i THEN e.qty ELSE 0)
           /\ Picked(q, i) \in Nat
<1> DEFINE r == Append(q, e)
           f == [n \in DOMAIN q |-> IF q[n].item = i THEN q[n].qty ELSE 0]
           g == [n \in DOMAIN r |-> IF r[n].item = i THEN r[n].qty ELSE 0]
           l == Len(q)
<1>1. /\ l \in Nat /\ DOMAIN q = 1..l /\ DOMAIN r = 1..(l + 1)
      /\ r[l + 1] = e /\ \A n \in 1..l : r[n] = q[n] /\ q[n] \in PickEvents
  BY AppendProperties, LenProperties, ElementOfSeq
<1>2. Picked(q, i) = SumFunctionOnSet(f, 1..l) /\ Picked(r, i) = SumFunctionOnSet(g, 1..(l + 1))
  BY <1>1 DEF Picked, SumFunction
<1>3. g[l + 1] = IF e.item = i THEN e.qty ELSE 0
  BY <1>1
<1>4. \A n \in 1..l : g[n] = f[n]
  BY <1>1
<1>5. \A n \in 1..l : f[n] \in Nat
  BY <1>1 DEF PickEvents
<1>6. g[l + 1] \in Nat
  BY <1>3 DEF PickEvents
<1> HIDE DEF f, g, l
<1>7. /\ SumFunctionOnSet(g, 1..(l + 1)) = SumFunctionOnSet(f, 1..l) + g[l + 1]
      /\ SumFunctionOnSet(f, 1..l) \in Nat
  BY <1>1, <1>4, <1>5, <1>6, SumGrows
<1> QED
  BY <1>2, <1>3, <1>7

(* Appending behind two sequences is appending to the second. *)
LEMMA AppendBehind ==
    ASSUME NEW S, NEW s \in Seq(S), NEW t \in Seq(S), NEW e \in S
    PROVE  s \o Append(t, e) = Append(s \o t, e)
<1>1. <<e>> \in Seq(S) /\ s \o t \in Seq(S)
  OBVIOUS
<1>2. Append(t, e) = t \o <<e>> /\ Append(s \o t, e) = (s \o t) \o <<e>>
  BY <1>1, AppendIsConcat
<1> QED
  BY <1>1, <1>2, ConcatAssociative

(* The events of a transition count what rose. *)
LEMMA PickedRises ==
    ASSUME NEW q \in Seq(PickEvents), NEW previous \in Counts, NEW current \in Counts
    PROVE  /\ q \o PickDeltas(previous, current) \in Seq(PickEvents)
           /\ \A i \in Items : Picked(q \o PickDeltas(previous, current), i)
                                   = Picked(q, i) + Rise(previous, current, i)
<1>1. PICK f : /\ PickDeltas(previous, current) = f[NItems] /\ f[0] = <<>>
               /\ \A i \in Items :
                     f[i] = IF current[i] > previous[i]
                            THEN Append(f[i - 1], Pick(i, current[i] - previous[i]))
                            ELSE f[i - 1]
  BY DeltasAre
<1> DEFINE Good(k) ==
        /\ f[k] \in Seq(PickEvents) /\ q \o f[k] \in Seq(PickEvents)
        /\ \A i \in Items : Picked(q \o f[k], i)
                                = Picked(q, i) + (IF i <= k THEN Rise(previous, current, i) ELSE 0)
           T == {k \in 0..NItems : ~Good(k)}
<1>2. \A i \in Items : Picked(q, i) \in Nat
  <2> TAKE i \in Items
  <2>1. Pick(i, 0) \in PickEvents
    BY DEF Pick, PickEvents
  <2> QED
    BY <2>1, PickedMore
<1>3. ASSUME NEW n \in T PROVE FALSE
  <2>1. T \in SUBSET Nat
    BY ItemsAssumption
  <2>2. PICK m \in T : \A j \in T : m <= j
    <3> HIDE DEF T
    <3> QED
      BY <2>1, LeastNumber
  <2>3. m \in 0..NItems /\ ~Good(m)
    BY <2>2
  <2>4. m # 0
    <3>1. f[0] \in Seq(PickEvents) /\ q \o f[0] = q
      BY <1>1
    <3>2. \A i \in Items : ~(i <= 0)
      BY ItemsAssumption DEF Items
    <3>3. Good(0)
      BY <1>2, <3>1, <3>2
    <3> QED
      BY <2>3, <3>3
  <2>5. m \in Items /\ m - 1 \in 0..NItems /\ m - 1 < m /\ m \in Nat
    BY <2>3, <2>4, ItemsAssumption DEF Items
  <2>6. m - 1 \notin T
    <3> HIDE DEF T
    <3> QED
      BY <2>1, <2>2, <2>5
  <2>7. Good(m - 1)
    BY <2>5, <2>6
  <2>8. CASE ~(current[m] > previous[m])
    <3>1. f[m] = f[m - 1] /\ Rise(previous, current, m) = 0
      BY <1>1, <2>5, <2>8 DEF Rise
    <3>2. \A i \in Items : (IF i <= m THEN Rise(previous, current, i) ELSE 0)
                               = (IF i <= m - 1 THEN Rise(previous, current, i) ELSE 0)
      BY <2>5, <3>1, ItemsAssumption DEF Items
    <3> QED
      BY <2>3, <2>7, <3>1, <3>2
  <2>9. CASE current[m] > previous[m]
    <3> DEFINE e == Pick(m, current[m] - previous[m])
               r == q \o f[m - 1]
    <3>1. e \in PickEvents /\ e.item = m /\ e.qty = Rise(previous, current, m)
      BY <2>5, <2>9 DEF Pick, PickEvents, Counts, Rise
    <3>2. f[m] = Append(f[m - 1], e)
      BY <1>1, <2>5, <2>9
    <3>3. f[m - 1] \in Seq(PickEvents) /\ r \in Seq(PickEvents)
          /\ \A i \in Items : Picked(r, i)
                = Picked(q, i) + (IF i <= m - 1 THEN Rise(previous, current, i) ELSE 0)
      BY <2>7
    <3> HIDE DEF e
    <3>4. q \o f[m] = Append(r, e)
      <4>1. q \o Append(f[m - 1], e) = Append(q \o f[m - 1], e)
        <5> DEFINE t == f[m - 1]
        <5>1. q \in Seq(PickEvents) /\ t \in Seq(PickEvents) /\ e \in PickEvents
          BY <3>1, <3>3
        <5> HIDE DEF t
        <5>2. q \o Append(t, e) = Append(q \o t, e)
          BY ONLY <5>1, AppendBehind
        <5> QED
          BY <5>2 DEF t
      <4> QED
        BY <3>2, <4>1
    <3> HIDE DEF r
    <3>5. f[m] \in Seq(PickEvents) /\ Append(r, e) \in Seq(PickEvents)
      BY <3>1, <3>2, <3>3, AppendProperties
    <3>6. ASSUME NEW i \in Items
          PROVE  Picked(Append(r, e), i)
                     = Picked(q, i) + (IF i <= m THEN Rise(previous, current, i) ELSE 0)
      <4>1. Picked(Append(r, e), i) = Picked(r, i) + (IF e.item = i THEN e.qty ELSE 0)
        BY <3>1, <3>3, PickedMore
      <4>2. Picked(r, i) = Picked(q, i) + (IF i <= m - 1 THEN Rise(previous, current, i) ELSE 0)
        BY <3>3
      <4>3. Picked(q, i) \in Nat /\ Rise(previous, current, i) \in Nat /\ i \in Nat
        BY <1>2, ItemsAssumption DEF Rise, Counts, Items
      <4>4. CASE i = m
        BY <2>5, <3>1, <4>1, <4>2, <4>3, <4>4
      <4>5. CASE i # m
        <5>1. i <= m <=> i <= m - 1
          BY <2>5, <4>3, <4>5
        <5>2. Picked(Append(r, e), i) = Picked(r, i) + 0
          BY <3>1, <4>1, <4>5
        <5> QED
          BY <4>2, <4>3, <5>1, <5>2
      <4> QED
        BY <4>4, <4>5
    <3> QED
      BY <2>3, <3>4, <3>5, <3>6
  <2> QED
    BY <2>8, <2>9
<1>4. Good(NItems)
  BY <1>3, ItemsAssumption
<1>5. \A i \in Items : i <= NItems
  BY ItemsAssumption DEF Items
<1> HIDE DEF T
<1> QED
  BY <1>1, <1>4, <1>5
-----------------------------------------------------------------------------
(* What the received transitions R show of product i.                      *)
Reports(R, c, i) == {m.picked[i] : m \in {n \in R : n.customer = c}}

Tops(R, c, i, q) == q \in Reports(R, c, i) \union {0} /\ \A r \in Reports(R, c, i) \union {0} : r <= q

ShownIn(R, c, i) == CHOOSE q \in Reports(R, c, i) \union {0} : \A r \in Reports(R, c, i) : r <= q

LEMMA ShownTops ==
    ASSUME NEW R, NEW c, NEW i, NEW q, Tops(R, c, i, q), Reports(R, c, i) \subseteq Nat
    PROVE  ShownIn(R, c, i) = q
<1> DEFINE all == Reports(R, c, i)
           x == ShownIn(R, c, i)
<1>1. q \in all \union {0} /\ \A r \in all \union {0} : r <= q
  BY DEF Tops
<1>2. x \in all \union {0} /\ \A r \in all : r <= x
  BY <1>1 DEF ShownIn
<1> HIDE DEF x, all
<1>3. all \subseteq Nat
  BY DEF all
<1>4. q \in Nat /\ x \in Nat
  BY <1>1, <1>2, <1>3
<1>5. x <= q
  BY <1>1, <1>2
<1>6. q <= x
  BY <1>1, <1>2, <1>4
<1> QED
  BY <1>4, <1>5, <1>6 DEF x

(* The pick events add up to what was shown; and until a customer's EXIT,  *)
(* _last_counts is what the customer has shown.                            *)
AddedUp(events, counts, R, shown) ==
    /\ events \in Seq(PickEvents)
    /\ shown \in [Customers -> Counts]
    /\ \A c \in Customers, i \in Items : Tops(R, c, i, shown[c][i])
    /\ \A c \in Customers : ~Got(R, c, "EXIT") => counts[c] = shown[c]
    /\ \A i \in Items :
          Picked(events, i) = SumFunctionOnSet([c \in Customers |-> shown[c][i]], Customers)

Adding ==
    /\ Remembered
    /\ lastCounts \in [Customers -> Counts]
    /\ \E shown : AddedUp(eventQueue, lastCounts, received, shown)

LEMMA MessagePicks ==
    ASSUME NEW m \in Messages
    PROVE  m.customer \in Customers /\ m.state \in {"POS", "EXIT"} /\ m.picked \in Counts
  BY PicksAssumption DEF Messages, Counts, Items

LEMMA AddingInit == FeedInit => Adding
<1> SUFFICES ASSUME FeedInit PROVE Adding
  OBVIOUS
<1> DEFINE none == [c \in Customers |-> NoPicks]
<1>1. /\ received = {} /\ lastCounts = none /\ eventQueue = <<>>
  BY DEF FeedInit, Init
<1>2. NoPicks \in Counts /\ none \in [Customers -> Counts]
  BY DEF NoPicks, Counts
<1>3. \A c \in Customers, i \in Items : none[c][i] = 0
  BY DEF NoPicks
<1>4. \A c, i : Tops({}, c, i, 0)
  BY DEF Tops, Reports
<1>5. ASSUME NEW i \in Items
      PROVE  Picked(<<>>, i) = SumFunctionOnSet([c \in Customers |-> none[c][i]], Customers)
  <2> DEFINE f == [c \in Customers |-> none[c][i]]
  <2>1. \A c \in Customers : f[c] = 0
    BY <1>3
  <2> HIDE DEF f
  <2>2. SumFunctionOnSet(f, Customers) = 0
    BY <2>1, CustomersAssumption, SumZero
  <2> QED
    BY <2>2, PickedNone DEF f
<1>6. AddedUp(eventQueue, lastCounts, received, none)
  <2>1. eventQueue \in Seq(PickEvents)
    BY <1>1
  <2>2. \A c \in Customers, i \in Items : Tops(received, c, i, none[c][i])
    BY <1>1, <1>3, <1>4
  <2> QED
    BY <1>1, <1>2, <1>5, <2>1, <2>2 DEF AddedUp
<1> QED
  BY <1>1, <1>2, <1>6, RememberedInit DEF Adding

(* The first receipt of a transition. *)
LEMMA AddingReceive ==
    ASSUME Adding, Receive
    PROVE  lastCounts' \in [Customers -> Counts]
           /\ \E shown : AddedUp(eventQueue', lastCounts', received', shown)
<1> DEFINE m == Head(wire)
<1>1. /\ m \in Messages /\ Key(m) \notin seenTransitions
      /\ \A r \in received : r.customer = m.customer => r.state = "POS" /\ m.state = "EXIT"
  <2>1. wire \in Seq(Messages) /\ wire # <<>>
    BY DEF Adding, Remembered, WireOrdered, FeedTypes, Receive
  <2>2. m \in Messages /\ m = wire[1] /\ 1 \in 1..Len(wire)
    BY <2>1
  <2>3. Key(m) \notin seenTransitions
    BY <2>1, Seen DEF Adding, Remembered
  <2> QED
    BY <2>2, <2>3 DEF Adding, Remembered, WireOrdered, Before
<1>2. ProcessTransition(m) /\ received' = received \union {m}
  BY DEF Receive
<1> HIDE DEF m
<1>3. m.customer \in Customers /\ m.state \in {"POS", "EXIT"} /\ m.picked \in Counts
  BY <1>1, MessagePicks
<1> DEFINE d == m.customer
           last == lastCounts[d]
<1>4. /\ eventQueue' = eventQueue \o PickDeltas(last, m.picked)
      /\ \/ m.state = "POS" /\ lastCounts' = [lastCounts EXCEPT ![d] = m.picked]
         \/ m.state = "EXIT" /\ lastCounts' = [lastCounts EXCEPT ![d] = NoPicks]
  BY <1>1, <1>2 DEF ProcessTransition, NotSeen
<1>5. lastCounts \in [Customers -> Counts] /\ NoPicks \in Counts
  BY DEF Adding, NoPicks, Counts
<1>6. lastCounts' \in [Customers -> Counts]
  BY <1>3, <1>4, <1>5
<1>7. PICK shown : AddedUp(eventQueue, lastCounts, received, shown)
  BY DEF Adding
<1>8. ~Got(received, d, "EXIT") /\ last = shown[d] /\ last \in Counts
  BY <1>1, <1>3, <1>5, <1>7 DEF Got, AddedUp
<1> DEFINE top == [i \in Items |-> IF m.picked[i] > last[i] THEN m.picked[i] ELSE last[i]]
           now == [shown EXCEPT ![d] = top]
<1>9. top \in Counts
  BY <1>3, <1>8 DEF Counts
<1>10. /\ now \in [Customers -> Counts] /\ now[d] = top
       /\ \A c \in Customers : c # d => now[c] = shown[c]
  BY <1>3, <1>7, <1>9 DEF AddedUp
<1>11. \A i : /\ Reports(received', d, i) = Reports(received, d, i) \union {m.picked[i]}
              /\ \A c : c # d => Reports(received', c, i) = Reports(received, c, i)
  BY <1>2 DEF Reports
<1>12. \A i \in Items : Tops(received, d, i, last[i]) /\ Tops(received', d, i, top[i])
  <2> TAKE i \in Items
  <2>1. Tops(received, d, i, last[i])
    BY <1>3, <1>7, <1>8 DEF AddedUp
  <2>2. last[i] \in Nat /\ m.picked[i] \in Nat
    BY <1>3, <1>8 DEF Counts
  <2>3. Reports(received, d, i) \subseteq Nat
    <3>1. received \subseteq Messages
      BY DEF Adding, Remembered, WireOrdered, FeedTypes
    <3> QED
      BY <3>1, MessagePicks DEF Reports, Counts
  <2>4. \A r \in Reports(received, d, i) : r \in Nat /\ r <= last[i]
    BY <2>1, <2>3 DEF Tops
  <2>5. top[i] \in Reports(received', d, i) \union {0}
    BY <1>11, <2>1 DEF Tops
  <2>6. \A r \in Reports(received', d, i) \union {0} : r <= top[i]
    BY <1>11, <2>2, <2>4
  <2> QED
    BY <2>1, <2>5, <2>6 DEF Tops
<1>13. \A c \in Customers, i \in Items : Tops(received', c, i, now[c][i])
  <2> TAKE c \in Customers, i \in Items
  <2>1. CASE c = d
    BY <1>10, <1>12, <2>1
  <2>2. CASE c # d
    BY <1>7, <1>10, <1>11, <2>2 DEF AddedUp, Tops
  <2> QED
    BY <2>1, <2>2
<1>14. \A c \in Customers : ~Got(received', c, "EXIT") => lastCounts'[c] = now[c]
  <2> SUFFICES ASSUME NEW c \in Customers, ~Got(received', c, "EXIT")
               PROVE  lastCounts'[c] = now[c]
    OBVIOUS
  <2>1. ~Got(received, c, "EXIT")
    BY <1>2 DEF Got
  <2>2. CASE c # d
    BY <1>4, <1>5, <1>7, <1>10, <2>1, <2>2 DEF AddedUp
  <2>3. CASE c = d
    <3>1. m.state = "POS"
      BY <1>2, <1>3, <2>3 DEF Got
    <3>2. lastCounts'[d] = m.picked
      BY <1>3, <1>4, <1>5, <3>1
    <3>3. \A i : Reports(received, d, i) = {}
      BY <1>1, <3>1 DEF Reports
    <3>4. \A i \in Items : last[i] = 0
      BY <1>12, <3>3 DEF Tops
    <3>5. \A i \in Items : m.picked[i] = top[i]
      BY <1>3, <3>4 DEF Counts
    <3>6. m.picked = top
      BY <1>3, <1>9, <3>5 DEF Counts
    <3> QED
      BY <1>10, <2>3, <3>2, <3>6
  <2> QED
    BY <2>2, <2>3
<1>15. eventQueue \in Seq(PickEvents)
  BY <1>7 DEF AddedUp
<1>16. /\ eventQueue' \in Seq(PickEvents)
       /\ \A i \in Items : Picked(eventQueue', i) = Picked(eventQueue, i) + Rise(last, m.picked, i)
  BY <1>3, <1>4, <1>8, <1>15, PickedRises
<1>17. ASSUME NEW i \in Items
       PROVE  Picked(eventQueue', i)
                  = SumFunctionOnSet([c \in Customers |-> now[c][i]], Customers)
  <2> DEFINE f == [c \in Customers |-> shown[c][i]]
             g == [c \in Customers |-> now[c][i]]
  <2>1. Picked(eventQueue, i) = SumFunctionOnSet(f, Customers)
    BY <1>7 DEF AddedUp
  <2>2. \A c \in Customers : f[c] \in Nat /\ g[c] \in Nat
    BY <1>7, <1>10 DEF AddedUp, Counts
  <2>3. \A c \in Customers : c # d => g[c] = f[c]
    BY <1>10
  <2>4. f[d] = last[i] /\ g[d] = top[i]
    BY <1>3, <1>8, <1>10
  <2> HIDE DEF f, g
  <2>5. /\ SumFunctionOnSet(g, Customers) + f[d] = SumFunctionOnSet(f, Customers) + g[d]
        /\ SumFunctionOnSet(f, Customers) \in Nat /\ SumFunctionOnSet(g, Customers) \in Nat
    BY <1>3, <2>2, <2>3, CustomersAssumption, SumChanges
  <2>6. top[i] = last[i] + Rise(last, m.picked, i) /\ Rise(last, m.picked, i) \in Nat
        /\ last[i] \in Nat
    BY <1>3, <1>8 DEF Rise, Counts
  <2> HIDE DEF top, last
  <2>7. SumFunctionOnSet(g, Customers) = SumFunctionOnSet(f, Customers) + Rise(last, m.picked, i)
    BY <2>4, <2>5, <2>6
  <2> QED
    BY <1>16, <2>1, <2>7 DEF g
<1>18. AddedUp(eventQueue', lastCounts', received', now)
  BY <1>10, <1>13, <1>14, <1>16, <1>17 DEF AddedUp
<1> QED
  BY <1>6, <1>18

LEMMA AddingStep == Adding /\ [FeedNext]_feedVars => Adding'
<1> SUFFICES ASSUME Adding, [FeedNext]_feedVars PROVE Adding'
  OBVIOUS
<1>1. Remembered /\ Remembered'
  BY RememberedStep DEF Adding
<1>2. CASE UNCHANGED <<subscriberVars, received>>
  BY <1>1, <1>2 DEF Adding, subscriberVars
<1>3. CASE Receive
  BY <1>1, <1>3, AddingReceive DEF Adding
<1>4. CASE ReceiveAgain
  <2>1. PICK m \in received : ProcessTransition(m) /\ UNCHANGED received
    BY <1>4 DEF ReceiveAgain
  <2>2. Key(m) \in seenTransitions
    BY <1>1, Seen DEF Remembered
  <2>3. UNCHANGED subscriberVars
    BY <2>1, <2>2 DEF ProcessTransition, NotSeen, subscriberVars
  <2> QED
    BY <1>2, <2>1, <2>3
<1>5. ASSUME NEW c \in Customers, Approach(c) \/ Leave(c)
      PROVE  UNCHANGED <<subscriberVars, received>>
  BY <1>5 DEF Approach, Leave, Publish
<1>6. CASE Lose
  BY <1>2, <1>6 DEF Lose
<1>7. CASE UNCHANGED feedVars
  BY <1>2, <1>7 DEF feedVars
<1> QED
  BY <1>2, <1>3, <1>4, <1>5, <1>6, <1>7 DEF FeedNext

(* The pick events handed to the rules count each product exactly as often *)
(* as Vision has shown it taken, whatever is repeated, corrected or lost.  *)
THEOREM PicksAreCounted == FeedSpec => []PicksAddUp
<1>1. Adding => PicksAddUp
  <2> SUFFICES ASSUME Adding, NEW i \in Items
               PROVE  Emitted(i) = SumFunction([c \in Customers |-> Shown(c, i)])
    BY DEF PicksAddUp
  <2>1. PICK shown : AddedUp(eventQueue, lastCounts, received, shown)
    BY DEF Adding
  <2>2. ASSUME NEW c \in Customers PROVE Shown(c, i) = shown[c][i]
    <3>1. received \subseteq Messages
      BY DEF Adding, Remembered, WireOrdered, FeedTypes
    <3>2. Reports(received, c, i) \subseteq Nat
      BY <3>1, MessagePicks DEF Reports, Counts
    <3>3. Tops(received, c, i, shown[c][i])
      BY <2>1 DEF AddedUp
    <3>4. ShownIn(received, c, i) = shown[c][i]
      BY <3>2, <3>3, ShownTops
    <3> QED
      BY <3>4 DEF Shown, ShownIn, Reports
  <2>3. [c \in Customers |-> Shown(c, i)] = [c \in Customers |-> shown[c][i]]
    BY <2>2
  <2>4. Emitted(i) = Picked(eventQueue, i)
    BY DEF Emitted, Picked
  <2>5. Picked(eventQueue, i) = SumFunctionOnSet([c \in Customers |-> shown[c][i]], Customers)
    BY <2>1 DEF AddedUp
  <2> DEFINE g == [c \in Customers |-> shown[c][i]]
  <2>6. SumFunction(g) = SumFunctionOnSet(g, Customers)
    BY DEF SumFunction
  <2> QED
    BY <2>3, <2>4, <2>5, <2>6
<1> QED
  BY <1>1, AddingInit, AddingStep, PTL DEF FeedSpec
=============================================================================
