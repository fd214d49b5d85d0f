-------------------------- MODULE FusionLoopProofs --------------------------
(***************************************************************************)
(* Proofs about FusionLoop, for any customers, products, delays and        *)
(* faults: an exit gets the code of its row of the scenario table, no      *)
(* customer is judged twice, no payment clears two exits, and, when Vision *)
(* is no later than the grace, every exit is judged by what its customer   *)
(* paid.                                                                   *)
(***************************************************************************)
EXTENDS FusionLoop, PosSessionProofs, SumTheorems

-----------------------------------------------------------------------------
(* The verdict (ExitVerdict), for any products and any quantities.         *)

(* A difference per product has a positive entry exactly when one count    *)
(* exceeds the other somewhere.                                            *)
LEMMA SomeExcess ==
    ASSUME NEW P, NEW a \in [P -> Nat], NEW b \in [P -> Nat]
    PROVE  Some(Excess(a, b)) <=> \E i \in P : b[i] < a[i]
<1>1. DOMAIN a = P /\ DOMAIN Excess(a, b) = P
  BY DEF Excess
<1>2. \A i \in P : Excess(a, b)[i] > 0 <=> b[i] < a[i]
  BY DEF Excess
<1> QED BY <1>1, <1>2 DEF Some

(* Counts are natural numbers: some are positive unless all are zero.      *)
LEMMA SomeOrNothing ==
    ASSUME NEW P, NEW a \in [P -> Nat]
    PROVE  Some(a) <=> ~Nothing(a)
BY DEF Some, Nothing

(* Counts that are nowhere below each other are equal. *)
LEMMA EqualCounts ==
    ASSUME NEW P, NEW a \in [P -> Nat], NEW b \in [P -> Nat],
           \A i \in P : ~(b[i] < a[i]), \A i \in P : ~(a[i] < b[i])
    PROVE  a = b
<1>1. \A i \in P : a[i] = b[i]
  OBVIOUS
<1> QED BY <1>1

(* finalize_customer_exit() answers with the code of the one row of the    *)
(* table that describes the exit.                                          *)
THEOREM VerdictByTable ==
    ASSUME NEW P, NEW picked \in [P -> Nat], NEW paid \in [P -> Nat],
           NEW wasAtKiosk \in BOOLEAN, NEW code
    PROVE  Situation(code, picked, paid, wasAtKiosk)
               <=> code = ExitCode(picked, paid, wasAtKiosk)
<1> DEFINE unpaid == \E i \in P : paid[i] < picked[i]
           overpaid == \E i \in P : picked[i] < paid[i]
<1>1. Some(Excess(picked, paid)) <=> unpaid
  BY SomeExcess
<1>2. Some(Excess(paid, picked)) <=> overpaid
  BY SomeExcess
<1>3. Some(picked) <=> ~Nothing(picked)
  BY SomeOrNothing
<1>4. Some(paid) <=> ~Nothing(paid)
  BY SomeOrNothing
<1>5. ExitCode(picked, paid, wasAtKiosk) =
          IF Nothing(picked) THEN "NO_ITEMS"
          ELSE IF unpaid
               THEN IF ~Nothing(paid) THEN "PARTIAL_PAYMENT"
                    ELSE IF wasAtKiosk THEN "NO_PAYMENT" ELSE "BYPASS_POS_NO_PAYMENT"
          ELSE IF overpaid THEN "OVERPAYMENT"
          ELSE "CLEARED"
  BY <1>1, <1>2, <1>3, <1>4 DEF ExitCode
<1>6. picked = paid <=> ~unpaid /\ ~overpaid
  <2>1. ASSUME ~unpaid, ~overpaid PROVE picked = paid
    BY <2>1, EqualCounts
  <2>2. ASSUME picked = paid PROVE ~unpaid /\ ~overpaid
    BY <2>2
  <2> QED BY <2>1, <2>2
<1>7. (\A i \in DOMAIN picked : picked[i] <= paid[i]) <=> ~unpaid
  OBVIOUS
<1>8. (\E i \in DOMAIN picked : paid[i] < picked[i]) <=> unpaid
  OBVIOUS
<1>9. ~Nothing(picked) /\ Nothing(paid) => unpaid
  BY DEF Nothing
<1>10. Nothing(picked) => ~unpaid
  BY DEF Nothing
<1> HIDE DEF unpaid, overpaid
<1> QED BY <1>5, <1>6, <1>7, <1>8, <1>9, <1>10 DEF Situation

(* Only an unpaid product raises an alarm, and every one does.             *)
COROLLARY AlarmIffUnpaid ==
    ASSUME NEW P, NEW picked \in [P -> Nat], NEW paid \in [P -> Nat],
           NEW wasAtKiosk \in BOOLEAN
    PROVE  Critical(ExitCode(picked, paid, wasAtKiosk))
               <=> \E i \in P : paid[i] < picked[i]
<1>1. Some(Excess(picked, paid)) <=> \E i \in P : paid[i] < picked[i]
  BY SomeExcess
<1>2. Some(picked) <=> ~Nothing(picked)
  BY SomeOrNothing
<1>3. Nothing(picked) => ~ \E i \in P : paid[i] < picked[i]
  BY DEF Nothing
<1> QED BY <1>1, <1>2, <1>3 DEF Critical, ExitCode
-----------------------------------------------------------------------------
(* Where an exit is. *)

Picks == UNION {PickSets[c] : c \in Customers}
Messages == [customer : Customers, state : {"POS", "EXIT"}, picked : Picks, timestamp : {1, 2},
             age : Nat]
Sessions == [kind : {"POS", "EXIT"}, customer : Customers, picked : Picks, wasAtKiosk : BOOLEAN]
Exits == [session : Sessions, due : Nat]

Queues ==
    /\ wire \in Seq(Messages)
    /\ \A n \in 1..Len(wire) : wire[n].state = "EXIT" => wire[n].timestamp = 2
    /\ sessionQueue \in Seq(Sessions)
    /\ pendingExits \in Seq(Exits)
    /\ loop = "exits" => pendingExits # <<>>
    /\ \E V : verdicts \in Seq(V)

(* The exit of a customer is in one place at most: in the session queue q, *)
(* among the exits e that wait out their grace, or among the verdicts v;   *)
(* and the subscriber has seen its transition.                             *)
ExitsIn(q) == {n \in 1..Len(q) : q[n].kind = "EXIT"}

Apart(q, e, v) ==
    /\ \A n, k \in ExitsIn(q) : q[n].customer = q[k].customer => n = k
    /\ \A n, k \in 1..Len(e) : e[n].session.customer = e[k].session.customer => n = k
    /\ \A n, k \in 1..Len(v) : v[n].customer = v[k].customer => n = k
    /\ \A n \in ExitsIn(q), k \in 1..Len(e) : q[n].customer # e[k].session.customer
    /\ \A n \in ExitsIn(q), k \in 1..Len(v) : q[n].customer # v[k].customer
    /\ \A n \in 1..Len(e), k \in 1..Len(v) : e[n].session.customer # v[k].customer

Known(q, e, v, seen) ==
    /\ \A n \in ExitsIn(q) : <<q[n].customer, "EXIT", 2>> \in seen
    /\ \A n \in 1..Len(e) : <<e[n].session.customer, "EXIT", 2>> \in seen
    /\ \A n \in 1..Len(v) : <<v[n].customer, "EXIT", 2>> \in seen

OnePlace ==
    /\ Apart(sessionQueue, pendingExits, verdicts)
    /\ Known(sessionQueue, pendingExits, verdicts, seenTransitions)

-----------------------------------------------------------------------------
(* Sequences. *)

LEMMA AppendOne ==
    ASSUME NEW S, NEW s \in Seq(S), NEW e
    PROVE  /\ Append(s, e) \in Seq(S \union {e}) /\ Len(s) \in Nat
           /\ Len(Append(s, e)) = Len(s) + 1 /\ Append(s, e)[Len(s) + 1] = e
           /\ \A n \in 1..Len(s) : Append(s, e)[n] = s[n]
<1>1. s \in Seq(S \union {e})
  BY SeqMonotonic
<1> QED
  BY <1>1

LEMMA TailOne ==
    ASSUME NEW S, NEW s \in Seq(S), s # <<>>
    PROVE  /\ Tail(s) \in Seq(S) /\ Len(s) \in Nat \ {0} /\ Len(Tail(s)) = Len(s) - 1
           /\ Head(s) = s[1] /\ Head(s) \in S
           /\ \A n \in 1..Len(Tail(s)) : Tail(s)[n] = s[n + 1] /\ n + 1 \in 2..Len(s)
  OBVIOUS

LEMMA MapKeeps ==
    ASSUME NEW S, NEW s \in Seq(S), NEW t, t \in [DOMAIN s -> S]
    PROVE  t \in Seq(S) /\ Len(t) = Len(s)
<1>1. DOMAIN s = 1..Len(s) /\ Len(s) \in Nat
  BY LenProperties
<1> QED
  BY <1>1

-----------------------------------------------------------------------------
(* The moves of an exit. *)

(* The subscriber queues a session it has not seen. *)
LEMMA QueueGrows ==
    ASSUME NEW Q, NEW q \in Seq(Q), NEW E, NEW e \in Seq(E), NEW V, NEW v \in Seq(V), NEW seen,
           Apart(q, e, v), Known(q, e, v, seen), NEW s,
           s.kind = "EXIT" => <<s.customer, "EXIT", 2>> \notin seen,
           NEW more, seen \subseteq more,
           s.kind = "EXIT" => <<s.customer, "EXIT", 2>> \in more
    PROVE  Apart(Append(q, s), e, v) /\ Known(Append(q, s), e, v, more)
<1> DEFINE r == Append(q, s)
<1>1. /\ Len(q) \in Nat /\ Len(r) = Len(q) + 1 /\ r[Len(q) + 1] = s
      /\ \A n \in 1..Len(q) : r[n] = q[n]
  BY AppendOne
<1>2. \A n \in ExitsIn(r) :
        \/ n \in ExitsIn(q) /\ r[n] = q[n]
        \/ n = Len(q) + 1 /\ r[n] = s /\ s.kind = "EXIT"
  BY <1>1 DEF ExitsIn
<1> HIDE DEF r
<1>3. \A n \in ExitsIn(q) : q[n].customer # s.customer \/ s.kind # "EXIT"
  BY DEF Known
<1>4. \A n, k \in ExitsIn(r) : r[n].customer = r[k].customer => n = k
  BY <1>2, <1>3 DEF Apart
<1>5. \A n \in ExitsIn(r), k \in 1..Len(e) : r[n].customer # e[k].session.customer
  BY <1>2 DEF Apart, Known
<1>6. \A n \in ExitsIn(r), k \in 1..Len(v) : r[n].customer # v[k].customer
  BY <1>2 DEF Apart, Known
<1>7. Apart(r, e, v)
  BY <1>4, <1>5, <1>6 DEF Apart
<1>8. Known(r, e, v, more)
  BY <1>2 DEF Known
<1> QED
  BY <1>7, <1>8 DEF r

(* The loop takes the oldest session. *)
LEMMA QueueShrinks ==
    ASSUME NEW Q, NEW q \in Seq(Q), q # <<>>, NEW e, NEW v, NEW seen,
           Apart(q, e, v), Known(q, e, v, seen)
    PROVE  Apart(Tail(q), e, v) /\ Known(Tail(q), e, v, seen)
<1> DEFINE r == Tail(q)
<1>1. \A n \in ExitsIn(r) : n \in Int /\ n + 1 \in ExitsIn(q) /\ r[n] = q[n + 1]
  BY TailOne DEF ExitsIn
<1> HIDE DEF r
<1>2. \A n, k \in ExitsIn(r) : r[n].customer = r[k].customer => n = k
  <2> SUFFICES ASSUME NEW n \in ExitsIn(r), NEW k \in ExitsIn(r), r[n].customer = r[k].customer
               PROVE n = k
    OBVIOUS
  <2>1. n \in Int /\ k \in Int /\ n + 1 = k + 1
    BY <1>1 DEF Apart
  <2> QED
    BY <2>1
<1>3. Apart(r, e, v)
  BY <1>1, <1>2 DEF Apart
<1>4. Known(r, e, v, seen)
  BY <1>1 DEF Known
<1> QED
  BY <1>3, <1>4 DEF r

(* An exit that is taken waits out its grace. *)
LEMMA ExitWaits ==
    ASSUME NEW Q, NEW q \in Seq(Q), q # <<>>, NEW E, NEW e \in Seq(E), NEW v, NEW seen,
           Apart(q, e, v), Known(q, e, v, seen), Head(q).kind = "EXIT",
           NEW x, x.session = Head(q)
    PROVE  Apart(Tail(q), Append(e, x), v) /\ Known(Tail(q), Append(e, x), v, seen)
<1> DEFINE f == Append(e, x)
           r == Tail(q)
<1>1. /\ Len(e) \in Nat /\ Len(f) = Len(e) + 1 /\ f[Len(e) + 1] = x
      /\ \A n \in 1..Len(e) : f[n] = e[n]
  BY AppendOne
<1>2. \A n \in 1..Len(f) : \/ n \in 1..Len(e) /\ f[n] = e[n]
                           \/ n = Len(e) + 1 /\ f[n] = x
  BY <1>1
<1>3. 1 \in ExitsIn(q) /\ x.session = q[1]
  BY TailOne DEF ExitsIn
<1>4. \A n \in ExitsIn(r) : n + 1 \in ExitsIn(q) /\ r[n] = q[n + 1] /\ n + 1 # 1
  <2> TAKE n \in ExitsIn(r)
  <2>1. n \in 1..Len(r) /\ r[n].kind = "EXIT"
    BY DEF ExitsIn
  <2>2. n \in Nat /\ r[n] = q[n + 1] /\ n + 1 \in 2..Len(q) /\ Len(q) \in Nat
    BY <2>1, TailOne
  <2> QED
    BY <2>1, <2>2 DEF ExitsIn
<1>5. Apart(r, e, v) /\ Known(r, e, v, seen)
  BY QueueShrinks
<1> HIDE DEF f, r
<1>6. \A n, k \in 1..Len(f) : f[n].session.customer = f[k].session.customer => n = k
  <2>1. \A n \in 1..Len(e) : e[n].session.customer # x.session.customer
    BY <1>3 DEF Apart
  <2>2. \A n, k \in 1..Len(e) : e[n].session.customer = e[k].session.customer => n = k
    BY DEF Apart
  <2> QED
    BY <1>2, <2>1, <2>2
<1>7. \A n \in ExitsIn(r), k \in 1..Len(f) : r[n].customer # f[k].session.customer
  <2> SUFFICES ASSUME NEW n \in ExitsIn(r), NEW k \in 1..Len(f)
               PROVE  r[n].customer # f[k].session.customer
    OBVIOUS
  <2>1. CASE f[k] = x
    BY <1>3, <1>4, <2>1 DEF Apart
  <2>2. CASE k \in 1..Len(e) /\ f[k] = e[k]
    BY <1>5, <2>2 DEF Apart
  <2> QED
    BY <1>2, <2>1, <2>2
<1>8. \A n \in 1..Len(f), k \in 1..Len(v) : f[n].session.customer # v[k].customer
  BY <1>2, <1>3 DEF Apart
<1>9. Apart(r, f, v)
  BY <1>5, <1>6, <1>7, <1>8 DEF Apart
<1>10. Known(r, f, v, seen)
  BY <1>2, <1>3, <1>5 DEF Known
<1> QED
  BY <1>9, <1>10 DEF f, r

(* The oldest exit is judged. *)
LEMMA ExitJudged ==
    ASSUME NEW q, NEW E, NEW e \in Seq(E), e # <<>>, NEW V, NEW v \in Seq(V), NEW seen,
           Apart(q, e, v), Known(q, e, v, seen), NEW x, x.customer = Head(e).session.customer
    PROVE  Apart(q, Tail(e), Append(v, x)) /\ Known(q, Tail(e), Append(v, x), seen)
<1> DEFINE f == Tail(e)
           w == Append(v, x)
<1>1. /\ Len(v) \in Nat /\ Len(w) = Len(v) + 1 /\ w[Len(v) + 1] = x
      /\ \A n \in 1..Len(v) : w[n] = v[n]
  BY AppendOne
<1>2. \A n \in 1..Len(w) : \/ n \in 1..Len(v) /\ w[n] = v[n]
                           \/ n = Len(v) + 1 /\ w[n] = x
  BY <1>1
<1>3. 1 \in 1..Len(e) /\ x.customer = e[1].session.customer
  BY TailOne
<1>4. \A n \in 1..Len(f) : n + 1 \in 1..Len(e) /\ f[n] = e[n + 1] /\ n + 1 # 1
  BY TailOne
<1> HIDE DEF f, w
<1>5. \A n, k \in 1..Len(f) : f[n].session.customer = f[k].session.customer => n = k
  <2> SUFFICES ASSUME NEW n \in 1..Len(f), NEW k \in 1..Len(f),
                      f[n].session.customer = f[k].session.customer
               PROVE  n = k
    OBVIOUS
  <2>1. n + 1 = k + 1
    BY <1>4 DEF Apart
  <2> QED
    BY <2>1
<1>6. \A n, k \in 1..Len(w) : w[n].customer = w[k].customer => n = k
  BY <1>2, <1>3 DEF Apart
<1>7. \A n \in ExitsIn(q), k \in 1..Len(f) : q[n].customer # f[k].session.customer
  <2> TAKE n \in ExitsIn(q), k \in 1..Len(f)
  <2>1. k + 1 \in 1..Len(e) /\ f[k] = e[k + 1]
    BY <1>4
  <2> QED
    BY <2>1 DEF Apart
<1>8. \A n \in ExitsIn(q), k \in 1..Len(w) : q[n].customer # w[k].customer
  BY <1>2, <1>3 DEF Apart
<1>9. \A n \in 1..Len(f), k \in 1..Len(w) : f[n].session.customer # w[k].customer
  <2> TAKE n \in 1..Len(f), k \in 1..Len(w)
  <2>1. /\ n + 1 \in 1..Len(e) /\ f[n] = e[n + 1] /\ n + 1 # 1
        /\ e[n + 1].session.customer # x.customer
    BY <1>3, <1>4 DEF Apart
  <2>2. ASSUME k \in 1..Len(v), w[k] = v[k] PROVE e[n + 1].session.customer # w[k].customer
    BY <2>1, <2>2 DEF Apart
  <2> QED
    BY <1>2, <2>1, <2>2
<1>10. Apart(q, f, w)
  BY <1>5, <1>6, <1>7, <1>8, <1>9 DEF Apart
<1>11. Known(q, f, w, seen)
  BY <1>2, <1>3, <1>4 DEF Known
<1> QED
  BY <1>10, <1>11 DEF f, w

(* A reset forgets the exits that wait. *)
LEMMA ExitsForgotten ==
    ASSUME NEW q, NEW e, NEW v, NEW seen, Apart(q, e, v), Known(q, e, v, seen)
    PROVE  Apart(q, <<>>, v) /\ Known(q, <<>>, v, seen)
<1>1. Len(<<>>) = 0 /\ 1..0 = {}
  OBVIOUS
<1> QED
  BY <1>1 DEF Apart, Known

(* Time passes for the exits that wait. *)
LEMMA ExitsAge ==
    ASSUME NEW q, NEW e, NEW v, NEW seen, Apart(q, e, v), Known(q, e, v, seen), NEW f,
           Len(f) = Len(e), \A n \in 1..Len(e) : f[n].session = e[n].session
    PROVE  Apart(q, f, v) /\ Known(q, f, v, seen)
<1>1. \A n, k \in 1..Len(f) : f[n].session.customer = f[k].session.customer => n = k
  BY DEF Apart
<1>2. \A n \in ExitsIn(q), k \in 1..Len(f) : q[n].customer # f[k].session.customer
  BY DEF Apart
<1>3. \A n \in 1..Len(f), k \in 1..Len(v) : f[n].session.customer # v[k].customer
  BY DEF Apart
<1>4. \A n \in 1..Len(f) : <<f[n].session.customer, "EXIT", 2>> \in seen
  BY DEF Known
<1>5. Apart(q, f, v)
  BY <1>1, <1>2, <1>3 DEF Apart
<1> QED
  BY <1>4, <1>5 DEF Known

-----------------------------------------------------------------------------
(* The invariant. *)

LEMMA OnePlaceInit == FusionInit => Queues /\ OnePlace
<1> SUFFICES ASSUME FusionInit PROVE Queues /\ OnePlace
  OBVIOUS
<1>1. /\ wire = <<>> /\ sessionQueue = <<>> /\ pendingExits = <<>> /\ verdicts = <<>>
      /\ loop = "sessions"
  BY DEF FusionInit
<1>2. \A S : <<>> \in Seq(S) /\ Len(<<>>) = 0 /\ 1..0 = {}
  OBVIOUS
<1>3. Queues
  BY <1>1, <1>2 DEF Queues
<1>4. ExitsIn(<<>>) = {}
  BY <1>2 DEF ExitsIn
<1>5. OnePlace
  BY <1>1, <1>2, <1>4 DEF OnePlace, Apart, Known
<1> QED
  BY <1>3, <1>5

(* A message leaves the wire. *)
LEMMA WireShrinks ==
    ASSUME Queues, wire' = wire \/ (wire # <<>> /\ wire' = Tail(wire))
    PROVE  /\ wire' \in Seq(Messages)
           /\ \A n \in 1..Len(wire') : wire'[n].state = "EXIT" => wire'[n].timestamp = 2
<1>1. CASE wire' = wire
  BY <1>1 DEF Queues
<1>2. CASE wire # <<>> /\ wire' = Tail(wire)
  <2>1. wire \in Seq(Messages)
    BY DEF Queues
  <2>2. /\ Tail(wire) \in Seq(Messages)
        /\ \A n \in 1..Len(Tail(wire)) :
               Tail(wire)[n] = wire[n + 1] /\ n + 1 \in 1..Len(wire)
    BY <1>2, <2>1, TailOne
  <2> QED
    BY <1>2, <2>2 DEF Queues
<1> QED
  BY <1>1, <1>2

(* The steps that leave the exits alone: only the wire and the loop's place *)
(* may change.                                                             *)
LEMMA QuietStep ==
    ASSUME Queues, OnePlace,
           UNCHANGED <<sessionQueue, pendingExits, verdicts, seenTransitions>>,
           wire' = wire \/ (wire # <<>> /\ wire' = Tail(wire)),
           loop' = "exits" => loop = "exits" \/ pendingExits # <<>>
    PROVE  Queues' /\ OnePlace'
<1>1. /\ wire' \in Seq(Messages)
      /\ \A n \in 1..Len(wire') : wire'[n].state = "EXIT" => wire'[n].timestamp = 2
  BY WireShrinks
<1>2. loop' = "exits" => pendingExits # <<>>
  BY DEF Queues
<1>3. Queues'
  BY <1>1, <1>2 DEF Queues
<1>4. OnePlace'
  BY DEF OnePlace
<1> QED
  BY <1>3, <1>4

(* The steps in front of the subscriber. *)
LEMMA PublishStep ==
    ASSUME Queues, OnePlace, NEW c \in Customers, Approach(c) \/ Leave(c)
    PROVE  Queues' /\ OnePlace'
<1>1. PICK state \in {"POS", "EXIT"}, picked \in PickSets[c] :
          wire' = Append(wire, Message(c, state, picked))
  BY DEF Approach, Leave, Publish
<1>2. UNCHANGED <<loop, sessionQueue, pendingExits, verdicts, seenTransitions>>
  BY DEF Approach, Leave, loopVars, visionVars, outcomeVars
<1> DEFINE m == Message(c, state, picked)
<1>3. m \in Messages /\ (m.state = "EXIT" => m.timestamp = 2)
  <2>1. picked \in Picks
    BY DEF Picks
  <2> QED
    BY <2>1 DEF Message, Messages
<1>4. wire \in Seq(Messages)
  BY DEF Queues
<1> HIDE DEF m
<1>5. /\ Append(wire, m) \in Seq(Messages)
      /\ \A n \in 1..Len(Append(wire, m)) :
             \/ Append(wire, m)[n] = m
             \/ n \in 1..Len(wire) /\ Append(wire, m)[n] = wire[n]
  BY <1>3, <1>4, AppendOne
<1>6. wire' = Append(wire, m)
  BY <1>1 DEF m
<1>7. Queues'
  BY <1>2, <1>3, <1>5, <1>6 DEF Queues
<1>8. OnePlace'
  BY <1>2 DEF OnePlace
<1> QED
  BY <1>7, <1>8

(* The subscriber. *)
LEMMA ReceiveStep ==
    ASSUME Queues, OnePlace, ReceiveTransition
    PROVE  Queues' /\ OnePlace'
<1> DEFINE m == Head(wire)
<1>1. wire \in Seq(Messages) /\ wire # <<>>
  BY DEF Queues, ReceiveTransition
<1>2. m \in Messages /\ m = wire[1] /\ 1 \in 1..Len(wire)
  BY <1>1, TailOne
<1>3. m.state = "EXIT" => m.timestamp = 2
  BY <1>2 DEF Queues
<1>4. /\ Vision!ProcessTransition(m)
      /\ wire' = wire \/ (wire # <<>> /\ wire' = Tail(wire))
      /\ UNCHANGED <<loop, pendingExits, verdicts>>
  BY DEF ReceiveTransition, loopVars, outcomeVars
<1> HIDE DEF m
<1>5. CASE ~Vision!NotSeen(m)
  <2>1. UNCHANGED <<sessionQueue, seenTransitions>>
    BY <1>4, <1>5 DEF Vision!ProcessTransition
  <2> QED
    BY <1>4, <2>1, QuietStep
<1>6. CASE Vision!NotSeen(m)
  <2> DEFINE s == Vision!Session(m)
  <2>1. /\ sessionQueue' = Append(sessionQueue, s)
        /\ seenTransitions' = seenTransitions \union {Vision!Key(m)}
    BY <1>4, <1>6 DEF Vision!ProcessTransition
  <2>2. s \in Sessions /\ s.kind = m.state /\ s.customer = m.customer
    BY <1>2 DEF Vision!Session, Sessions, Messages
  <2> HIDE DEF s
  <2>3. m.state = "EXIT" => Vision!Key(m) = <<s.customer, "EXIT", 2>>
    BY <1>3, <2>2 DEF Vision!Key
  <2>4. /\ sessionQueue \in Seq(Sessions) /\ pendingExits \in Seq(Exits)
        /\ \E V : verdicts \in Seq(V)
    BY DEF Queues
  <2>5. Apart(sessionQueue, pendingExits, verdicts)
        /\ Known(sessionQueue, pendingExits, verdicts, seenTransitions)
    BY DEF OnePlace
  <2>6. PICK V : verdicts \in Seq(V)
    BY <2>4
  <2>7. s.kind = "EXIT" => /\ <<s.customer, "EXIT", 2>> \notin seenTransitions
                          /\ <<s.customer, "EXIT", 2>> \in seenTransitions'
    BY <1>6, <2>1, <2>2, <2>3 DEF Vision!NotSeen
  <2>8. seenTransitions \subseteq seenTransitions'
    BY <2>1
  <2>9. Apart(sessionQueue', pendingExits, verdicts)
        /\ Known(sessionQueue', pendingExits, verdicts, seenTransitions')
    BY <2>1, <2>4, <2>5, <2>6, <2>7, <2>8, QueueGrows
  <2>10. OnePlace'
    BY <1>4, <2>9 DEF OnePlace
  <2>11. sessionQueue' \in Seq(Sessions)
    BY <2>1, <2>2, <2>4, AppendProperties
  <2>12. /\ wire' \in Seq(Messages)
         /\ \A n \in 1..Len(wire') : wire'[n].state = "EXIT" => wire'[n].timestamp = 2
    BY <1>4, WireShrinks
  <2>13. Queues'
    BY <1>4, <2>11, <2>12 DEF Queues
  <2> QED
    BY <2>10, <2>13
<1> QED
  BY <1>5, <1>6

(* The loop takes a session. *)
LEMMA TakeStep ==
    ASSUME Queues, OnePlace, TakeSession
    PROVE  Queues' /\ OnePlace'
<1>1. /\ sessionQueue \in Seq(Sessions) /\ pendingExits \in Seq(Exits)
      /\ Apart(sessionQueue, pendingExits, verdicts)
      /\ Known(sessionQueue, pendingExits, verdicts, seenTransitions)
  BY DEF Queues, OnePlace
<1>2. /\ sessionQueue # <<>> /\ sessionQueue' = Tail(sessionQueue)
      /\ loop = "sessions" /\ UNCHANGED <<wire, loop, verdicts, seenTransitions>>
  BY DEF TakeSession, visionVars, outcomeVars
<1>3. Head(sessionQueue) \in Sessions /\ sessionQueue' \in Seq(Sessions)
  BY <1>1, <1>2, TailOne
<1>4. CASE pendingExits' = pendingExits
  <2>1. Apart(sessionQueue', pendingExits', verdicts')
        /\ Known(sessionQueue', pendingExits', verdicts', seenTransitions')
    BY <1>1, <1>2, <1>4, QueueShrinks
  <2> QED
    BY <1>2, <1>3, <1>4, <2>1 DEF Queues, OnePlace
<1>5. CASE Head(sessionQueue).kind = "EXIT" /\ CustomerExit(Head(sessionQueue))
  <2> DEFINE x == [session |-> Head(sessionQueue), due |-> Grace]
  <2>1. x \in Exits /\ x.session = Head(sessionQueue)
    BY <1>3, TimeAssumption DEF Exits
  <2>2. pendingExits' = Append(pendingExits, x)
    BY <1>5 DEF CustomerExit
  <2> HIDE DEF x
  <2>3. Apart(sessionQueue', pendingExits', verdicts')
        /\ Known(sessionQueue', pendingExits', verdicts', seenTransitions')
    BY <1>1, <1>2, <1>5, <2>1, <2>2, ExitWaits
  <2>4. pendingExits' \in Seq(Exits)
    BY <1>1, <2>1, <2>2, AppendProperties
  <2> QED
    BY <1>2, <1>3, <2>3, <2>4 DEF Queues, OnePlace
<1> QED
  BY <1>4, <1>5 DEF TakeSession, CustomerPos

(* The loop judges an exit. *)
LEMMA JudgeStep ==
    ASSUME Queues, OnePlace, JudgeExit
    PROVE  Queues' /\ OnePlace'
<1>1. /\ pendingExits \in Seq(Exits) /\ pendingExits # <<>>
      /\ Apart(sessionQueue, pendingExits, verdicts)
      /\ Known(sessionQueue, pendingExits, verdicts, seenTransitions)
  BY DEF Queues, OnePlace, JudgeExit
<1>2. PICK V : verdicts \in Seq(V)
  BY DEF Queues
<1>3. PICK v : v.customer = Head(pendingExits).session.customer /\ verdicts' = Append(verdicts, v)
  <2> DEFINE s == Head(pendingExits).session
             own == paidByCustomer[s.customer]
             v == [customer |-> s.customer, picked |-> s.picked, paid |-> PaidFor(own),
                   code |-> ExitCode(s.picked, PaidFor(own), s.wasAtKiosk)]
  <2>1. verdicts' = Append(verdicts, v)
    BY DEF JudgeExit
  <2>2. v.customer = s.customer
    OBVIOUS
  <2> QED
    BY <2>1, <2>2
<1>4. pendingExits' = Tail(pendingExits) /\ UNCHANGED <<wire, sessionQueue, seenTransitions>>
  BY DEF JudgeExit, visionVars
<1>5. Apart(sessionQueue', pendingExits', verdicts')
      /\ Known(sessionQueue', pendingExits', verdicts', seenTransitions')
  BY <1>1, <1>2, <1>3, <1>4, ExitJudged
<1>6. pendingExits' \in Seq(Exits) /\ verdicts' \in Seq(V \union {v})
  BY <1>1, <1>2, <1>3, <1>4, TailOne, AppendOne
<1>7. loop' = "exits" => pendingExits' # <<>>
  BY <1>4 DEF JudgeExit, BreakOff, AfterSessions, DueExit
<1> QED
  BY <1>4, <1>5, <1>6, <1>7 DEF Queues, OnePlace

(* The operator's reset. *)
LEMMA ResetStep ==
    ASSUME Queues, OnePlace, HandleReset
    PROVE  Queues' /\ OnePlace'
<1>1. /\ loop' # "exits"
      /\ UNCHANGED <<wire, sessionQueue, verdicts, seenTransitions>>
  BY DEF HandleReset, NextRound, visionVars, outcomeVars
<1>2. pendingExits' = <<>>
  BY DEF HandleReset
<1>3. Queues' /\ OnePlace'
  <2>1. Apart(sessionQueue, <<>>, verdicts)
        /\ Known(sessionQueue, <<>>, verdicts, seenTransitions)
    BY ExitsForgotten DEF OnePlace
  <2> QED
    BY <1>1, <1>2, <2>1 DEF Queues, OnePlace
<1> QED
  BY <1>3

(* Time passes for the messages and the exits. *)
LEMMA TickStep ==
    ASSUME Queues, OnePlace, Tick
    PROVE  Queues' /\ OnePlace'
<1>1. /\ wire \in Seq(Messages) /\ pendingExits \in Seq(Exits)
      /\ \A n \in 1..Len(wire) : wire[n].state = "EXIT" => wire[n].timestamp = 2
      /\ DOMAIN wire = 1..Len(wire) /\ DOMAIN pendingExits = 1..Len(pendingExits)
  BY LenProperties DEF Queues
<1>2. /\ wire' = [n \in DOMAIN wire |-> [wire[n] EXCEPT !.age = Older(wire[n].age, WireDelay)]]
      /\ pendingExits' =
             [n \in DOMAIN pendingExits |->
                 [pendingExits[n] EXCEPT !.due = IF pendingExits[n].due = 0 THEN 0
                                                 ELSE pendingExits[n].due - 1]]
      /\ loop \in {"sessions", "events"}
      /\ UNCHANGED <<loop, sessionQueue, verdicts, seenTransitions>>
  BY DEF Tick, visionVars, outcomeVars
<1>3. \A n \in 1..Len(wire) :
          /\ [wire[n] EXCEPT !.age = Older(wire[n].age, WireDelay)] \in Messages
          /\ wire'[n].state = wire[n].state /\ wire'[n].timestamp = wire[n].timestamp
  <2> TAKE n \in 1..Len(wire)
  <2>1. wire[n] \in Messages
    BY <1>1
  <2>2. Older(wire[n].age, WireDelay) \in Nat
    BY <2>1, TimeAssumption DEF Older, Messages
  <2>3. wire'[n] = [wire[n] EXCEPT !.age = Older(wire[n].age, WireDelay)]
    BY <1>1, <1>2
  <2> QED
    BY ONLY <2>1, <2>2, <2>3 DEF Messages
<1>4. wire' \in Seq(Messages) /\ Len(wire') = Len(wire)
  <2>1. wire' \in [DOMAIN wire -> Messages]
    BY ONLY <1>1, <1>2, <1>3
  <2> QED
    BY <1>1, <2>1, MapKeeps
<1>5. \A n \in 1..Len(pendingExits) :
          /\ [pendingExits[n] EXCEPT !.due = IF pendingExits[n].due = 0 THEN 0
                                             ELSE pendingExits[n].due - 1] \in Exits
          /\ pendingExits'[n].session = pendingExits[n].session
  <2> TAKE n \in 1..Len(pendingExits)
  <2>1. pendingExits[n] \in Exits
    BY <1>1
  <2>2. pendingExits'[n] = [pendingExits[n] EXCEPT !.due = IF pendingExits[n].due = 0 THEN 0
                                                          ELSE pendingExits[n].due - 1]
    BY <1>1, <1>2
  <2> QED
    BY ONLY <2>1, <2>2 DEF Exits
<1>6. pendingExits' \in Seq(Exits) /\ Len(pendingExits') = Len(pendingExits)
  <2>1. pendingExits' \in [DOMAIN pendingExits -> Exits]
    BY ONLY <1>1, <1>2, <1>5
  <2> QED
    BY <1>1, <2>1, MapKeeps
<1>7. Queues'
  BY <1>1, <1>2, <1>3, <1>4, <1>6 DEF Queues
<1>8. OnePlace'
  BY <1>2, <1>5, <1>6, ExitsAge DEF OnePlace
<1> QED
  BY <1>7, <1>8

LEMMA OnePlaceStep == Queues /\ OnePlace /\ [FusionNext]_fusionVars => (Queues /\ OnePlace)'
<1> SUFFICES ASSUME Queues, OnePlace, [FusionNext]_fusionVars PROVE Queues' /\ OnePlace'
  OBVIOUS
<1> DEFINE Quiet ==
        /\ UNCHANGED <<sessionQueue, pendingExits, verdicts, seenTransitions>>
        /\ wire' = wire \/ (wire # <<>> /\ wire' = Tail(wire))
        /\ loop' = "exits" => loop = "exits" \/ pendingExits # <<>>
<1>1. Quiet => Queues' /\ OnePlace'
  BY QuietStep
<1>2. CASE \E c \in Customers : Approach(c) \/ Leave(c)
  BY <1>2, PublishStep
<1>3. CASE Checkout
  BY <1>1, <1>3 DEF Checkout, visionVars, loopVars, outcomeVars
<1>4. CASE SerialRead
  BY <1>1, <1>4 DEF SerialRead, visionVars, loopVars, outcomeVars
<1>5. CASE LoseCheckoutLine
  BY <1>1, <1>5 DEF LoseCheckoutLine, visionVars, loopVars, outcomeVars
<1>6. CASE ReceiveTransition
  BY <1>6, ReceiveStep
<1>7. CASE LoseTransition
  BY <1>1, <1>7 DEF LoseTransition, visionVars, loopVars, outcomeVars
<1>8. CASE ConsoleReset
  BY <1>1, <1>8 DEF ConsoleReset, visionVars, loopVars, outcomeVars
<1>9. CASE TakeSession
  BY <1>9, TakeStep
<1>10. CASE SessionsDrained
  BY <1>1, <1>10 DEF SessionsDrained, AfterSessions, DueExit, visionVars, outcomeVars
<1>11. CASE JudgeExit
  BY <1>11, JudgeStep
<1>12. CASE HandlePosEvent
  BY <1>1, <1>12 DEF HandlePosEvent, NextRound, visionVars, outcomeVars
<1>13. CASE HandlePick
  BY <1>1, <1>13 DEF HandlePick, NextRound, visionVars, outcomeVars
<1>14. CASE HandleReset
  BY <1>14, ResetStep
<1>15. CASE NoEvent
  BY <1>1, <1>15 DEF NoEvent, NextRound, visionVars, outcomeVars
<1>16. CASE Tick
  BY <1>16, TickStep
<1>17. CASE UNCHANGED fusionVars
  BY <1>1, <1>17 DEF fusionVars, visionVars, loopVars, outcomeVars
<1> QED
  BY <1>2, <1>3, <1>4, <1>5, <1>6, <1>7, <1>8, <1>9, <1>10, <1>11, <1>12, <1>13, <1>14, <1>15,
     <1>16, <1>17 DEF FusionNext, LoopStep

(* No customer is judged twice, however many messages are lost or repeated, *)
(* however late the loop is, and whatever the operator resets.             *)
THEOREM NobodyJudgedTwice == FusionSpec => []OneVerdictPerCustomer
<1>1. Queues /\ OnePlace => OneVerdictPerCustomer
  <2> SUFFICES ASSUME Queues, OnePlace PROVE OneVerdictPerCustomer
    OBVIOUS
  <2>1. PICK V : verdicts \in Seq(V)
    BY DEF Queues
  <2>2. DOMAIN verdicts = 1..Len(verdicts)
    BY <2>1, LenProperties
  <2> QED
    BY <2>2 DEF OnePlace, Apart, OneVerdictPerCustomer
<1> QED
  BY <1>1, OnePlaceInit, OnePlaceStep, PTL DEF FusionSpec
-----------------------------------------------------------------------------
(* A payment clears one exit at most.  The lines of the checkout are       *)
(* handled two queues late, so the proof follows the stamps of             *)
(* PosSessionProofs through both.                                          *)

(* Only lines whose content another line repeats are lost; a customer who  *)
(* presses DONE has scanned something; the operator resets nothing between *)
(* a payment and its summary; and a counter of the checkout does not wrap. *)
EveryPaymentTold ==
    /\ Lossy \subseteq {"COUNT", "PAY_DONE", "SUMMARY"}
    /\ ~EmptySessions
    /\ Resets = 0
    /\ MaxScans \in 0..255
    /\ IsFiniteSet(Customers)

(* A line printed between stamps a and b. *)
Sells(a, line, b) ==
    /\ Prints(a, line, b)
    /\ line.kind = "PAY" => a.count[line.item] + 1 < 256
    /\ line.kind = "COUNT" => line.counts = a.count
    /\ line.kind = "PAY_DONE" => a.count # Zero /\ a.told
    /\ line.kind = "BOOT" => a.pc = "boot"

(* The lines lost between stamps a and b: a report of the counters, a      *)
(* completion, a summary, or several of them.                              *)
Skips(a, b) ==
    \/ b = a
    \/ "COUNT" \in Lossy /\ a.pc = "product" /\ b = Counted(a)
    \/ /\ "PAY_DONE" \in Lossy /\ a.pc = "product" /\ a.count # Zero
       /\ a.told \/ "COUNT" \in Lossy
       /\ b = Paid(a) \/ ("SUMMARY" \in Lossy /\ b = Ended(Paid(a)))
    \/ "SUMMARY" \in Lossy /\ a.pc = "summary" /\ b = Ended(a)

(* An event of the queue takes stamp a to stamp b. *)
Leads(a, event, b) ==
    \E x \in Stamps : /\ Skips(a, x)
                      /\ Sells(x, event, b) \/ (event.kind = "REMOVE_CANDIDATE" /\ b = x)

(* From stamp a to stamp b customers finish sessions, which only add sales. *)
SoldBy(a, b) ==
    /\ a.finished["CUSTOMER"] <= b.finished["CUSTOMER"]
    /\ a.finished["CUSTOMER"] = b.finished["CUSTOMER"] => a.sold["CUSTOMER"] = b.sold["CUSTOMER"]
    /\ \A i \in Items : a.sold["CUSTOMER"][i] <= b.sold["CUSTOMER"][i]

(* The stamps g lead through the events q to the stamp last. *)
Trail(g, q, last) ==
    /\ g \in Seq(Stamps) /\ Len(g) = Len(q) + 1 /\ g[Len(g)] = last
    /\ \E L : q \in Seq(L)
    /\ \A n \in 1..Len(q) : Leads(g[n], q[n], g[n + 1])
    /\ \A n \in 1..Len(g) : SoldBy(g[n], last)

LEMMA StampParts ==
    ASSUME NEW a \in Stamps
    PROVE  /\ a.count \in Ledger /\ a.sold["CUSTOMER"] \in Ledger
           /\ a.sold \in [Users -> Ledger] /\ a.pc \in Stages
           /\ a.finished \in [Users -> Nat] /\ a.finished["CUSTOMER"] \in Nat
           /\ a.user \in Users <=> a.pc \in {"product", "summary"}
           /\ a.pc \notin {"product", "summary"} => a.count = Zero
  BY DEF Stamps, Records, Users

LEMMA PaidParts ==
    ASSUME NEW a \in Stamps, a.pc = "product"
    PROVE  /\ Paid(a) \in Stamps /\ Paid(a).pc = "summary" /\ Paid(a).user = a.user
           /\ Paid(a).count = a.count
           /\ \A i \in Items : Paid(a).sold["CUSTOMER"][i]
                 = IF a.user = "CUSTOMER" THEN a.sold["CUSTOMER"][i] + a.count[i]
                   ELSE a.sold["CUSTOMER"][i]
           /\ a.user # "CUSTOMER" => Paid(a).sold["CUSTOMER"] = a.sold["CUSTOMER"]
           /\ Paid(a).finished["CUSTOMER"]
                 = a.finished["CUSTOMER"] + (IF a.user = "CUSTOMER" THEN 1 ELSE 0)
<1> DEFINE line == [kind |-> "PAY_DONE"]
<1>1. Prints(a, line, Paid(a))
  BY DEF Prints
<1>2. Paid(a) \in Stamps
  BY <1>1, PrintsStamp
<1>3. a.user \in Users /\ a.sold \in [Users -> Ledger] /\ a.finished \in [Users -> Nat]
  BY StampParts
<1>4. /\ Paid(a).pc = "summary" /\ Paid(a).user = a.user /\ Paid(a).count = a.count
      /\ Paid(a).sold = [a.sold EXCEPT ![a.user] = [i \in Items |-> a.sold[a.user][i] + a.count[i]]]
      /\ Paid(a).finished = [a.finished EXCEPT ![a.user] = a.finished[a.user] + 1]
  BY DEF Paid, Stamp
<1> QED
  BY <1>2, <1>3, <1>4 DEF Users

LEMMA EndedParts ==
    ASSUME NEW a \in Stamps, a.pc = "summary"
    PROVE  /\ Ended(a) \in Stamps /\ Ended(a).pc = "closing"
           /\ Ended(a).sold = a.sold /\ Ended(a).finished = a.finished
<1> DEFINE line == [kind |-> "SUMMARY", user |-> a.user, counts |-> a.count]
<1>1. Prints(a, line, Ended(a))
  BY DEF Prints
<1> QED
  BY <1>1, PrintsStamp DEF Ended, Stamp

LEMMA SoldOn ==
    ASSUME NEW a \in Stamps, NEW b \in Stamps, NEW c \in Stamps, SoldBy(a, b), SoldBy(b, c)
    PROVE  SoldBy(a, c)
<1>1. /\ a.sold["CUSTOMER"] \in Ledger /\ a.finished["CUSTOMER"] \in Nat
      /\ b.sold["CUSTOMER"] \in Ledger /\ b.finished["CUSTOMER"] \in Nat
      /\ c.sold["CUSTOMER"] \in Ledger /\ c.finished["CUSTOMER"] \in Nat
  BY StampParts
<1>2. a.finished["CUSTOMER"] = c.finished["CUSTOMER"] => a.sold["CUSTOMER"] = c.sold["CUSTOMER"]
  <2>1. a.finished["CUSTOMER"] = c.finished["CUSTOMER"]
            => /\ a.finished["CUSTOMER"] = b.finished["CUSTOMER"]
               /\ b.finished["CUSTOMER"] = c.finished["CUSTOMER"]
    BY <1>1 DEF SoldBy
  <2> QED
    BY <2>1 DEF SoldBy
<1>3. \A i \in Items : a.sold["CUSTOMER"][i] <= c.sold["CUSTOMER"][i]
  BY <1>1 DEF SoldBy, Ledger
<1> QED
  BY <1>1, <1>2, <1>3 DEF SoldBy

LEMMA SoldSame ==
    ASSUME NEW a \in Stamps, NEW b, b.sold = a.sold, b.finished = a.finished
    PROVE  SoldBy(a, b)
<1>1. a.sold["CUSTOMER"] \in Ledger /\ a.finished["CUSTOMER"] \in Nat
  BY StampParts
<1> QED
  BY <1>1 DEF SoldBy, Ledger

LEMMA SoldPaid ==
    ASSUME NEW a \in Stamps, a.pc = "product"
    PROVE  SoldBy(a, Paid(a))
<1>1. a.sold["CUSTOMER"] \in Ledger /\ a.count \in Ledger /\ a.finished["CUSTOMER"] \in Nat
  BY StampParts
<1>2. CASE a.user = "CUSTOMER"
  <2>1. Paid(a).finished["CUSTOMER"] = a.finished["CUSTOMER"] + 1
    BY <1>2, PaidParts
  <2>2. \A i \in Items : Paid(a).sold["CUSTOMER"][i] = a.sold["CUSTOMER"][i] + a.count[i]
    BY <1>2, PaidParts
  <2> QED
    BY <1>1, <2>1, <2>2 DEF SoldBy, Ledger
<1>3. CASE a.user # "CUSTOMER"
  <2>1. /\ Paid(a).finished["CUSTOMER"] = a.finished["CUSTOMER"]
        /\ Paid(a).sold["CUSTOMER"] = a.sold["CUSTOMER"]
    BY <1>1, <1>3, PaidParts
  <2> QED
    BY <1>1, <2>1 DEF SoldBy, Ledger
<1> QED
  BY <1>2, <1>3

LEMMA SkipsStamp ==
    ASSUME NEW a \in Stamps, NEW b, Skips(a, b)
    PROVE  b \in Stamps /\ SoldBy(a, b)
<1>1. CASE b = a
  BY <1>1, SoldSame
<1>2. CASE b = Counted(a)
  BY <1>2, CountedParts, SoldSame
<1>3. CASE a.pc = "product" /\ b \in {Paid(a), Ended(Paid(a))}
  <2>1. /\ Paid(a) \in Stamps /\ Paid(a).pc = "summary" /\ SoldBy(a, Paid(a))
    BY <1>3, PaidParts, SoldPaid
  <2>2. Ended(Paid(a)) \in Stamps /\ SoldBy(Paid(a), Ended(Paid(a)))
    BY <2>1, EndedParts, SoldSame
  <2>3. SoldBy(a, Ended(Paid(a)))
    BY <2>1, <2>2, SoldOn
  <2> QED
    BY <1>3, <2>1, <2>2, <2>3
<1>4. CASE a.pc = "summary" /\ b = Ended(a)
  BY <1>4, EndedParts, SoldSame
<1> QED
  BY <1>1, <1>2, <1>3, <1>4 DEF Skips

LEMMA SkipsOn ==
    ASSUME NEW a \in Stamps, NEW b, NEW c, Skips(a, b), Skips(b, c)
    PROVE  Skips(a, c)
<1>1. CASE b = a
  BY <1>1
<1>2. CASE "COUNT" \in Lossy /\ a.pc = "product" /\ b = Counted(a)
  <2>1. b.pc = "product" /\ b.count = a.count
    BY <1>2, CountedParts
  <2>2. Counted(b) = b /\ Paid(b) = Paid(a)
    BY <1>2 DEF Counted, Paid, Stamp
  <2> QED
    BY <1>2, <2>1, <2>2 DEF Skips
<1>3. CASE /\ "PAY_DONE" \in Lossy /\ a.pc = "product" /\ a.count # Zero
           /\ a.told \/ "COUNT" \in Lossy
           /\ b = Paid(a)
  <2>1. b.pc = "summary"
    BY <1>3, PaidParts
  <2> QED
    BY <1>3, <2>1 DEF Skips
<1>4. CASE \E x \in Stamps : x.pc = "summary" /\ b = Ended(x)
  <2>1. b.pc = "closing"
    BY <1>4, EndedParts
  <2> QED
    BY <2>1 DEF Skips
<1>5. a.pc = "product" => Paid(a) \in Stamps /\ Paid(a).pc = "summary"
  BY PaidParts
<1> QED
  BY <1>1, <1>2, <1>3, <1>4, <1>5 DEF Skips

LEMMA SellsStamp ==
    ASSUME NEW a \in Stamps, NEW line, NEW b, Sells(a, line, b)
    PROVE  b \in Stamps /\ SoldBy(a, b)
<1>1. b \in Stamps
  BY PrintsStamp DEF Sells
<1>2. CASE a.pc = "product" /\ b = Paid(a)
  BY <1>1, <1>2, SoldPaid
<1>3. CASE \/ b = Ended(a) \/ b = Started(a) \/ b = Counted(a)
           \/ b = Chosen(a, line.user) \/ b = Scanned(a, line.item)
  <2>1. b.sold = a.sold /\ b.finished = a.finished
    BY <1>3 DEF Ended, Started, Counted, Chosen, Scanned, Stamp
  <2> QED
    BY <1>1, <2>1, SoldSame
<1> QED
  BY <1>2, <1>3 DEF Sells, Prints

LEMMA LeadsStamp ==
    ASSUME NEW a \in Stamps, NEW event, NEW b, Leads(a, event, b)
    PROVE  b \in Stamps /\ SoldBy(a, b)
<1>1. PICK x \in Stamps : /\ Skips(a, x)
                          /\ Sells(x, event, b) \/ b = x
  BY DEF Leads
<1>2. SoldBy(a, x)
  BY <1>1, SkipsStamp
<1>3. b \in Stamps /\ SoldBy(x, b)
  BY <1>1, SellsStamp, SoldSame
<1> QED
  BY <1>2, <1>3, SoldOn

LEMMA TrailGrows ==
    ASSUME NEW g, NEW q, NEW last, Trail(g, q, last), NEW event, NEW b, Leads(last, event, b)
    PROVE  Trail(Append(g, b), Append(q, event), b) /\ Append(g, b)[1] = g[1]
<1>1. PICK L : q \in Seq(L)
  BY DEF Trail
<1>2. g \in Seq(Stamps) /\ Len(q) \in Nat /\ Len(g) = Len(q) + 1 /\ last \in Stamps
  BY <1>1 DEF Trail
<1>3. b \in Stamps /\ SoldBy(last, b)
  BY <1>2, LeadsStamp
<1> DEFINE h == Append(g, b)
           r == Append(q, event)
<1>4. /\ h \in Seq(Stamps) /\ Len(h) = Len(g) + 1 /\ h[Len(g) + 1] = b
      /\ \A n \in 1..Len(g) : h[n] = g[n]
  BY <1>2, <1>3
<1>5. r \in Seq(L \union {event}) /\ Len(r) = Len(q) + 1 /\ r[Len(q) + 1] = event
      /\ \A n \in 1..Len(q) : r[n] = q[n]
  BY <1>1, AppendOne
<1> HIDE DEF h, r
<1>6. \A n \in 1..Len(r) : Leads(h[n], r[n], h[n + 1])
  <2> TAKE n \in 1..Len(r)
  <2>1. CASE n \in 1..Len(q)
    <3>1. h[n] = g[n] /\ h[n + 1] = g[n + 1] /\ r[n] = q[n]
      BY <1>2, <1>4, <1>5, <2>1
    <3> QED
      BY <2>1, <3>1 DEF Trail
  <2>2. CASE n = Len(q) + 1
    <3>1. h[n] = last /\ h[n + 1] = b /\ r[n] = event
      BY <1>2, <1>4, <1>5, <2>2 DEF Trail
    <3> QED
      BY <3>1
  <2> QED
    BY <1>2, <1>5, <2>1, <2>2
<1>7. \A n \in 1..Len(h) : SoldBy(h[n], b)
  <2> TAKE n \in 1..Len(h)
  <2>1. CASE n \in 1..Len(g)
    <3>1. h[n] = g[n] /\ g[n] \in Stamps /\ SoldBy(g[n], last)
      BY <1>2, <1>4, <2>1 DEF Trail
    <3> QED
      BY <1>2, <1>3, <3>1, SoldOn
  <2>2. CASE n = Len(g) + 1
    BY <1>3, <1>4, <2>2, SoldSame
  <2> QED
    BY <1>2, <1>4, <2>1, <2>2
<1>8. Trail(h, r, b)
  BY <1>2, <1>4, <1>5, <1>6, <1>7 DEF Trail
<1>9. h[1] = g[1]
  BY <1>2, <1>4
<1> QED
  BY <1>8, <1>9 DEF h, r

LEMMA TrailShrinks ==
    ASSUME NEW g, NEW q, NEW last, Trail(g, q, last), q # <<>>
    PROVE  /\ Trail(Tail(g), Tail(q), last) /\ Tail(g)[1] = g[2]
           /\ Leads(g[1], Head(q), g[2]) /\ g[1] \in Stamps /\ g[2] \in Stamps
<1>1. PICK L : q \in Seq(L)
  BY DEF Trail
<1>2. /\ g \in Seq(Stamps) /\ Len(q) \in Nat \ {0} /\ Len(g) = Len(q) + 1
      /\ Head(q) = q[1]
  BY <1>1 DEF Trail
<1> DEFINE h == Tail(g)
           r == Tail(q)
<1>3. /\ h \in Seq(Stamps) /\ Len(h) = Len(g) - 1
      /\ \A n \in 1..Len(h) : h[n] = g[n + 1]
  BY <1>2
<1>4. /\ r \in Seq(L) /\ Len(r) = Len(q) - 1
      /\ \A n \in 1..Len(r) : r[n] = q[n + 1]
  BY <1>1, <1>2
<1> HIDE DEF h, r
<1>5. \A n \in 1..Len(r) : Leads(h[n], r[n], h[n + 1])
  <2> TAKE n \in 1..Len(r)
  <2>1. n + 1 \in 1..Len(q) /\ h[n] = g[n + 1] /\ h[n + 1] = g[n + 2] /\ r[n] = q[n + 1]
        /\ n + 2 = (n + 1) + 1
    BY <1>2, <1>3, <1>4
  <2> QED
    BY <2>1 DEF Trail
<1>6. \A n \in 1..Len(h) : SoldBy(h[n], last)
  <2> TAKE n \in 1..Len(h)
  <2>1. n + 1 \in 1..Len(g) /\ h[n] = g[n + 1]
    BY <1>2, <1>3
  <2> QED
    BY <2>1 DEF Trail
<1>7. h[Len(h)] = last /\ Len(h) = Len(r) + 1
  BY <1>2, <1>3, <1>4 DEF Trail
<1>8. Trail(h, r, last)
  BY <1>3, <1>4, <1>5, <1>6, <1>7 DEF Trail
<1>9. h[1] = g[2] /\ g[1] \in Stamps /\ g[2] \in Stamps /\ Leads(g[1], Head(q), g[2])
  <2>1. 1 \in 1..Len(q) /\ 1 + 1 = 2 /\ 1 \in 1..Len(h)
    BY <1>2, <1>3
  <2> QED
    BY <1>2, <1>3, <2>1 DEF Trail
<1> QED
  BY <1>8, <1>9 DEF h, r
-----------------------------------------------------------------------------
(* The session as fusion_pc has it at stamp a: m is the mode, done is      *)
(* committed, and the counts are of its scans and of the last report.      *)
Tally(a, m, done, session, reported) ==
    /\ done \in BOOLEAN /\ session \in Ledger /\ reported \in Ledger
    /\ a.pc \in {"product", "summary"} =>
          m = a.user /\ session = a.count /\ \A i \in Items : reported[i] <= a.count[i]
    /\ a.pc = "select" => session = Zero /\ reported = Zero
    /\ a.pc \in {"select", "product"} => ~done
    /\ a.pc = "summary" => a.count # Zero

(* The sales whose completion has been handled. *)
Due(a, done, i) ==
    IF a.pc = "summary" /\ a.user = "CUSTOMER" /\ ~done
    THEN a.sold["CUSTOMER"][i] - a.count[i] ELSE a.sold["CUSTOMER"][i]

LEMMA TallySkips ==
    ASSUME NEW a \in Stamps, NEW b, Skips(a, b), NEW m, NEW done, NEW session, NEW reported,
           Tally(a, m, done, session, reported)
    PROVE  /\ Tally(b, m, done, session, reported)
           /\ \A i \in Items : Due(a, done, i) <= Due(b, done, i)
<1>1. /\ a.count \in Ledger /\ a.sold["CUSTOMER"] \in Ledger
      /\ done \in BOOLEAN /\ session \in Ledger /\ reported \in Ledger
  BY StampParts DEF Tally
<1>2. CASE b = a
  BY <1>1, <1>2 DEF Due, Ledger
<1>6. CASE b = Counted(a)
  BY <1>1, <1>6, CountedParts DEF Tally, Due, Ledger
<1>3. CASE a.pc = "product" /\ a.count # Zero /\ b = Paid(a)
  <2>1. Tally(b, m, done, session, reported)
    BY <1>3, PaidParts DEF Tally
  <2>2. ~done
    BY <1>3 DEF Tally
  <2> QED
    BY <1>1, <1>3, <2>1, <2>2, PaidParts DEF Due, Ledger
<1>4. CASE a.pc = "product" /\ b = Ended(Paid(a))
  <2>1. Paid(a) \in Stamps /\ b.pc = "closing" /\ b.sold = Paid(a).sold
    BY <1>4, PaidParts, EndedParts
  <2>2. Tally(b, m, done, session, reported)
    BY <1>1, <2>1 DEF Tally
  <2> QED
    BY <1>1, <1>4, <2>1, <2>2, PaidParts DEF Due, Ledger
<1>5. CASE a.pc = "summary" /\ b = Ended(a)
  <2>1. b.pc = "closing" /\ b.sold = a.sold
    BY <1>5, EndedParts
  <2>2. Tally(b, m, done, session, reported)
    BY <1>1, <2>1 DEF Tally
  <2> QED
    BY <1>1, <1>5, <2>1, <2>2 DEF Due, Ledger
<1> QED
  BY <1>2, <1>3, <1>4, <1>5, <1>6 DEF Skips

(* From stamp a to stamp b a line is handled: either the session has just  *)
(* been completed, and what is credited is due, or nothing is.             *)
Settles(a, b) ==
    /\ Tally(b, mode', committed', posSessionItems', posReportedItems')
    /\ ~PaymentEdge => \A i \in Items : Due(a, committed, i) <= Due(b, committed', i)
    /\ PaymentEdge =>
          /\ CustomerPayment \in Ledger
          /\ \A i \in Items : Due(a, committed, i) + CustomerPayment[i] <= Due(b, committed', i)

LEMMA SessionCleared ==
    ASSUME NEW a \in Stamps, ResetPos, NEW b, b \in Stamps, b.sold = a.sold,
           b.pc \in {"closing", "select"}
    PROVE  Settles(a, b)
<1>1. /\ a.count \in Ledger /\ a.sold["CUSTOMER"] \in Ledger /\ Zero \in Ledger
  BY StampParts, LedgerFacts
<1>2. committed' = FALSE /\ posSessionItems' = Zero /\ posReportedItems' = Zero
  BY DEF ResetPos
<1>3. Tally(b, mode', committed', posSessionItems', posReportedItems')
  BY <1>1, <1>2 DEF Tally
<1>4. \A i \in Items : Due(a, committed, i) <= Due(b, committed', i)
  BY <1>1 DEF Due, Ledger
<1> QED
  BY <1>2, <1>3, <1>4 DEF Settles, PaymentEdge

LEMMA LineSettles ==
    ASSUME NEW a \in Stamps, Tally(a, mode, committed, posSessionItems, posReportedItems),
           NEW line, NEW b, Sells(a, line, b), Handle(line)
    PROVE  Settles(a, b)
<1>1. /\ a.count \in Ledger /\ a.sold["CUSTOMER"] \in Ledger /\ Zero \in Ledger
      /\ a.user \in Users <=> a.pc \in {"product", "summary"}
      /\ a.pc \notin {"product", "summary"} => a.count = Zero
  BY StampParts, LedgerFacts
<1>2. b \in Stamps
  BY SellsStamp
<1>3. CASE line.kind \in {"BOOT", "START", "SESSION_RESET"}
  <2>1. ResetPos
    BY <1>3 DEF Handle, PosBoot, PosSessionStart, PosReset, RollbackAndReset
  <2>2. b.sold = a.sold /\ b.pc \in {"closing", "select"}
    BY <1>3 DEF Sells, Prints, Ended, Started, Stamp
  <2> QED
    BY <1>2, <2>1, <2>2, SessionCleared
<1>4. CASE line.kind = "USER"
  <2>1. mode' = line.user /\ UNCHANGED <<committed, posSessionItems, posReportedItems>>
    BY <1>4 DEF Handle, SelectMode, posVars
  <2>2. a.pc = "select" /\ b = Chosen(a, line.user)
    BY <1>4 DEF Sells, Prints
  <2>3. b.pc = "product" /\ b.user = line.user /\ b.count = a.count /\ b.sold = a.sold
    BY <2>2 DEF Chosen, Stamp
  <2>4. Tally(b, mode', committed', posSessionItems', posReportedItems')
    BY <1>1, <2>1, <2>2, <2>3 DEF Tally, Zero
  <2>5. \A i \in Items : Due(a, committed, i) <= Due(b, committed', i)
    BY <1>1, <2>2, <2>3 DEF Due, Ledger
  <2> QED
    BY <2>1, <2>4, <2>5 DEF Settles, PaymentEdge
<1>5. CASE line.kind = "PAY"
  <2> DEFINE i == line.item
  <2>1. a.pc = "product" /\ i \in Items /\ b = Scanned(a, i) /\ a.count[i] + 1 < 256
    BY <1>5 DEF Sells, Prints
  <2>2. /\ posSessionItems' = Add(posSessionItems, i, 1)
        /\ UNCHANGED <<mode, committed, posReportedItems>>
    BY <1>5 DEF Handle, Pay
  <2>3. /\ b.pc = "product" /\ b.user = a.user /\ b.sold = a.sold
        /\ b.count = [a.count EXCEPT ![i] = (a.count[i] + 1) % 256]
    BY <2>1 DEF Scanned, Stamp
  <2>4. a.count[i] \in Nat
    BY <1>1, <2>1 DEF Ledger
  <2> HIDE DEF i
  <2>5. (a.count[i] + 1) % 256 = a.count[i] + 1
    BY <2>1, <2>4
  <2>6. b.count = Add(a.count, i, 1) /\ b.count \in Ledger
    BY <1>1, <2>1, <2>3, <2>5, LedgerFacts DEF Add
  <2>7. \A j \in Items : a.count[j] <= b.count[j]
    BY <1>1, <2>1, <2>6 DEF Ledger, Add
  <2>8. posSessionItems' = b.count
    BY <2>1, <2>2, <2>6 DEF Tally
  <2>9. \A j \in Items : posReportedItems[j] <= b.count[j]
    <3> TAKE j \in Items
    <3>1. posReportedItems[j] \in Nat /\ a.count[j] \in Nat /\ b.count[j] \in Nat
      BY <1>1, <2>6 DEF Tally, Ledger
    <3>2. posReportedItems[j] <= a.count[j]
      BY <2>1 DEF Tally
    <3> QED
      BY <2>7, <3>1, <3>2
  <2>10. Tally(b, mode', committed', posSessionItems', posReportedItems')
    BY <2>1, <2>2, <2>3, <2>6, <2>8, <2>9 DEF Tally
  <2>11. \A j \in Items : Due(a, committed, j) <= Due(b, committed', j)
    BY <1>1, <2>1, <2>3 DEF Due, Ledger
  <2> QED
    BY <2>2, <2>10, <2>11 DEF Settles, PaymentEdge
<1>6. CASE line.kind = "COUNT"
  <2>1. /\ a.pc = "product" /\ line.counts = a.count
        /\ b.pc = a.pc /\ b.user = a.user /\ b.count = a.count /\ b.sold = a.sold
    BY <1>6, CountedParts DEF Sells, Prints
  <2>2. posReportedItems' = a.count /\ UNCHANGED <<mode, committed, posSessionItems>>
    BY <1>6, <2>1 DEF Handle, PosCount
  <2>3. Tally(b, mode', committed', posSessionItems', posReportedItems')
    BY <1>1, <2>1, <2>2 DEF Tally, Ledger
  <2>4. \A j \in Items : Due(a, committed, j) <= Due(b, committed', j)
    BY <1>1, <2>1 DEF Due, Ledger
  <2> QED
    BY <2>2, <2>3, <2>4 DEF Settles, PaymentEdge
<1>7. CASE line.kind = "PAY_DONE"
  <2>1. a.pc = "product" /\ b = Paid(a) /\ a.count # Zero
    BY <1>7 DEF Sells, Prints
  <2>2. committed' = TRUE /\ UNCHANGED <<mode, posSessionItems, posReportedItems, paidItems>>
    BY <1>7 DEF Handle, PayDone, Commit
  <2>3. /\ mode = a.user /\ posSessionItems = a.count /\ ~committed
        /\ posReportedItems \in Ledger /\ \A i \in Items : posReportedItems[i] <= a.count[i]
    BY <2>1 DEF Tally
  <2>4. Tally(b, mode', committed', posSessionItems', posReportedItems')
    BY <1>1, <2>1, <2>2, <2>3, PaidParts DEF Tally
  <2>5. CASE mode = "CUSTOMER"
    <3>1. CustomerPayment = posReportedItems \/ CustomerPayment = a.count
      BY <2>1, <2>2, <2>3 DEF CustomerPayment
    <3>2. CustomerPayment \in Ledger /\ \A i \in Items : CustomerPayment[i] <= a.count[i]
      BY <1>1, <2>3, <3>1 DEF Ledger
    <3>3. \A i \in Items : /\ Due(b, committed', i) = a.sold["CUSTOMER"][i] + a.count[i]
                           /\ Due(a, committed, i) = a.sold["CUSTOMER"][i]
      BY <2>1, <2>2, <2>3, <2>5, PaidParts DEF Due
    <3> HIDE DEF CustomerPayment
    <3>4. \A i \in Items : Due(a, committed, i) + CustomerPayment[i] <= Due(b, committed', i)
      <4> TAKE i \in Items
      <4>1. /\ CustomerPayment[i] \in Nat /\ a.count[i] \in Nat /\ a.sold["CUSTOMER"][i] \in Nat
            /\ CustomerPayment[i] <= a.count[i]
        BY <1>1, <3>2 DEF Ledger
      <4> QED
        BY <3>3, <4>1
    <3>5. PaymentEdge
      BY <2>2, <2>3, <2>5 DEF PaymentEdge
    <3> QED
      BY <2>4, <3>2, <3>4, <3>5 DEF Settles
  <2>6. CASE mode # "CUSTOMER"
    <3>1. ~PaymentEdge
      BY <2>2, <2>6 DEF PaymentEdge
    <3>2. \A i \in Items : Due(a, committed, i) <= Due(b, committed', i)
      BY <1>1, <2>1, <2>2, <2>3, <2>6, PaidParts DEF Due, Ledger
    <3> QED
      BY <2>4, <3>1, <3>2 DEF Settles
  <2> QED
    BY <2>5, <2>6
<1>8. CASE line.kind = "SUMMARY"
  <2>1. a.pc = "summary" /\ b = Ended(a) /\ line.user = a.user /\ line.counts = a.count
    BY <1>8 DEF Sells, Prints
  <2>2. /\ mode' = a.user /\ committed' = TRUE
        /\ posSessionItems' = a.count /\ posReportedItems' = a.count
    BY <1>8, <2>1 DEF Handle, PosDoneSummary, Reconcile, Commit
  <2>3. a.count # Zero
    BY <2>1 DEF Tally
  <2>4. b.pc = "closing" /\ b.sold = a.sold
    BY <2>1 DEF Ended, Stamp
  <2>5. Tally(b, mode', committed', posSessionItems', posReportedItems')
    BY <1>1, <2>2, <2>4 DEF Tally
  <2>6. CustomerPayment = a.count
    BY <2>2, <2>3 DEF CustomerPayment
  <2>7. PaymentEdge <=> ~committed /\ a.user = "CUSTOMER"
    BY <2>2 DEF PaymentEdge
  <2>8. \A i \in Items : Due(a, committed, i) <= Due(b, committed', i)
    BY <1>1, <2>4 DEF Due, Ledger
  <2>9. PaymentEdge => \A i \in Items : Due(a, committed, i) + a.count[i] <= Due(b, committed', i)
    BY <1>1, <2>1, <2>4, <2>7 DEF Due, Ledger
  <2> QED
    BY <1>1, <2>5, <2>6, <2>8, <2>9 DEF Settles
<1> QED
  BY <1>3, <1>4, <1>5, <1>6, <1>7, <1>8 DEF Handle
-----------------------------------------------------------------------------
(* The two queues.                                                         *)

(* Picks that are queued leave the trail where it is. *)
LEMMA TrailKeeps ==
    ASSUME NEW g, NEW q, NEW last, Trail(g, q, last), NEW P, NEW p \in Seq(P),
           \A e \in P : e.kind = "REMOVE_CANDIDATE"
    PROVE  \E h : Trail(h, q \o p, last) /\ h[1] = g[1]
<1>1. PICK L : q \in Seq(L)
  BY DEF Trail
<1>2. /\ g \in Seq(Stamps) /\ Len(q) \in Nat /\ Len(p) \in Nat /\ Len(g) = Len(q) + 1
      /\ last \in Stamps /\ g[Len(g)] = last
  BY <1>1 DEF Trail
<1> DEFINE r == q \o p
           l == Len(q) + Len(p) + 1
           h == [n \in 1..l |-> IF n <= Len(g) THEN g[n] ELSE last]
<1>3. /\ r \in Seq(L \union P) /\ Len(r) = Len(q) + Len(p)
      /\ \A n \in 1..Len(q) : r[n] = q[n]
      /\ \A n \in 1..Len(r) : n > Len(q) => r[n] \in P
  <2>1. q \in Seq(L \union P) /\ p \in Seq(L \union P)
    BY <1>1, SeqMonotonic
  <2>2. /\ r \in Seq(L \union P) /\ Len(r) = Len(q) + Len(p)
        /\ \A n \in 1..Len(r) : r[n] = IF n <= Len(q) THEN q[n] ELSE p[n - Len(q)]
    BY <2>1, ConcatProperties
  <2> HIDE DEF r
  <2>3. ASSUME NEW n \in 1..Len(q) PROVE r[n] = q[n]
    <3>1. n \in 1..Len(r) /\ n <= Len(q)
      BY <1>2, <2>2
    <3> QED
      BY <2>2, <3>1
  <2>4. ASSUME NEW n \in 1..Len(r), n > Len(q) PROVE r[n] \in P
    <3>1. n - Len(q) \in 1..Len(p) /\ ~(n <= Len(q))
      BY <1>2, <2>2, <2>4
    <3>2. r[n] = p[n - Len(q)]
      BY <2>2, <3>1
    <3> QED
      BY <3>1, <3>2
  <2> QED
    BY <2>2, <2>3, <2>4
<1>4. \A n \in 1..Len(g) : g[n] \in Stamps
  BY <1>2
<1>5. h \in Seq(Stamps) /\ Len(h) = l /\ h[l] = last /\ h[1] = g[1]
  <2>1. l \in Nat
    BY <1>2
  <2>2. h \in [1..l -> Stamps]
    BY <1>2, <1>4
  <2> QED
    BY <1>2, <2>1, <2>2
<1>6. ASSUME NEW n \in 1..Len(r) PROVE Leads(h[n], r[n], h[n + 1])
  <2>1. CASE n <= Len(q)
    <3>1. n \in 1..Len(q) /\ h[n] = g[n] /\ h[n + 1] = g[n + 1] /\ r[n] = q[n]
      BY <1>2, <1>3, <2>1
    <3> QED
      BY <3>1 DEF Trail
  <2>2. CASE n > Len(q)
    <3>1. h[n] = last /\ h[n + 1] = last
      BY <1>2, <1>3, <2>2
    <3>2. r[n].kind = "REMOVE_CANDIDATE"
      BY <1>3, <2>2
    <3> HIDE DEF h, r
    <3> QED
      BY <1>2, <3>1, <3>2 DEF Leads, Skips
  <2> QED
    BY <1>2, <1>3, <2>1, <2>2
<1>7. ASSUME NEW n \in 1..Len(h) PROVE SoldBy(h[n], last)
  <2>1. CASE n <= Len(g)
    BY <1>2, <1>5, <2>1 DEF Trail
  <2>2. CASE n > Len(g)
    <3>1. h[n] = last
      BY <1>5, <2>2
    <3> QED
      BY <1>2, <3>1, SoldSame
  <2> QED
    BY <1>2, <1>5, <2>1, <2>2
<1> HIDE DEF h, r
<1>8. Trail(h, r, last)
  BY <1>2, <1>3, <1>5, <1>6, <1>7 DEF Trail
<1> QED
  BY <1>5, <1>8 DEF r

(* The subscriber queues picks only. *)
LEMMA PicksOnly ==
    ASSUME NEW previous, NEW current
    PROVE  \E P : /\ Vision!PickDeltas(previous, current) \in Seq(P)
                  /\ \A e \in P : e.kind = "REMOVE_CANDIDATE"
<1> DEFINE Def(f) == [n \in 0..NItems |->
               IF n = 0 THEN <<>>
               ELSE IF current[n] > previous[n]
                    THEN Append(f[n - 1], Vision!Pick(n, current[n] - previous[n]))
                    ELSE f[n - 1]]
           f == CHOOSE f : f = Def(f)
           C == {n \in Items : current[n] > previous[n]}
           e == [n \in Items |-> Vision!Pick(n, current[n] - previous[n])]
           P == {e[n] : n \in Items}
<1>1. \A n \in 0..NItems : n # 0 => /\ n \in Items
                                    /\ n \in C <=> current[n] > previous[n]
                                    /\ e[n] = Vision!Pick(n, current[n] - previous[n])
  BY ItemsAssumption DEF Items
<1>2. \A n \in 1..NItems : n \in C => e[n] \in P
  BY DEF Items
<1>3. \A x \in P : x.kind = "REMOVE_CANDIDATE"
  BY DEF Vision!Pick
<1>4. Vision!PickDeltas(previous, current) = f[NItems]
  BY DEF Vision!PickDeltas
<1> HIDE DEF C, e, P
<1>5. PICK g \in [0..NItems -> Seq(P)] : g = Walked(g, NItems, C, e)
  <2>1. Walks(NItems, C, e, P) # {}
    BY <1>2, ItemsAssumption, WalkExists
  <2> QED
    BY <2>1 DEF Walks
<1>6. \A l : Walked(l, NItems, C, e) = Def(l)
  BY <1>1 DEF Walked
<1>7. f = Def(f)
  <2>1. Walked(g, NItems, C, e) = Def(g)
    BY <1>6
  <2>2. g = Def(g)
    BY ONLY <1>5, <2>1
  <2> QED
    BY <2>2
<1> HIDE DEF f
<1> DEFINE T == {n \in 0..NItems : f[n] \notin Seq(P)}
<1>8. T = {}
  <2>1. SUFFICES ASSUME NEW n \in T PROVE FALSE
    OBVIOUS
  <2>2. T \in SUBSET Nat
    BY ItemsAssumption
  <2>3. PICK m \in T : \A k \in T : m <= k
    <3> HIDE DEF T
    <3> QED
      BY <2>1, <2>2, LeastNumber
  <2>4. m \in 0..NItems /\ f[m] \notin Seq(P)
    OBVIOUS
  <2>5. m # 0
    <3>1. f[0] = <<>>
      BY <1>7, ItemsAssumption
    <3>2. <<>> \in Seq(P)
      OBVIOUS
    <3> HIDE DEF T
    <3> QED
      BY ONLY <2>4, <3>1, <3>2
  <2>6. m - 1 \in 0..NItems /\ m - 1 \notin T /\ m \in 1..NItems
    <3>1. m - 1 \in 0..NItems /\ m \in 1..NItems /\ ~(m <= m - 1)
      BY <2>4, <2>5, ItemsAssumption
    <3> HIDE DEF T
    <3> QED
      BY <2>3, <3>1
  <2>7. f[m - 1] \in Seq(P)
    BY <2>6
  <2>8. f[m] = IF m \in C THEN Append(f[m - 1], e[m]) ELSE f[m - 1]
    <3>1. f = Walked(f, NItems, C, e)
      BY <1>6, <1>7
    <3> QED
      BY <2>4, <2>5, <3>1 DEF Walked
  <2> QED
    BY <1>2, <2>4, <2>6, <2>7, <2>8, AppendProperties
<1>9. NItems \in 0..NItems
  BY ItemsAssumption
<1>10. f[NItems] \in Seq(P)
  BY <1>8, <1>9
<1> QED
  BY <1>3, <1>4, <1>10

(* A trail g through the event queue q up to stamp x, and from there, some *)
(* lines lost, a trail h through the serial line u up to stamp now.        *)
Trails(g, q, x, h, u, now) == Trail(g, q, x) /\ Skips(x, h[1]) /\ Trail(h, u, now)

LEMMA TrailHead ==
    ASSUME NEW g, NEW q, NEW last, Trail(g, q, last)
    PROVE  /\ g[1] \in Stamps /\ last \in Stamps /\ SoldBy(g[1], last)
           /\ \E L : q \in Seq(L)
<1>1. PICK L : q \in Seq(L)
  BY DEF Trail
<1>2. g \in Seq(Stamps) /\ Len(q) \in Nat /\ Len(g) = Len(q) + 1 /\ g[Len(g)] = last
  BY <1>1 DEF Trail
<1>3. 1 \in 1..Len(g) /\ Len(g) \in 1..Len(g)
  BY <1>2
<1> QED
  BY <1>1, <1>2, <1>3 DEF Trail

(* The reader moves the oldest line to the event queue. *)
LEMMA LineRead ==
    ASSUME NEW g, NEW q, NEW x, NEW h, NEW u, NEW now, Trails(g, q, x, h, u, now), u # <<>>
    PROVE  /\ Trails(Append(g, h[2]), Append(q, Head(u)), h[2], Tail(h), Tail(u), now)
           /\ Append(g, h[2])[1] = g[1]
<1>1. Trail(g, q, x) /\ Skips(x, h[1]) /\ Trail(h, u, now)
  BY DEF Trails
<1>2. /\ Trail(Tail(h), Tail(u), now) /\ Tail(h)[1] = h[2]
      /\ Leads(h[1], Head(u), h[2]) /\ h[1] \in Stamps /\ h[2] \in Stamps
  BY <1>1, TrailShrinks
<1>3. x \in Stamps
  BY <1>1, TrailHead
<1>4. PICK y \in Stamps :
          /\ Skips(h[1], y)
          /\ Sells(y, Head(u), h[2]) \/ (Head(u).kind = "REMOVE_CANDIDATE" /\ h[2] = y)
  BY <1>2 DEF Leads
<1>5. Skips(x, y)
  BY <1>1, <1>3, <1>4, SkipsOn
<1>6. Leads(x, Head(u), h[2])
  BY <1>4, <1>5 DEF Leads
<1>7. Trail(Append(g, h[2]), Append(q, Head(u)), h[2]) /\ Append(g, h[2])[1] = g[1]
  BY <1>1, <1>6, TrailGrows
<1>8. Skips(h[2], Tail(h)[1])
  BY <1>2 DEF Skips
<1> QED
  BY <1>2, <1>7, <1>8 DEF Trails

(* The line loses a line that another one repeats. *)
LEMMA LineLost ==
    ASSUME NEW g, NEW q, NEW x, NEW h, NEW u, NEW now, Trails(g, q, x, h, u, now), u # <<>>,
           Head(u).kind \in Lossy, Lossy \subseteq {"COUNT", "PAY_DONE", "SUMMARY"}
    PROVE  Trails(g, q, x, Tail(h), Tail(u), now)
<1>1. Trail(g, q, x) /\ Skips(x, h[1]) /\ Trail(h, u, now)
  BY DEF Trails
<1>2. /\ Trail(Tail(h), Tail(u), now) /\ Tail(h)[1] = h[2]
      /\ Leads(h[1], Head(u), h[2]) /\ h[1] \in Stamps /\ h[2] \in Stamps
  BY <1>1, TrailShrinks
<1>3. x \in Stamps
  BY <1>1, TrailHead
<1>4. PICK y \in Stamps : Skips(h[1], y) /\ Sells(y, Head(u), h[2])
  BY <1>2 DEF Leads
<1>5. Skips(y, h[2])
  BY <1>4 DEF Sells, Prints, Skips
<1>6. Skips(x, h[2])
  BY <1>1, <1>2, <1>3, <1>4, <1>5, SkipsOn
<1> QED
  BY <1>1, <1>2, <1>6 DEF Trails

LEMMA SellsLeads ==
    ASSUME NEW a \in Stamps, NEW line, NEW b, Sells(a, line, b)
    PROVE  Leads(a, line, b)
  BY DEF Leads, Skips

(* The checkout prints a line, or two. *)
LEMMA SellOne ==
    ASSUME NEW h, Trail(h, uart, Now), NEW line, Sells(Now, line, Now'),
           uart' = uart \o <<line>>
    PROVE  \E k : Trail(k, uart', Now') /\ k[1] = h[1]
<1>1. uart' = Append(uart, line) /\ Now \in Stamps
  BY TrailHead
<1>2. Leads(Now, line, Now')
  BY <1>1, SellsLeads
<1>3. Trail(Append(h, Now'), Append(uart, line), Now') /\ Append(h, Now')[1] = h[1]
  BY <1>2, TrailGrows
<1> QED
  BY ONLY <1>1, <1>3

LEMMA SellTwo ==
    ASSUME NEW h, Trail(h, uart, Now), NEW line, NEW b, NEW next,
           Sells(Now, line, b), Sells(b, next, Now'), uart' = uart \o <<line, next>>
    PROVE  \E k : Trail(k, uart', Now') /\ k[1] = h[1]
<1>1. Now \in Stamps /\ \E L : uart \in Seq(L)
  BY TrailHead
<1>2. uart' = Append(Append(uart, line), next)
  BY <1>1
<1>3. b \in Stamps
  BY <1>1, SellsStamp
<1>4. Leads(Now, line, b) /\ Leads(b, next, Now')
  BY <1>1, <1>3, SellsLeads
<1>5. Trail(Append(h, b), Append(uart, line), b) /\ Append(h, b)[1] = h[1]
  BY <1>4, TrailGrows
<1>6. /\ Trail(Append(Append(h, b), Now'), Append(Append(uart, line), next), Now')
      /\ Append(Append(h, b), Now')[1] = Append(h, b)[1]
  BY <1>4, <1>5, TrailGrows
<1> QED
  BY ONLY <1>2, <1>5, <1>6

LEMMA SellEnds ==
    ASSUME NEW h, Trail(h, uart, Now), NEW line, Sells(Now, line, Ended(Now)),
           POS!ResetSession(<<line>>), UNCHANGED <<finished, sold, scanned>>
    PROVE  \E k : Trail(k, uart', Now') /\ k[1] = h[1]
<1> DEFINE next == POS!Plain("START")
<1>1. uart' = uart \o <<line, next>>
  BY DEF POS!ResetSession, POS!Emit
<1>2. Now' = Started(Ended(Now))
  BY DEF POS!ResetSession, Now, Started, Ended, Stamp, POS!Zero, Zero, POS!Items, Items
<1>3. Sells(Ended(Now), next, Now')
  BY <1>2 DEF Sells, Prints, Ended, Stamp, POS!Plain, POS!Line
<1> QED
  BY <1>1, <1>3, SellTwo

LEMMA CheckoutSells ==
    ASSUME EveryPaymentTold, NEW h, Trail(h, uart, Now), Checkout
    PROVE  \E k : Trail(k, uart', Now') /\ k[1] = h[1]
<1> USE DEF POS!Emit, POS!Line, POS!Plain
<1>1. Now \in Stamps
  BY TrailHead
<1>2. /\ Now.pc = pc /\ Now.user = user /\ Now.count = count
      /\ Now.scanned = scanned /\ Now.sold = sold /\ Now.finished = finished
  BY DEF Now, Stamp
<1>3. CASE POS!SelectUser("CUSTOMER")
  <2> DEFINE line == POS!Line("USER", "CUSTOMER", 0, POS!Zero)
  <2>1. Now' = Chosen(Now, "CUSTOMER")
    BY <1>2, <1>3 DEF POS!SelectUser, Now, Chosen, Stamp
  <2>2. Sells(Now, line, Now')
    BY <1>2, <1>3, <2>1 DEF Sells, Prints, POS!SelectUser, Users
  <2> QED
    BY <1>3, <2>2, SellOne DEF POS!SelectUser
<1>4. ASSUME NEW i \in Items, POS!AddScan(i) PROVE \E k : Trail(k, uart', Now') /\ k[1] = h[1]
  <2> DEFINE line == POS!Line("PAY", "NONE", i, POS!Zero)
             next == POS!Line("COUNT", "NONE", 0, count')
  <2>1. pc = "product" /\ user \in Users /\ scanned \in [Users -> Ledger] /\ count \in Ledger
    BY <1>1, <1>2, <1>4 DEF Stamps, Records, POS!AddScan
  <2>2. scanned' = [scanned EXCEPT ![user] = Add(scanned[user], i, 1)]
    BY <1>4, <2>1 DEF POS!AddScan, Add
  <2>3. count' = [count EXCEPT ![i] = (count[i] + 1) % 256]
    BY <1>4 DEF POS!AddScan, POS!CountLimit
  <2>4. Now' = Counted(Scanned(Now, i))
    BY <1>2, <1>4, <2>2, <2>3 DEF POS!AddScan, Now, Counted, Scanned, Stamp
  <2>5. count[i] + 1 < 256
    <3>1. count[i] \in Nat /\ count[i] < MaxScans
      BY <1>4, <2>1 DEF POS!AddScan, Ledger
    <3> QED
      BY <3>1 DEF EveryPaymentTold
  <2>6. Sells(Now, line, Scanned(Now, i))
    BY <1>2, <2>1, <2>5 DEF Sells, Prints
  <2>7. Scanned(Now, i).pc = "product" /\ Scanned(Now, i).count = count'
    BY <1>2, <2>1, <2>3 DEF Scanned
  <2>8. Sells(Scanned(Now, i), next, Now')
    BY <2>4, <2>7 DEF Sells, Prints
  <2> QED
    BY <1>4, <2>6, <2>8, SellTwo DEF POS!AddScan
<1>5. CASE POS!Cancel
  <2>1. Sells(Now, POS!Plain("SESSION_RESET"), Ended(Now))
    BY <1>2, <1>5 DEF POS!Cancel, Sells, Prints
  <2> QED
    BY <1>5, <2>1, SellEnds DEF POS!Cancel
<1>6. CASE POS!Finish /\ count # Zero
  <2> DEFINE line == POS!Plain("PAY_DONE")
  <2>1. user \in Users /\ sold \in [Users -> Ledger] /\ finished \in [Users -> Nat]
    BY <1>1, <1>2, <1>6 DEF Stamps, Records, POS!Finish
  <2>2. sold' = [sold EXCEPT ![user] = [i \in Items |-> sold[user][i] + count[i]]]
    BY <1>6, <2>1 DEF POS!Finish, POS!Items, Items
  <2>3. Now' = Paid(Now)
    BY <1>2, <1>6, <2>2 DEF POS!Finish, Now, Paid, Stamp
  <2>4. Sells(Now, line, Now')
    <3>1. Now.told
      BY DEF Now, Stamp
    <3> QED
      BY <1>2, <1>6, <2>3, <3>1 DEF Sells, Prints, POS!Finish
  <2> QED
    BY <1>6, <2>4, SellOne DEF POS!Finish
<1>7. CASE POS!Summarise
  <2>1. Sells(Now, POS!Line("SUMMARY", user, 0, count), Ended(Now))
    BY <1>2, <1>7 DEF POS!Summarise, Sells, Prints
  <2> QED
    BY <1>7, <2>1, SellEnds DEF POS!Summarise
<1> QED
  BY <1>3, <1>4, <1>5, <1>6, <1>7 DEF Checkout, Scanning, PressDone, EveryPaymentTold

(* At the start the checkout has printed BOOT and START. *)
LEMMA SellInit ==
    ASSUME POS!Init
    PROVE  \E h : Trail(h, uart, Now) /\ h[1] = Boot
<1> DEFINE b == Ended(Boot)
           l == <<POS!Plain("BOOT")>>
<1>1. Zero = POS!Zero /\ Users = POS!Users /\ Zero \in Ledger
  BY LedgerFacts DEF Zero, POS!Zero, Items, POS!Items, Users, POS!Users
<1>2. Boot \in Records /\ Boot.pc = "boot" /\ Boot.user = "NONE" /\ Boot.count = Zero
  BY <1>1 DEF Boot, Stamp, Records, Stages
<1>3. Boot \in Stamps
  BY <1>2 DEF Stamps, Users
<1>4. Trail(<<Boot>>, <<>>, Boot)
  BY <1>3, SoldSame DEF Trail
<1>5. Sells(Boot, POS!Plain("BOOT"), b)
  BY <1>2 DEF Sells, Prints, POS!Plain, POS!Line
<1>6. Now = Started(b)
  BY <1>1 DEF POS!Init, Now, Started, Ended, Boot, Stamp
<1>7. Sells(b, POS!Plain("START"), Now)
  BY <1>6 DEF Sells, Prints, Ended, Boot, Stamp, POS!Plain, POS!Line
<1>8. b \in Stamps
  BY <1>3, <1>5, SellsStamp
<1>9. Leads(Boot, POS!Plain("BOOT"), b) /\ Leads(b, POS!Plain("START"), Now)
  BY <1>3, <1>5, <1>7, <1>8, SellsLeads
<1>10. /\ Trail(Append(<<Boot>>, b), Append(<<>>, POS!Plain("BOOT")), b)
       /\ Append(<<Boot>>, b)[1] = Boot
  <2>1. <<Boot>>[1] = Boot
    OBVIOUS
  <2> QED
    BY <1>4, <1>9, <2>1, TrailGrows
<1>11. uart = Append(Append(<<>>, POS!Plain("BOOT")), POS!Plain("START"))
  BY DEF POS!Init
<1> QED
  BY <1>9, <1>10, <1>11, TrailGrows
-----------------------------------------------------------------------------
(* What has been credited: in the verdicts, to the customers who have not  *)
(* been judged, and waiting for a customer.                                *)
Worth(x, i) == IF x = NotPaid THEN 0 ELSE x[i]
Spent(v, i) == SumFunction([n \in DOMAIN v |-> v[n].paid[i]])
Held(p, i) == SumFunctionOnSet([c \in Customers |-> Worth(p[c], i)], Customers)
Credited(v, p, w, i) == Spent(v, i) + Held(p, i) + w.items[i]

Verdicts(v) == \E V : v \in Seq(V) /\ \A n \in 1..Len(v) : v[n].paid \in Ledger

Accounts(v, p, w, active) ==
    /\ Verdicts(v)
    /\ p \in [Customers -> Ledger \union {NotPaid}]
    /\ w \in [items : Ledger, age : Nat]
    /\ active \in Customers \union {NoCustomer}

LEMMA LedgerIsPaid == \A l \in Ledger : l # NotPaid
<1>1. ASSUME NEW l \in Ledger, l = NotPaid PROVE FALSE
  <2>1. DOMAIN l = Items /\ DOMAIN NotPaid = {} /\ 1 \in Items
    BY ItemsAssumption DEF Ledger, NotPaid, Items
  <2> QED
    BY <1>1, <2>1
<1> QED
  BY <1>1

LEMMA WorthNat ==
    ASSUME NEW x \in Ledger \union {NotPaid}, NEW i \in Items
    PROVE  Worth(x, i) \in Nat
  BY DEF Worth, Ledger

(* One customer's account changes. *)
LEMMA HeldChanges ==
    ASSUME IsFiniteSet(Customers), NEW p \in [Customers -> Ledger \union {NotPaid}],
           NEW c \in Customers, NEW x \in Ledger \union {NotPaid}, NEW i \in Items
    PROVE  /\ Held([p EXCEPT ![c] = x], i) + Worth(p[c], i) = Held(p, i) + Worth(x, i)
           /\ Held([p EXCEPT ![c] = x], i) \in Nat /\ Held(p, i) \in Nat
<1> DEFINE q == [p EXCEPT ![c] = x]
           f == [d \in Customers |-> Worth(p[d], i)]
           g == [d \in Customers |-> Worth(q[d], i)]
<1>1. q[c] = x /\ \A d \in Customers : d # c => q[d] = p[d]
  OBVIOUS
<1>2. \A d \in Customers : f[d] \in Nat
  BY WorthNat
<1>3. g[c] = Worth(x, i) /\ f[c] = Worth(p[c], i) /\ g[c] \in Nat
  BY <1>1, WorthNat
<1>4. \A d \in Customers : d # c => g[d] = f[d]
  BY <1>1
<1>5. Held(p, i) = SumFunctionOnSet(f, Customers) /\ Held(q, i) = SumFunctionOnSet(g, Customers)
  BY DEF Held
<1> HIDE DEF f, g, q
<1>6. /\ SumFunctionOnSet(g, Customers) + f[c] = SumFunctionOnSet(f, Customers) + g[c]
      /\ SumFunctionOnSet(f, Customers) \in Nat /\ SumFunctionOnSet(g, Customers) \in Nat
  BY <1>2, <1>3, <1>4, SumChanges
<1> QED
  BY <1>3, <1>5, <1>6 DEF q

(* One more exit is judged. *)
LEMMA SpentMore ==
    ASSUME NEW v, Verdicts(v), NEW x, x.paid \in Ledger, NEW i \in Items
    PROVE  /\ Verdicts(Append(v, x))
           /\ Spent(Append(v, x), i) = Spent(v, i) + x.paid[i] /\ Spent(v, i) \in Nat
<1>1. PICK V : v \in Seq(V) /\ \A n \in 1..Len(v) : v[n].paid \in Ledger
  BY DEF Verdicts
<1> DEFINE w == Append(v, x)
           l == Len(v)
           f == [n \in DOMAIN v |-> v[n].paid[i]]
           g == [n \in DOMAIN w |-> w[n].paid[i]]
<1>2. /\ w \in Seq(V \union {x}) /\ l \in Nat /\ Len(w) = l + 1 /\ w[l + 1] = x
      /\ \A n \in 1..l : w[n] = v[n]
  BY <1>1, AppendOne
<1>3. DOMAIN v = 1..l /\ DOMAIN w = 1..(l + 1)
  BY <1>1, <1>2, LenProperties
<1> HIDE DEF w
<1>4. \A n \in 1..Len(w) : w[n].paid \in Ledger
  BY <1>1, <1>2
<1>5. /\ \A n \in 1..l : f[n] \in Nat /\ g[n] = f[n]
      /\ g[l + 1] = x.paid[i] /\ g[l + 1] \in Nat
  BY <1>1, <1>2, <1>3 DEF Ledger
<1>6. Spent(v, i) = SumFunctionOnSet(f, 1..l) /\ Spent(w, i) = SumFunctionOnSet(g, 1..(l + 1))
  BY <1>3 DEF Spent, SumFunction
<1> HIDE DEF f, g, l
<1>7. /\ SumFunctionOnSet(g, 1..(l + 1)) = SumFunctionOnSet(f, 1..l) + g[l + 1]
      /\ SumFunctionOnSet(f, 1..l) \in Nat
  BY <1>2, <1>5, SumGrows
<1> QED
  BY <1>2, <1>4, <1>5, <1>6, <1>7 DEF w, Verdicts

LEMMA CreditedNat ==
    ASSUME IsFiniteSet(Customers), NEW v, NEW p, NEW w, NEW active, Accounts(v, p, w, active),
           NEW i \in Items
    PROVE  /\ Spent(v, i) \in Nat /\ Held(p, i) \in Nat /\ w.items[i] \in Nat
           /\ Credited(v, p, w, i) \in Nat
<1>1. Spent(v, i) \in Nat
  <2>1. [paid |-> Zero].paid \in Ledger
    BY LedgerFacts
  <2> QED
    BY <2>1, SpentMore DEF Accounts
<1>2. Held(p, i) \in Nat
  <2>1. \A c \in Customers : Worth(p[c], i) \in Nat
    BY WorthNat DEF Accounts
  <2> DEFINE f == [c \in Customers |-> Worth(p[c], i)]
  <2>2. \A c \in Customers : f[c] \in Nat
    BY <2>1
  <2> HIDE DEF f
  <2>3. SumFunctionOnSet(f, Customers) \in Nat
    BY <2>2, SumNat
  <2> QED
    BY <2>3 DEF Held, f
<1>3. w.items[i] \in Nat
  BY DEF Accounts, Ledger
<1> QED
  BY <1>1, <1>2, <1>3 DEF Credited

LEMMA NothingHeld ==
    ASSUME IsFiniteSet(Customers), NEW i \in Items
    PROVE  Held([c \in Customers |-> NotPaid], i) = 0
<1> DEFINE f == [c \in Customers |-> Worth([d \in Customers |-> NotPaid][c], i)]
<1>1. \A c \in Customers : f[c] = 0
  BY DEF Worth
<1> HIDE DEF f
<1>2. SumFunctionOnSet(f, Customers) = 0
  BY <1>1, SumZero
<1> QED
  BY <1>2 DEF Held, f

(* A customer who is at the kiosk takes the payment that waits. *)
LEMMA PosCredits ==
    ASSUME IsFiniteSet(Customers), Accounts(verdicts, paidByCustomer, unassigned, activeCustomer),
           NEW c \in Customers, CustomerPos(c), UNCHANGED verdicts
    PROVE  /\ Accounts(verdicts', paidByCustomer', unassigned', activeCustomer')
           /\ \A i \in Items : Credited(verdicts', paidByCustomer', unassigned', i)
                                  <= Credited(verdicts, paidByCustomer, unassigned, i)
<1>1. /\ paidByCustomer \in [Customers -> Ledger \union {NotPaid}]
      /\ unassigned \in [items : Ledger, age : Nat] /\ Verdicts(verdicts)
  BY DEF Accounts
<1>2. CASE Usable
  <2>1. /\ paidByCustomer' = [paidByCustomer EXCEPT ![c] = unassigned.items]
        /\ unassigned' = NoPayment /\ activeCustomer' = c
    BY <1>2 DEF CustomerPos
  <2>2. NoPayment \in [items : Ledger, age : Nat] /\ unassigned.items \in Ledger
    BY <1>1, LedgerFacts, TimeAssumption DEF NoPayment
  <2>3. Accounts(verdicts', paidByCustomer', unassigned', activeCustomer')
    BY <1>1, <2>1, <2>2 DEF Accounts
  <2>4. ASSUME NEW i \in Items
        PROVE  Credited(verdicts', paidByCustomer', unassigned', i)
                   <= Credited(verdicts, paidByCustomer, unassigned, i)
    <3>1. /\ Held(paidByCustomer', i) + Worth(paidByCustomer[c], i)
                 = Held(paidByCustomer, i) + Worth(unassigned.items, i)
          /\ Held(paidByCustomer', i) \in Nat /\ Held(paidByCustomer, i) \in Nat
      <4>1. unassigned.items \in Ledger \union {NotPaid}
        BY <2>2
      <4>2. LET p == [paidByCustomer EXCEPT ![c] = unassigned.items]
            IN  /\ Held(p, i) + Worth(paidByCustomer[c], i)
                       = Held(paidByCustomer, i) + Worth(unassigned.items, i)
                /\ Held(p, i) \in Nat /\ Held(paidByCustomer, i) \in Nat
        BY <1>1, <4>1, HeldChanges
      <4> QED
        BY <2>1, <4>2
    <3>2. Worth(paidByCustomer[c], i) \in Nat /\ Worth(unassigned.items, i) = unassigned.items[i]
      BY <1>1, <2>2, WorthNat, LedgerIsPaid DEF Worth
    <3>3. unassigned'.items[i] = 0 /\ unassigned.items[i] \in Nat
      BY <2>1, <2>2 DEF NoPayment, Zero, Ledger
    <3>4. Spent(verdicts, i) \in Nat
      BY CreditedNat
    <3> QED
      BY <3>1, <3>2, <3>3, <3>4 DEF Credited
  <2> QED
    BY <2>3, <2>4
<1>3. CASE ~Usable
  <2>1. UNCHANGED <<paidByCustomer, unassigned>> /\ activeCustomer' = c
    BY <1>3 DEF CustomerPos
  <2>2. Accounts(verdicts', paidByCustomer', unassigned', activeCustomer')
    BY <1>1, <2>1 DEF Accounts
  <2>3. \A i \in Items : Credited(verdicts, paidByCustomer, unassigned, i) \in Nat
    BY CreditedNat
  <2> QED
    BY <2>1, <2>2, <2>3
<1> QED
  BY <1>2, <1>3

(* A judged exit uses the customer's payment, or the one that waits.       *)
LEMMA JudgeCredits ==
    ASSUME IsFiniteSet(Customers), Queues, JudgeExit,
           Accounts(verdicts, paidByCustomer, unassigned, activeCustomer)
    PROVE  /\ Accounts(verdicts', paidByCustomer', unassigned', activeCustomer')
           /\ \A i \in Items : Credited(verdicts', paidByCustomer', unassigned', i)
                                  <= Credited(verdicts, paidByCustomer, unassigned, i)
<1> DEFINE s == Head(pendingExits).session
           c == s.customer
           own == paidByCustomer[c]
           paid == PaidFor(own)
           verdict == [customer |-> c, picked |-> s.picked, paid |-> paid,
                       code |-> ExitCode(s.picked, paid, s.wasAtKiosk)]
<1>1. c \in Customers
  <2>1. Head(pendingExits) \in Exits
    BY TailOne DEF Queues, JudgeExit
  <2> QED
    BY <2>1 DEF Exits, Sessions
<1>2. /\ verdicts' = Append(verdicts, verdict)
      /\ unassigned' = IF own = NotPaid /\ Usable THEN NoPayment ELSE unassigned
      /\ paidByCustomer' = [paidByCustomer EXCEPT ![c] = NotPaid]
      /\ activeCustomer' = IF activeCustomer = c THEN NoCustomer ELSE activeCustomer
  BY DEF JudgeExit, UseUpUnassigned
<1>3. verdict.paid = paid
  OBVIOUS
<1>4. paid = IF own # NotPaid THEN own ELSE IF Usable THEN unassigned.items ELSE Zero
  BY DEF PaidFor
<1> HIDE DEF s, c, own, paid, verdict
<1>5. /\ paidByCustomer \in [Customers -> Ledger \union {NotPaid}]
      /\ unassigned \in [items : Ledger, age : Nat] /\ Verdicts(verdicts)
      /\ activeCustomer \in Customers \union {NoCustomer}
  BY DEF Accounts
<1>6. own \in Ledger \union {NotPaid} /\ own = paidByCustomer[c]
  BY <1>1, <1>5 DEF own
<1>7. /\ NoPayment \in [items : Ledger, age : Nat] /\ unassigned.items \in Ledger
      /\ Zero \in Ledger /\ NoPayment.items = Zero
  BY <1>5, LedgerFacts, TimeAssumption DEF NoPayment
<1>8. paid \in Ledger
  BY <1>4, <1>6, <1>7
<1>9. Verdicts(verdicts')
  <2>1. 1 \in Items
    BY ItemsAssumption DEF Items
  <2> QED
    BY <1>2, <1>3, <1>5, <1>8, <2>1, SpentMore
<1>10. Accounts(verdicts', paidByCustomer', unassigned', activeCustomer')
  BY <1>1, <1>2, <1>5, <1>7, <1>9 DEF Accounts
<1>11. ASSUME NEW i \in Items
       PROVE  Credited(verdicts', paidByCustomer', unassigned', i)
                  <= Credited(verdicts, paidByCustomer, unassigned, i)
  <2>1. /\ Held(paidByCustomer', i) + Worth(own, i) = Held(paidByCustomer, i) + Worth(NotPaid, i)
        /\ Held(paidByCustomer', i) \in Nat /\ Held(paidByCustomer, i) \in Nat
    <3>1. NotPaid \in Ledger \union {NotPaid}
      OBVIOUS
    <3>2. \A x \in Ledger \union {NotPaid} :
              /\ Held([paidByCustomer EXCEPT ![c] = x], i) + Worth(paidByCustomer[c], i)
                    = Held(paidByCustomer, i) + Worth(x, i)
              /\ Held([paidByCustomer EXCEPT ![c] = x], i) \in Nat /\ Held(paidByCustomer, i) \in Nat
      BY <1>1, <1>5, HeldChanges
    <3> QED
      BY ONLY <1>2, <1>6, <3>1, <3>2
  <2>2. Spent(verdicts', i) = Spent(verdicts, i) + paid[i] /\ Spent(verdicts, i) \in Nat
    BY <1>2, <1>3, <1>5, <1>8, SpentMore
  <2>3. unassigned.items[i] \in Nat /\ Zero[i] = 0 /\ Worth(NotPaid, i) = 0
    BY <1>7 DEF Zero, Ledger, Worth
  <2>4. CASE own # NotPaid
    <3>1. Worth(own, i) = paid[i] /\ paid[i] \in Nat /\ unassigned' = unassigned
      BY <1>2, <1>4, <1>8, <2>4 DEF Worth, Ledger
    <3> QED
      BY <2>1, <2>2, <2>3, <3>1 DEF Credited
  <2>5. CASE own = NotPaid /\ Usable
    <3>1. Worth(own, i) = 0 /\ paid[i] = unassigned.items[i] /\ unassigned'.items[i] = 0
      BY <1>2, <1>4, <1>7, <2>3, <2>5
    <3> QED
      BY <2>1, <2>2, <2>3, <3>1 DEF Credited
  <2>6. CASE own = NotPaid /\ ~Usable
    <3>1. Worth(own, i) = 0 /\ paid[i] = 0 /\ unassigned' = unassigned
      BY <1>2, <1>4, <2>3, <2>6
    <3> QED
      BY <2>1, <2>2, <2>3, <3>1 DEF Credited
  <2> QED
    BY <2>4, <2>5, <2>6
<1> QED
  BY <1>10, <1>11

(* A payment that waits expires. *)
LEMMA TickCredits ==
    ASSUME IsFiniteSet(Customers), Tick,
           Accounts(verdicts, paidByCustomer, unassigned, activeCustomer)
    PROVE  /\ Accounts(verdicts', paidByCustomer', unassigned', activeCustomer')
           /\ \A i \in Items : Credited(verdicts', paidByCustomer', unassigned', i)
                                  <= Credited(verdicts, paidByCustomer, unassigned, i)
<1>1. /\ unassigned \in [items : Ledger, age : Nat] /\ Verdicts(verdicts)
      /\ UNCHANGED <<verdicts, paidByCustomer, activeCustomer>>
  BY DEF Accounts, Tick, outcomeVars
<1>2. unassigned' = IF unassigned.age < Window THEN [unassigned EXCEPT !.age = unassigned.age + 1]
                    ELSE NoPayment
  BY DEF Tick
<1>3. /\ unassigned' \in [items : Ledger, age : Nat]
      /\ unassigned'.items = unassigned.items \/ unassigned'.items = Zero
  BY <1>1, <1>2, LedgerFacts, TimeAssumption DEF NoPayment
<1>4. Accounts(verdicts', paidByCustomer', unassigned', activeCustomer')
  BY <1>1, <1>3 DEF Accounts
<1>5. ASSUME NEW i \in Items
      PROVE  Credited(verdicts', paidByCustomer', unassigned', i)
                 <= Credited(verdicts, paidByCustomer, unassigned, i)
  <2>1. /\ Spent(verdicts, i) \in Nat /\ Held(paidByCustomer, i) \in Nat
        /\ unassigned.items[i] \in Nat
    BY CreditedNat
  <2>2. unassigned'.items[i] = unassigned.items[i] \/ unassigned'.items[i] = 0
    BY <1>3 DEF Zero
  <2> QED
    BY <1>1, <2>1, <2>2 DEF Credited
<1> QED
  BY <1>4, <1>5

(* A completed session is credited. *)
LEMMA PaymentCredits ==
    ASSUME IsFiniteSet(Customers), PaymentEdge, CreditPayment, CustomerPayment \in Ledger,
           Accounts(verdicts, paidByCustomer, unassigned, activeCustomer), UNCHANGED verdicts
    PROVE  /\ Accounts(verdicts', paidByCustomer', unassigned', activeCustomer')
           /\ \A i \in Items :
                 Credited(verdicts', paidByCustomer', unassigned', i)
                     <= Credited(verdicts, paidByCustomer, unassigned, i) + CustomerPayment[i]
<1>1. /\ paidByCustomer \in [Customers -> Ledger \union {NotPaid}]
      /\ unassigned \in [items : Ledger, age : Nat] /\ Verdicts(verdicts)
      /\ activeCustomer \in Customers \union {NoCustomer}
  BY DEF Accounts
<1>2. \A i \in Items : /\ Spent(verdicts, i) \in Nat /\ Held(paidByCustomer, i) \in Nat
                       /\ unassigned.items[i] \in Nat /\ CustomerPayment[i] \in Nat
  BY CreditedNat DEF Ledger
<1> HIDE DEF CustomerPayment
<1>3. CASE /\ activeCustomer # NoCustomer
           /\ paidByCustomer' = [paidByCustomer EXCEPT ![activeCustomer] = CustomerPayment]
           /\ UNCHANGED <<activeCustomer, unassigned>>
  <2>1. activeCustomer \in Customers
    BY <1>1, <1>3
  <2>2. Accounts(verdicts', paidByCustomer', unassigned', activeCustomer')
    BY <1>1, <1>3, <2>1 DEF Accounts
  <2>3. ASSUME NEW i \in Items
        PROVE  Credited(verdicts', paidByCustomer', unassigned', i)
                   <= Credited(verdicts, paidByCustomer, unassigned, i) + CustomerPayment[i]
    <3>1. /\ Held(paidByCustomer', i) + Worth(paidByCustomer[activeCustomer], i)
                 = Held(paidByCustomer, i) + Worth(CustomerPayment, i)
          /\ Held(paidByCustomer', i) \in Nat
      BY <1>1, <1>3, <2>1, HeldChanges
    <3>2. /\ Worth(paidByCustomer[activeCustomer], i) \in Nat
          /\ Worth(CustomerPayment, i) = CustomerPayment[i]
      BY <1>1, <2>1, WorthNat, LedgerIsPaid DEF Worth
    <3> QED
      BY <1>2, <1>3, <3>1, <3>2 DEF Credited
  <2> QED
    BY <2>2, <2>3
<1>4. CASE /\ unassigned' = [items |-> CustomerPayment, age |-> 0]
           /\ UNCHANGED <<activeCustomer, paidByCustomer>>
  <2>1. unassigned' \in [items : Ledger, age : Nat] /\ unassigned'.items = CustomerPayment
    BY <1>4
  <2>2. Accounts(verdicts', paidByCustomer', unassigned', activeCustomer')
    BY <1>1, <1>4, <2>1 DEF Accounts
  <2>3. ASSUME NEW i \in Items
        PROVE  Credited(verdicts', paidByCustomer', unassigned', i)
                   <= Credited(verdicts, paidByCustomer, unassigned, i) + CustomerPayment[i]
    BY <1>2, <1>4, <2>1 DEF Credited
  <2> QED
    BY <2>2, <2>3
<1> QED
  BY <1>3, <1>4 DEF CreditPayment
-----------------------------------------------------------------------------
(* Nothing is credited but sales whose completion has been handled: the    *)
(* credits are within what is due at the stamp of the last event handled.  *)
Paying(g, x, h) ==
    /\ Trails(g, eventQueue, x, h, uart, Now)
    /\ Tally(g[1], mode, committed, posSessionItems, posReportedItems)
    /\ \A i \in Items : Credited(verdicts, paidByCustomer, unassigned, i) <= Due(g[1], committed, i)

Crediting ==
    /\ Queues /\ OnePlace /\ resets \in Nat
    /\ Accounts(verdicts, paidByCustomer, unassigned, activeCustomer)
    /\ \E g, x, h : Paying(g, x, h)

LEMMA DueBounds ==
    ASSUME NEW a \in Stamps, NEW done, NEW i \in Items
    PROVE  Due(a, done, i) \in Int /\ Due(a, done, i) <= a.sold["CUSTOMER"][i]
<1>1. a.count[i] \in Nat /\ a.sold["CUSTOMER"][i] \in Nat
  BY StampParts DEF Ledger
<1> QED
  BY <1>1 DEF Due

(* A step that handles no line of the checkout. *)
LEMMA CreditKept ==
    ASSUME IsFiniteSet(Customers), NEW g, NEW x, NEW h, Paying(g, x, h),
           Accounts(verdicts, paidByCustomer, unassigned, activeCustomer),
           Accounts(verdicts', paidByCustomer', unassigned', activeCustomer'),
           NEW f, NEW y, NEW k, Trails(f, eventQueue', y, k, uart', Now'),
           Tally(f[1], mode', committed', posSessionItems', posReportedItems'),
           \A i \in Items :
               Due(g[1], committed, i) + Credited(verdicts', paidByCustomer', unassigned', i)
                   <= Due(f[1], committed', i) + Credited(verdicts, paidByCustomer, unassigned, i)
    PROVE  \E d, z, e : Paying(d, z, e)'
<1>1. g[1] \in Stamps /\ f[1] \in Stamps
  BY TrailHead DEF Paying, Trails
<1>2. ASSUME NEW i \in Items
      PROVE  Credited(verdicts', paidByCustomer', unassigned', i) <= Due(f[1], committed', i)
  <2>1. /\ Credited(verdicts', paidByCustomer', unassigned', i) \in Nat
        /\ Credited(verdicts, paidByCustomer, unassigned, i) \in Nat
    BY CreditedNat
  <2>2. Due(f[1], committed', i) \in Int /\ Due(g[1], committed, i) \in Int
    BY <1>1, DueBounds
  <2>3. Credited(verdicts, paidByCustomer, unassigned, i) <= Due(g[1], committed, i)
    BY DEF Paying
  <2> QED
    BY <2>1, <2>2, <2>3
<1>3. Paying(f, y, k)'
  BY <1>2 DEF Paying
<1> QED
  BY <1>3

(* The same when the session stays as it is. *)
LEMMA CreditUntouched ==
    ASSUME IsFiniteSet(Customers), NEW g, NEW x, NEW h, Paying(g, x, h),
           Accounts(verdicts, paidByCustomer, unassigned, activeCustomer),
           Accounts(verdicts', paidByCustomer', unassigned', activeCustomer'),
           NEW f, NEW y, NEW k, Trails(f, eventQueue', y, k, uart', Now'), f[1] = g[1],
           UNCHANGED <<mode, posVars>>,
           \A i \in Items : Credited(verdicts', paidByCustomer', unassigned', i)
                               <= Credited(verdicts, paidByCustomer, unassigned, i)
    PROVE  \E d, z, e : Paying(d, z, e)'
<1>1. g[1] \in Stamps
  BY TrailHead DEF Paying, Trails
<1>2. Tally(f[1], mode', committed', posSessionItems', posReportedItems')
  BY DEF Paying, posVars
<1>3. ASSUME NEW i \in Items
      PROVE  Due(g[1], committed, i) + Credited(verdicts', paidByCustomer', unassigned', i)
                 <= Due(f[1], committed', i) + Credited(verdicts, paidByCustomer, unassigned, i)
  <2>1. /\ Credited(verdicts', paidByCustomer', unassigned', i) \in Nat
        /\ Credited(verdicts, paidByCustomer, unassigned, i) \in Nat
    BY CreditedNat
  <2>2. Due(g[1], committed, i) \in Int /\ Due(f[1], committed', i) = Due(g[1], committed, i)
    BY <1>1, DueBounds DEF posVars
  <2> QED
    BY <2>1, <2>2
<1> QED
  BY <1>2, <1>3, CreditKept

(* And when the accounts stay as they are, too. *)
LEMMA CreditBehind ==
    ASSUME IsFiniteSet(Customers), NEW g, NEW x, NEW h, Paying(g, x, h),
           Accounts(verdicts, paidByCustomer, unassigned, activeCustomer),
           UNCHANGED <<verdicts, bookVars, mode, posVars>>,
           NEW f, NEW y, NEW k, Trails(f, eventQueue', y, k, uart', Now'), f[1] = g[1]
    PROVE  /\ Accounts(verdicts', paidByCustomer', unassigned', activeCustomer')
           /\ \E d, z, e : Paying(d, z, e)'
<1>1. Accounts(verdicts', paidByCustomer', unassigned', activeCustomer')
  BY DEF bookVars
<1>2. \A i \in Items : Credited(verdicts', paidByCustomer', unassigned', i)
                          <= Credited(verdicts, paidByCustomer, unassigned, i)
  BY CreditedNat DEF bookVars
<1> QED
  BY <1>1, <1>2, CreditUntouched

LEMMA CreditInit == EveryPaymentTold /\ FusionInit => Crediting
<1> SUFFICES ASSUME EveryPaymentTold, FusionInit PROVE Crediting
  OBVIOUS
<1>1. /\ POS!Init /\ resets = 0 /\ eventQueue = <<>> /\ verdicts = <<>>
      /\ unassigned = NoPayment /\ paidByCustomer = [c \in Customers |-> NotPaid]
      /\ activeCustomer = NoCustomer
      /\ committed = FALSE /\ posSessionItems = Zero /\ posReportedItems = Zero
  BY DEF FusionInit, SessionInit, Init
<1>2. PICK h : Trail(h, uart, Now) /\ h[1] = Boot
  BY <1>1, SellInit
<1>3. Boot \in Stamps /\ Boot.pc = "boot" /\ Boot.sold["CUSTOMER"] = Zero
  BY <1>2, TrailHead DEF Boot, Stamp, Users
<1> DEFINE g == <<Boot>>
<1>4. g[1] = Boot /\ Trail(g, <<>>, Boot)
  BY <1>3, SoldSame DEF Trail
<1> HIDE DEF g
<1>5. Trails(g, eventQueue, Boot, h, uart, Now)
  BY <1>1, <1>2, <1>4 DEF Trails, Skips
<1>6. Tally(g[1], mode, committed, posSessionItems, posReportedItems)
  BY <1>1, <1>3, <1>4, LedgerFacts DEF Tally
<1>7. Accounts(verdicts, paidByCustomer, unassigned, activeCustomer)
  <2>1. Verdicts(<<>>)
    <3>1. <<>> \in Seq({}) /\ Len(<<>>) = 0 /\ 1..0 = {}
      OBVIOUS
    <3> QED
      BY <3>1 DEF Verdicts
  <2>2. NoPayment \in [items : Ledger, age : Nat]
    BY LedgerFacts, TimeAssumption DEF NoPayment
  <2> QED
    BY <1>1, <2>1, <2>2 DEF Accounts
<1>8. ASSUME NEW i \in Items
      PROVE  Credited(verdicts, paidByCustomer, unassigned, i) <= Due(g[1], committed, i)
  <2>1. Spent(<<>>, i) = 0
    <3>1. DOMAIN <<>> = {}
      OBVIOUS
    <3> QED
      BY <3>1, SumEmpty DEF Spent, SumFunction
  <2>2. Held(paidByCustomer, i) = 0
    BY <1>1, NothingHeld DEF EveryPaymentTold
  <2>3. unassigned.items[i] = 0 /\ Zero[i] = 0
    BY <1>1 DEF NoPayment, Zero
  <2>4. Due(g[1], committed, i) = 0
    BY <1>3, <1>4, <2>3 DEF Due
  <2> QED
    BY <1>1, <2>1, <2>2, <2>3, <2>4 DEF Credited
<1>9. Paying(g, Boot, h)
  BY <1>5, <1>6, <1>8 DEF Paying
<1> QED
  BY <1>1, <1>7, <1>9, OnePlaceInit DEF Crediting

(* An event leaves the event queue. *)
LEMMA EventTaken ==
    ASSUME NEW g, NEW q, NEW x, NEW h, NEW u, NEW now, Trails(g, q, x, h, u, now), q # <<>>
    PROVE  /\ Trails(Tail(g), Tail(q), x, h, u, now) /\ Tail(g)[1] = g[2]
           /\ Leads(g[1], Head(q), g[2]) /\ g[1] \in Stamps /\ g[2] \in Stamps
  BY TrailShrinks DEF Trails

(* The loop handles a line of the checkout. *)
LEMMA CreditLine ==
    ASSUME IsFiniteSet(Customers), NEW g, NEW x, NEW h, Paying(g, x, h),
           Accounts(verdicts, paidByCustomer, unassigned, activeCustomer), HandlePosEvent
    PROVE  /\ Accounts(verdicts', paidByCustomer', unassigned', activeCustomer')
           /\ \E d, z, e : Paying(d, z, e)'
<1> DEFINE line == Head(eventQueue)
<1>1. /\ eventQueue # <<>> /\ eventQueue' = Tail(eventQueue) /\ line.kind # "REMOVE_CANDIDATE"
      /\ Handle(line) /\ CreditPayment
      /\ UNCHANGED <<Now, uart, verdicts>>
  BY DEF HandlePosEvent, NextEvent, POS!LineKinds, firmwareVars, Now, outcomeVars
<1>2. /\ Trails(g, eventQueue, x, h, uart, Now)
      /\ Tally(g[1], mode, committed, posSessionItems, posReportedItems)
  BY DEF Paying
<1>3. /\ Trails(Tail(g), eventQueue', x, h, uart', Now') /\ Tail(g)[1] = g[2]
      /\ Leads(g[1], line, g[2]) /\ g[1] \in Stamps /\ g[2] \in Stamps
  BY <1>1, <1>2, EventTaken
<1> HIDE DEF line
<1>4. PICK y \in Stamps : Skips(g[1], y) /\ Sells(y, line, g[2])
  BY <1>1, <1>3 DEF Leads
<1>5. /\ Tally(y, mode, committed, posSessionItems, posReportedItems)
      /\ \A i \in Items : Due(g[1], committed, i) <= Due(y, committed, i)
  BY <1>2, <1>3, <1>4, TallySkips
<1>6. Settles(y, g[2])
  BY <1>1, <1>4, <1>5, LineSettles
<1>7. Tally(Tail(g)[1], mode', committed', posSessionItems', posReportedItems')
  BY <1>3, <1>6 DEF Settles
<1>8. \A i \in Items : /\ Due(g[1], committed, i) \in Int /\ Due(g[2], committed', i) \in Int
                       /\ Due(y, committed, i) \in Int
                       /\ Credited(verdicts, paidByCustomer, unassigned, i) \in Nat
  BY <1>3, DueBounds, CreditedNat
<1>9. CASE PaymentEdge
  <2>1. CustomerPayment \in Ledger
    BY <1>6, <1>9 DEF Settles
  <2>2. ASSUME NEW i \in Items
        PROVE  Due(g[1], committed, i) + CustomerPayment[i] <= Due(g[2], committed', i)
    <3> DEFINE due == Due(g[1], committed, i)
               met == Due(y, committed, i)
               then == Due(g[2], committed', i)
    <3>1. /\ due \in Int /\ met \in Int /\ then \in Int /\ CustomerPayment[i] \in Nat
          /\ due <= met /\ met + CustomerPayment[i] <= then
      BY <1>5, <1>6, <1>8, <1>9, <2>1 DEF Settles, Ledger
    <3> HIDE DEF due, met, then
    <3>2. due + CustomerPayment[i] <= then
      BY ONLY <3>1
    <3> QED
      BY <3>2 DEF due, then
  <2>3. /\ Accounts(verdicts', paidByCustomer', unassigned', activeCustomer')
        /\ \A i \in Items :
              Credited(verdicts', paidByCustomer', unassigned', i)
                  <= Credited(verdicts, paidByCustomer, unassigned, i) + CustomerPayment[i]
    BY <1>1, <1>9, <2>1, PaymentCredits
  <2>4. \A i \in Items : /\ Credited(verdicts', paidByCustomer', unassigned', i) \in Nat
                         /\ CustomerPayment[i] \in Nat
    BY <2>1, <2>3, CreditedNat DEF Ledger
  <2> HIDE DEF CustomerPayment
  <2>5. ASSUME NEW i \in Items
        PROVE  Due(g[1], committed, i) + Credited(verdicts', paidByCustomer', unassigned', i)
                   <= Due(Tail(g)[1], committed', i)
                          + Credited(verdicts, paidByCustomer, unassigned, i)
    <3>1. /\ Due(g[1], committed, i) \in Int /\ Due(g[2], committed', i) \in Int
          /\ Due(g[1], committed, i) + CustomerPayment[i] <= Due(g[2], committed', i)
      BY <1>8, <2>2
    <3>2. /\ Credited(verdicts, paidByCustomer, unassigned, i) \in Nat
          /\ Credited(verdicts', paidByCustomer', unassigned', i) \in Nat
          /\ CustomerPayment[i] \in Nat
          /\ Credited(verdicts', paidByCustomer', unassigned', i)
                 <= Credited(verdicts, paidByCustomer, unassigned, i) + CustomerPayment[i]
      BY <1>8, <2>3, <2>4
    <3> DEFINE now == Credited(verdicts, paidByCustomer, unassigned, i)
               next == Credited(verdicts', paidByCustomer', unassigned', i)
               due == Due(g[1], committed, i)
               then == Due(g[2], committed', i)
    <3>3. due + next <= then + now
      <4>1. /\ due \in Int /\ then \in Int /\ due + CustomerPayment[i] <= then
            /\ now \in Nat /\ next \in Nat /\ CustomerPayment[i] \in Nat
            /\ next <= now + CustomerPayment[i]
        BY <3>1, <3>2
      <4> HIDE DEF now, next, due, then
      <4> QED
        BY ONLY <4>1
    <3> QED
      BY <1>3, <3>3
  <2> QED
    BY <1>3, <1>7, <2>3, <2>5, CreditKept
<1>10. CASE ~PaymentEdge
  <2>1. UNCHANGED <<verdicts, paidByCustomer, unassigned, activeCustomer>>
    BY <1>1, <1>10 DEF CreditPayment, bookVars
  <2>2. \A i \in Items : Due(g[1], committed, i) <= Due(g[2], committed', i)
    <3>1. \A i \in Items : Due(y, committed, i) <= Due(g[2], committed', i)
      BY <1>6, <1>10 DEF Settles
    <3> QED
      BY <1>5, <1>8, <3>1
  <2>3. Accounts(verdicts', paidByCustomer', unassigned', activeCustomer')
    BY <2>1
  <2>4. ASSUME NEW i \in Items
        PROVE  Due(g[1], committed, i) + Credited(verdicts', paidByCustomer', unassigned', i)
                   <= Due(Tail(g)[1], committed', i)
                          + Credited(verdicts, paidByCustomer, unassigned, i)
    <3>1. /\ Due(g[1], committed, i) \in Int /\ Due(g[2], committed', i) \in Int
          /\ Due(g[1], committed, i) <= Due(g[2], committed', i)
          /\ Credited(verdicts, paidByCustomer, unassigned, i) \in Nat
      BY <1>8, <2>2
    <3>2. Credited(verdicts', paidByCustomer', unassigned', i)
              = Credited(verdicts, paidByCustomer, unassigned, i)
      BY <2>1
    <3> DEFINE now == Credited(verdicts, paidByCustomer, unassigned, i)
               next == Credited(verdicts', paidByCustomer', unassigned', i)
               due == Due(g[1], committed, i)
               then == Due(g[2], committed', i)
    <3>3. due + next <= then + now
      <4>1. due \in Int /\ then \in Int /\ due <= then /\ now \in Nat /\ next = now
        BY <3>1, <3>2
      <4> HIDE DEF now, next, due, then
      <4> QED
        BY ONLY <4>1
    <3> QED
      BY <1>3, <3>3
  <2> QED
    BY <1>3, <1>7, <2>3, <2>4, CreditKept
<1> QED
  BY <1>9, <1>10

(* The loop handles a pick, which is of no line. *)
LEMMA CreditPick ==
    ASSUME IsFiniteSet(Customers), NEW g, NEW x, NEW h, Paying(g, x, h),
           Accounts(verdicts, paidByCustomer, unassigned, activeCustomer), HandlePick
    PROVE  /\ Accounts(verdicts', paidByCustomer', unassigned', activeCustomer')
           /\ \E d, z, e : Paying(d, z, e)'
<1> DEFINE event == Head(eventQueue)
<1>1. /\ eventQueue # <<>> /\ eventQueue' = Tail(eventQueue) /\ event.kind = "REMOVE_CANDIDATE"
      /\ UNCHANGED <<Now, uart, verdicts, bookVars>>
  BY DEF HandlePick, NextEvent, firmwareVars, Now, outcomeVars
<1>2. UNCHANGED <<mode, posVars>>
  BY DEF HandlePick, RemoveCandidate, vars, posVars
<1>3. /\ Trails(g, eventQueue, x, h, uart, Now)
      /\ Tally(g[1], mode, committed, posSessionItems, posReportedItems)
  BY DEF Paying
<1>4. /\ Trails(Tail(g), eventQueue', x, h, uart', Now') /\ Tail(g)[1] = g[2]
      /\ Leads(g[1], event, g[2]) /\ g[1] \in Stamps /\ g[2] \in Stamps
  BY <1>1, <1>3, EventTaken
<1> HIDE DEF event
<1>5. Skips(g[1], g[2])
  BY <1>1, <1>4 DEF Leads, Sells, Prints
<1>6. /\ Tally(g[2], mode, committed, posSessionItems, posReportedItems)
      /\ \A i \in Items : Due(g[1], committed, i) <= Due(g[2], committed, i)
  BY <1>3, <1>4, <1>5, TallySkips
<1>7. /\ Tally(Tail(g)[1], mode', committed', posSessionItems', posReportedItems')
      /\ \A i \in Items : Due(Tail(g)[1], committed', i) = Due(g[2], committed, i)
  BY <1>2, <1>4, <1>6 DEF posVars
<1>8. Accounts(verdicts', paidByCustomer', unassigned', activeCustomer')
  BY <1>1 DEF bookVars
<1>9. ASSUME NEW i \in Items
      PROVE  Due(g[1], committed, i) + Credited(verdicts', paidByCustomer', unassigned', i)
                 <= Due(Tail(g)[1], committed', i)
                        + Credited(verdicts, paidByCustomer, unassigned, i)
  <2>1. /\ Due(g[1], committed, i) \in Int /\ Due(g[2], committed, i) \in Int
        /\ Due(g[1], committed, i) <= Due(g[2], committed, i)
        /\ Credited(verdicts, paidByCustomer, unassigned, i) \in Nat
    BY <1>4, <1>6, DueBounds, CreditedNat
  <2>2. Credited(verdicts', paidByCustomer', unassigned', i)
            = Credited(verdicts, paidByCustomer, unassigned, i)
    BY <1>1 DEF bookVars
  <2>3. Due(Tail(g)[1], committed', i) = Due(g[2], committed, i)
    BY <1>7
  <2> DEFINE now == Credited(verdicts, paidByCustomer, unassigned, i)
             next == Credited(verdicts', paidByCustomer', unassigned', i)
             due == Due(g[1], committed, i)
             then == Due(g[2], committed, i)
  <2>4. due + next <= then + now
    <3>1. now \in Nat /\ next = now /\ due \in Int /\ then \in Int /\ due <= then
      BY <2>1, <2>2
    <3> HIDE DEF now, next, due, then
    <3> QED
      BY ONLY <3>1
  <2> QED
    BY <2>3, <2>4
<1> QED
  BY <1>4, <1>7, <1>8, <1>9, CreditKept

LEMMA CreditStep ==
    EveryPaymentTold /\ Crediting /\ [FusionNext]_fusionVars => Crediting'
<1> SUFFICES ASSUME EveryPaymentTold, Crediting, [FusionNext]_fusionVars PROVE Crediting'
  OBVIOUS
<1>1. /\ Queues /\ OnePlace /\ resets \in Nat
      /\ Accounts(verdicts, paidByCustomer, unassigned, activeCustomer)
      /\ IsFiniteSet(Customers)
  BY DEF Crediting, EveryPaymentTold
<1>2. PICK g, x, h : Paying(g, x, h)
  BY DEF Crediting
<1>3. Trails(g, eventQueue, x, h, uart, Now)
  BY <1>2 DEF Paying
<1>4. Queues' /\ OnePlace'
  BY <1>1, OnePlaceStep
<1>5. ~ConsoleReset /\ ~HandleReset
  <2>1. ~ConsoleReset
    BY <1>1 DEF ConsoleReset, EveryPaymentTold
  <2>2. ASSUME HandleReset PROVE FALSE
    <3>1. eventQueue # <<>> /\ Head(eventQueue).kind = "SYSTEM_RESET"
      BY <2>2 DEF HandleReset, NextEvent
    <3>2. Leads(g[1], Head(eventQueue), g[2])
      BY <1>3, <3>1, EventTaken
    <3> QED
      BY <3>1, <3>2 DEF Leads, Sells, Prints
  <2> QED
    BY <2>1, <2>2
<1>6. resets' \in Nat
  BY <1>1, <1>5 DEF FusionNext, LoopStep, fusionVars, faultVars, Approach, Leave, Checkout,
     SerialRead, LoseCheckoutLine, ReceiveTransition, LoseTransition, TakeSession, SessionsDrained,
     JudgeExit, HandlePosEvent, HandlePick, NoEvent, Tick
<1> DEFINE Kept == /\ Accounts(verdicts', paidByCustomer', unassigned', activeCustomer')
                   /\ \E d, z, e : Paying(d, z, e)'
           Still == UNCHANGED <<verdicts, bookVars, mode, posVars>>
<1>7. SUFFICES Kept
  BY <1>4, <1>6 DEF Crediting
<1>8. ASSUME Still, NEW f, NEW y, NEW k, Trails(f, eventQueue', y, k, uart', Now'), f[1] = g[1]
      PROVE  Kept
  BY <1>1, <1>2, <1>8, CreditBehind
<1>9. Still /\ UNCHANGED <<eventQueue, uart, Now>> => Kept
  BY <1>3, <1>8
<1>10. CASE UNCHANGED fusionVars
  BY <1>9, <1>10 DEF fusionVars, sessionVars, vars, firmwareVars, Now, loopVars, outcomeVars
<1>11. CASE \E c \in Customers : Approach(c) \/ Leave(c)
  <2>1. Still /\ UNCHANGED <<eventQueue, uart, Now>>
    BY <1>11 DEF Approach, Leave, sessionVars, vars, firmwareVars, Now, loopVars, outcomeVars
  <2> QED
    BY <1>9, <2>1
<1>12. CASE Checkout
  <2>1. PICK k : Trail(k, uart', Now') /\ k[1] = h[1]
    BY <1>3, <1>12, CheckoutSells DEF Trails
  <2>2. Still /\ eventQueue' = eventQueue
    BY <1>12 DEF Checkout, vars, loopVars, outcomeVars
  <2>3. Trails(g, eventQueue', x, k, uart', Now')
    BY <1>3, <2>1, <2>2 DEF Trails
  <2> QED
    BY <1>8, <2>2, <2>3
<1>13. CASE SerialRead
  <2>1. /\ Still /\ UNCHANGED Now /\ uart # <<>> /\ uart' = Tail(uart)
        /\ eventQueue' = Append(eventQueue, Head(uart))
    BY <1>13 DEF SerialRead, vars, firmwareVars, Now, loopVars, outcomeVars
  <2>2. /\ Trails(Append(g, h[2]), eventQueue', h[2], Tail(h), uart', Now')
        /\ Append(g, h[2])[1] = g[1]
    BY <1>3, <2>1, LineRead
  <2> QED
    BY <1>8, <2>1, <2>2
<1>14. CASE LoseCheckoutLine
  <2>1. /\ Still /\ UNCHANGED <<Now, eventQueue>> /\ uart # <<>> /\ uart' = Tail(uart)
        /\ Head(uart).kind \in Lossy /\ Lossy \subseteq {"COUNT", "PAY_DONE", "SUMMARY"}
    BY <1>14 DEF LoseCheckoutLine, LoseLine, EveryPaymentTold, vars, firmwareVars, Now, loopVars,
                 outcomeVars
  <2>2. Trails(g, eventQueue', x, Tail(h), uart', Now')
    BY <1>3, <2>1, LineLost
  <2> QED
    BY <1>8, <2>1, <2>2
<1>15. CASE ReceiveTransition
  <2>1. Still /\ UNCHANGED <<Now, uart>>
    BY <1>15 DEF ReceiveTransition, sessionVars, vars, firmwareVars, Now, loopVars, outcomeVars
  <2>2. CASE eventQueue' = eventQueue
    BY <1>9, <2>1, <2>2
  <2>3. CASE \E previous, current : eventQueue' = eventQueue \o Vision!PickDeltas(previous, current)
    <3>1. PICK P, p : /\ p \in Seq(P) /\ eventQueue' = eventQueue \o p
                      /\ \A e \in P : e.kind = "REMOVE_CANDIDATE"
      BY <2>3, PicksOnly
    <3>2. PICK f : Trail(f, eventQueue', x) /\ f[1] = g[1]
      BY <1>3, <3>1, TrailKeeps DEF Trails
    <3>3. Trails(f, eventQueue', x, h, uart', Now')
      BY <1>3, <2>1, <3>2 DEF Trails
    <3> QED
      BY <1>8, <2>1, <3>2, <3>3
  <2>4. Vision!ProcessTransition(Head(wire))
    BY <1>15 DEF ReceiveTransition
  <2> QED
    BY <2>2, <2>3, <2>4 DEF Vision!ProcessTransition
<1>16. CASE LoseTransition
  <2>1. Still /\ UNCHANGED <<eventQueue, uart, Now>>
    BY <1>16 DEF LoseTransition, sessionVars, vars, firmwareVars, Now, loopVars, outcomeVars
  <2> QED
    BY <1>9, <2>1
<1>17. CASE TakeSession
  <2>1. /\ UNCHANGED <<verdicts, mode, posVars, eventQueue, uart, Now>>
        /\ sessionQueue # <<>>
    BY <1>17 DEF TakeSession, sessionVars, vars, firmwareVars, Now, outcomeVars
  <2>2. CASE CustomerPos(Head(sessionQueue).customer)
    <3>1. Head(sessionQueue).customer \in Customers
      <4>1. Head(sessionQueue) \in Sessions
        BY <1>1, <2>1, TailOne DEF Queues
      <4> QED
        BY <4>1 DEF Sessions
    <3>2. /\ Accounts(verdicts', paidByCustomer', unassigned', activeCustomer')
          /\ \A i \in Items : Credited(verdicts', paidByCustomer', unassigned', i)
                                 <= Credited(verdicts, paidByCustomer, unassigned, i)
      BY <1>1, <2>1, <2>2, <3>1, PosCredits
    <3> QED
      BY <1>1, <1>2, <1>3, <2>1, <3>2, CreditUntouched
  <2>3. CASE CustomerExit(Head(sessionQueue))
    <3>1. Still
      BY <2>1, <2>3 DEF CustomerExit
    <3> QED
      BY <1>9, <2>1, <3>1
  <2> QED
    BY <1>17, <2>2, <2>3 DEF TakeSession
<1>18. CASE SessionsDrained \/ NoEvent
  <2>1. Still /\ UNCHANGED <<eventQueue, uart, Now>>
    BY <1>18 DEF SessionsDrained, NoEvent, sessionVars, vars, firmwareVars, Now, outcomeVars
  <2> QED
    BY <1>9, <2>1
<1>19. CASE JudgeExit
  <2>1. UNCHANGED <<mode, posVars, eventQueue, uart, Now>>
    BY <1>19 DEF JudgeExit, firmwareVars, Now
  <2>2. /\ Accounts(verdicts', paidByCustomer', unassigned', activeCustomer')
        /\ \A i \in Items : Credited(verdicts', paidByCustomer', unassigned', i)
                               <= Credited(verdicts, paidByCustomer, unassigned, i)
    BY <1>1, <1>19, JudgeCredits
  <2> QED
    BY <1>1, <1>2, <1>3, <2>1, <2>2, CreditUntouched
<1>20. CASE HandlePosEvent
  BY <1>1, <1>2, <1>20, CreditLine
<1>21. CASE HandlePick
  BY <1>1, <1>2, <1>21, CreditPick
<1>22. CASE Tick
  <2>1. UNCHANGED <<mode, posVars, eventQueue, uart, Now>>
    BY <1>22 DEF Tick, firmwareVars, Now
  <2>2. /\ Accounts(verdicts', paidByCustomer', unassigned', activeCustomer')
        /\ \A i \in Items : Credited(verdicts', paidByCustomer', unassigned', i)
                               <= Credited(verdicts, paidByCustomer, unassigned, i)
    BY <1>1, <1>22, TickCredits
  <2> QED
    BY <1>1, <1>2, <1>3, <2>1, <2>2, CreditUntouched
<1> HIDE DEF Kept
<1> QED
  BY <1>5, <1>10, <1>11, <1>12, <1>13, <1>14, <1>15, <1>16, <1>17, <1>18, <1>19, <1>20, <1>21, <1>22
     DEF FusionNext, LoopStep

(* What the judged exits used of a product is within what customers paid   *)
(* for: no payment clears two exits.                                       *)
THEOREM CreditsAreSales ==
    ASSUME EveryPaymentTold
    PROVE  FusionSpec => []CreditedWasSold
<1>1. Crediting => CreditedWasSold
  <2> SUFFICES ASSUME Crediting, NEW i \in Items
               PROVE  PaidInVerdicts(i) <= sold["CUSTOMER"][i]
    BY DEF CreditedWasSold
  <2>1. PICK g, x, h : Paying(g, x, h)
    BY DEF Crediting
  <2>2. Trail(g, eventQueue, x) /\ Skips(x, h[1]) /\ Trail(h, uart, Now)
    BY <2>1 DEF Paying, Trails
  <2>3. /\ g[1] \in Stamps /\ x \in Stamps /\ h[1] \in Stamps /\ Now \in Stamps
        /\ SoldBy(g[1], x) /\ SoldBy(x, h[1]) /\ SoldBy(h[1], Now)
    BY <2>2, TrailHead, SkipsStamp
  <2>4. SoldBy(g[1], Now)
    BY <2>3, SoldOn
  <2>5. /\ Due(g[1], committed, i) \in Int
        /\ Due(g[1], committed, i) <= g[1].sold["CUSTOMER"][i]
    BY <2>3, DueBounds
  <2>6. /\ g[1].sold["CUSTOMER"][i] \in Nat /\ sold["CUSTOMER"][i] \in Nat
        /\ g[1].sold["CUSTOMER"][i] <= sold["CUSTOMER"][i]
    <3>1. Now.sold = sold
      BY DEF Now, Stamp
    <3>2. g[1].sold["CUSTOMER"] \in Ledger /\ Now.sold["CUSTOMER"] \in Ledger
      BY <2>3, StampParts
    <3> QED
      BY <2>4, <3>1, <3>2 DEF SoldBy, Ledger
  <2>7. /\ Spent(verdicts, i) \in Nat /\ Held(paidByCustomer, i) \in Nat
        /\ unassigned.items[i] \in Nat
        /\ Credited(verdicts, paidByCustomer, unassigned, i) <= Due(g[1], committed, i)
    BY <2>1, CreditedNat DEF Crediting, EveryPaymentTold, Paying
  <2>8. PaidInVerdicts(i) = Spent(verdicts, i)
    BY DEF PaidInVerdicts, Spent
  <2> QED
    BY <2>5, <2>6, <2>7, <2>8 DEF Credited
<1>2. FusionInit => Crediting
  BY CreditInit
<1>3. Crediting /\ [FusionNext]_fusionVars => Crediting'
  BY CreditStep
<1> QED
  BY <1>1, <1>2, <1>3, PTL DEF FusionSpec

-----------------------------------------------------------------------------
(* Every verdict is right when nothing is late.  Vision's messages that    *)
(* are on the way and the sessions that wait form one line of places: a    *)
(* message is fresh until a tick has passed over it.                       *)

(* Each payment is told once at least, Vision is no later than the grace   *)
(* and loses nothing, and the loop is prompt.                              *)
Timely ==
    /\ EveryPaymentTold
    /\ Lossy \subseteq {"PAY_DONE"} \/ Lossy \subseteq {"SUMMARY"}
    /\ Prompt /\ Losses = 0 /\ Grace # 0
    /\ WireDelay = 0 \/ (WireDelay = 1 /\ Grace = 1)
    /\ NoCustomer \notin Customers
    /\ \A c \in Customers : PickSets[c] \subseteq Ledger

(* The messages still to be received: the first one may be a repetition.   *)
Coming == IF wire # <<>> /\ ~Vision!NotSeen(Head(wire)) THEN Tail(wire) ELSE wire

(* A place in the line: whose transition, and whether a tick has passed. *)
LinePlaces == [kind : {"POS", "EXIT"}, customer : Customers, fresh : BOOLEAN]
Place(k, c) == [kind |-> k, customer |-> c, fresh |-> TRUE]

(* L lists the sessions q and then the messages w. *)
Lists(L, q, w) ==
    /\ L \in Seq(LinePlaces) /\ Len(L) = Len(q) + Len(w)
    /\ \A n \in 1..Len(q) : L[n].kind = q[n].kind /\ L[n].customer = q[n].customer
    /\ \A n \in 1..Len(w) : /\ L[Len(q) + n].kind = w[n].state
                            /\ L[Len(q) + n].customer = w[n].customer
                            /\ w[n].age = 0 => L[Len(q) + n].fresh

(* What is left of a sequence without its head. *)
LEMMA TailPlaces ==
    ASSUME NEW S, NEW s \in Seq(S), s # <<>>
    PROVE  /\ Tail(s) \in Seq(S) /\ Len(s) \in Nat /\ Len(Tail(s)) \in Nat
           /\ Len(s) = Len(Tail(s)) + 1 /\ 1 \in 1..Len(s) /\ Head(s) = s[1] /\ s[1] \in S
           /\ \A n \in 1..Len(Tail(s)) : /\ n \in Nat /\ n + 1 \in 1..Len(s) /\ n + 1 # 1
                                         /\ Tail(s)[n] = s[n + 1] /\ s[n + 1] \in S
           /\ \A n \in 1..Len(s) : n # 1 => /\ n - 1 \in 1..Len(Tail(s))
                                            /\ s[n] = Tail(s)[n - 1]
<1>1. /\ Tail(s) \in Seq(S) /\ Len(s) \in Nat /\ Len(Tail(s)) \in Nat
      /\ Len(s) = Len(Tail(s)) + 1 /\ 1 \in 1..Len(s) /\ Head(s) = s[1] /\ s[1] \in S
  OBVIOUS
<1>2. ASSUME NEW n \in 1..Len(Tail(s))
      PROVE  /\ n \in Nat /\ n + 1 \in 1..Len(s) /\ n + 1 # 1
             /\ Tail(s)[n] = s[n + 1] /\ s[n + 1] \in S
  BY <1>1
<1>3. ASSUME NEW n \in 1..Len(s), n # 1
      PROVE  n - 1 \in 1..Len(Tail(s)) /\ s[n] = Tail(s)[n - 1]
  <2>1. n - 1 \in 1..Len(Tail(s)) /\ (n - 1) + 1 = n
    BY <1>1, <1>3
  <2>2. Tail(s)[n - 1] = s[(n - 1) + 1]
    BY <1>2, <2>1
  <2> QED
    BY <2>1, <2>2
<1> QED
  BY <1>1, <1>2, <1>3

(* A sequence with one more element at its end. *)
LEMMA AppendPlaces ==
    ASSUME NEW S, NEW s \in Seq(S), NEW e \in S
    PROVE  /\ Append(s, e) \in Seq(S) /\ Len(s) \in Nat /\ Len(Append(s, e)) = Len(s) + 1
           /\ Append(s, e)[Len(s) + 1] = e /\ Len(s) + 1 \in 1..Len(Append(s, e))
           /\ \A n \in 1..Len(s) : /\ Append(s, e)[n] = s[n] /\ n # Len(s) + 1 /\ n < Len(s) + 1
                                   /\ n \in 1..Len(Append(s, e))
           /\ \A n \in 1..Len(Append(s, e)) : n \in 1..Len(s) \/ n = Len(s) + 1
  OBVIOUS

(* Vision publishes a message. *)
LEMMA ListsPublish ==
    ASSUME NEW q \in Seq(Sessions), NEW w \in Seq(Messages), NEW L, Lists(L, q, w),
           NEW m \in Messages
    PROVE  Lists(Append(L, Place(m.state, m.customer)), q, Append(w, m))
<1> DEFINE p == Place(m.state, m.customer)
           M == Append(L, p)
           v == Append(w, m)
<1>1. p \in LinePlaces /\ p.kind = m.state /\ p.customer = m.customer /\ p.fresh
  BY DEF Place, LinePlaces, Messages
<1> HIDE DEF p
<1>2. /\ M \in Seq(LinePlaces) /\ Len(L) \in Nat /\ Len(M) = Len(L) + 1 /\ M[Len(L) + 1] = p
      /\ \A n \in 1..Len(L) : M[n] = L[n]
  BY <1>1, AppendPlaces DEF Lists
<1>3. /\ Len(w) \in Nat /\ Len(v) = Len(w) + 1 /\ v[Len(w) + 1] = m
      /\ \A n \in 1..Len(w) : v[n] = w[n]
  BY AppendPlaces
<1>4. Len(q) \in Nat /\ Len(L) = Len(q) + Len(w)
  BY DEF Lists
<1> HIDE DEF M, v
<1>5. ASSUME NEW n \in 1..Len(q) PROVE M[n].kind = q[n].kind /\ M[n].customer = q[n].customer
  <2>1. n \in 1..Len(L)
    BY <1>3, <1>4
  <2> QED
    BY <1>2, <2>1 DEF Lists
<1>6. ASSUME NEW n \in 1..Len(v)
      PROVE  /\ M[Len(q) + n].kind = v[n].state /\ M[Len(q) + n].customer = v[n].customer
             /\ v[n].age = 0 => M[Len(q) + n].fresh
  <2>1. CASE n \in 1..Len(w)
    <3>1. Len(q) + n \in 1..Len(L)
      BY <1>3, <1>4, <2>1
    <3>2. M[Len(q) + n] = L[Len(q) + n] /\ v[n] = w[n]
      BY <1>2, <1>3, <2>1, <3>1
    <3> QED
      BY <2>1, <3>2 DEF Lists
  <2>2. CASE n = Len(w) + 1
    <3>1. Len(q) + n = Len(L) + 1
      BY <1>3, <1>4, <2>2
    <3> QED
      BY <1>1, <1>2, <1>3, <2>2, <3>1
  <2> QED
    BY <1>3, <2>1, <2>2
<1>7. Lists(M, q, v)
  BY <1>2, <1>3, <1>4, <1>5, <1>6 DEF Lists
<1> QED
  BY <1>7 DEF M, p, v

(* The subscriber queues the first message: the line stays as it is. *)
LEMMA ListsReceive ==
    ASSUME NEW q \in Seq(Sessions), NEW w \in Seq(Messages), NEW L, Lists(L, q, w), w # <<>>,
           NEW s \in Sessions, s.kind = Head(w).state, s.customer = Head(w).customer
    PROVE  Lists(L, Append(q, s), Tail(w))
<1> DEFINE r == Append(q, s)
           v == Tail(w)
<1>1. /\ Len(q) \in Nat /\ Len(r) = Len(q) + 1 /\ r[Len(q) + 1] = s
      /\ \A n \in 1..Len(q) : r[n] = q[n]
      /\ \A n \in 1..Len(r) : n \in 1..Len(q) \/ n = Len(q) + 1
  BY AppendPlaces
<1>2. /\ Len(v) \in Nat /\ Len(w) = Len(v) + 1 /\ Head(w) = w[1] /\ 1 \in 1..Len(w)
      /\ \A n \in 1..Len(v) : n \in Nat /\ n + 1 \in 1..Len(w) /\ v[n] = w[n + 1]
  BY TailPlaces
<1> HIDE DEF r, v
<1>3. Len(L) = Len(r) + Len(v)
  BY <1>1, <1>2 DEF Lists
<1>4. ASSUME NEW n \in 1..Len(r) PROVE L[n].kind = r[n].kind /\ L[n].customer = r[n].customer
  <2>1. CASE n \in 1..Len(q)
    BY <1>1, <2>1 DEF Lists
  <2>2. CASE n = Len(q) + 1
    BY <1>1, <1>2, <2>2 DEF Lists
  <2> QED
    BY <1>1, <2>1, <2>2
<1>5. ASSUME NEW n \in 1..Len(v)
      PROVE  /\ L[Len(r) + n].kind = v[n].state /\ L[Len(r) + n].customer = v[n].customer
             /\ v[n].age = 0 => L[Len(r) + n].fresh
  <2>1. Len(r) + n = Len(q) + (n + 1) /\ n + 1 \in 1..Len(w) /\ v[n] = w[n + 1]
    BY <1>1, <1>2
  <2> QED
    BY <2>1 DEF Lists
<1>6. Lists(L, r, v)
  BY <1>3, <1>4, <1>5 DEF Lists
<1> QED
  BY <1>6 DEF r, v

(* The loop takes the first session. *)
LEMMA ListsTake ==
    ASSUME NEW q \in Seq(Sessions), NEW w \in Seq(Messages), NEW L, Lists(L, q, w), q # <<>>
    PROVE  /\ Lists(Tail(L), Tail(q), w) /\ L # <<>>
           /\ Head(L).kind = Head(q).kind /\ Head(L).customer = Head(q).customer
<1>1. L \in Seq(LinePlaces) /\ Len(L) = Len(q) + Len(w) /\ Len(w) \in Nat
  BY DEF Lists
<1> DEFINE r == Tail(q)
           M == Tail(L)
<1>2. /\ Len(r) \in Nat /\ Len(q) = Len(r) + 1 /\ Head(q) = q[1] /\ 1 \in 1..Len(q)
      /\ \A n \in 1..Len(r) : n \in Nat /\ n + 1 \in 1..Len(q) /\ r[n] = q[n + 1]
  BY TailPlaces
<1>3. L # <<>>
  BY <1>1, <1>2
<1>4. /\ M \in Seq(LinePlaces) /\ Len(M) \in Nat /\ Len(L) = Len(M) + 1 /\ Head(L) = L[1]
      /\ \A n \in 1..Len(M) : n \in Nat /\ M[n] = L[n + 1]
  BY <1>1, <1>3, TailPlaces
<1> HIDE DEF r, M
<1>5. Len(M) = Len(r) + Len(w)
  BY <1>1, <1>2, <1>4
<1>6. ASSUME NEW n \in 1..Len(r) PROVE M[n].kind = r[n].kind /\ M[n].customer = r[n].customer
  <2>1. n \in 1..Len(M)
    BY <1>1, <1>2, <1>5
  <2> QED
    BY <1>2, <1>4, <2>1 DEF Lists
<1>7. ASSUME NEW n \in 1..Len(w)
      PROVE  /\ M[Len(r) + n].kind = w[n].state /\ M[Len(r) + n].customer = w[n].customer
             /\ w[n].age = 0 => M[Len(r) + n].fresh
  <2>1. Len(r) + n \in 1..Len(M) /\ (Len(r) + n) + 1 = Len(q) + n
    BY <1>1, <1>2, <1>5
  <2>2. M[Len(r) + n] = L[Len(q) + n]
    BY <1>4, <2>1
  <2> QED
    BY <2>2 DEF Lists
<1>8. Lists(M, r, w)
  BY <1>4, <1>5, <1>6, <1>7 DEF Lists
<1>9. Head(L).kind = Head(q).kind /\ Head(L).customer = Head(q).customer
  BY <1>2, <1>4 DEF Lists
<1> QED
  BY <1>3, <1>8, <1>9 DEF r, M

(* Time passes over the messages. *)
Stale(L) == [n \in 1..Len(L) |-> [L[n] EXCEPT !.fresh = FALSE]]

(* Time changes nothing of a place but its freshness. *)
LEMMA StalePlaces ==
    ASSUME NEW L \in Seq(LinePlaces)
    PROVE  /\ Stale(L) \in Seq(LinePlaces) /\ Len(Stale(L)) = Len(L)
           /\ \A n \in 1..Len(L) : /\ Stale(L)[n].kind = L[n].kind /\ ~Stale(L)[n].fresh
                                   /\ Stale(L)[n].customer = L[n].customer
<1>1. \A n \in 1..Len(L) : L[n] \in LinePlaces
  OBVIOUS
<1>2. ASSUME NEW n \in 1..Len(L)
      PROVE  /\ Stale(L)[n] \in LinePlaces /\ Stale(L)[n].kind = L[n].kind /\ ~Stale(L)[n].fresh
             /\ Stale(L)[n].customer = L[n].customer
  BY <1>1 DEF Stale, LinePlaces
<1>3. Stale(L) \in [1..Len(L) -> LinePlaces]
  BY <1>2 DEF Stale
<1> QED
  BY <1>2, <1>3, IsASeq, LenProperties

(* Time passes when the session queue is empty and every message is fresh. *)
LEMMA ListsTick ==
    ASSUME NEW w \in Seq(Messages), NEW L, Lists(L, <<>>, w), NEW v \in Seq(Messages),
           Len(v) = Len(w),
           \A n \in 1..Len(w) : /\ v[n].state = w[n].state /\ v[n].customer = w[n].customer
                                /\ w[n].age = 0 /\ v[n].age # 0
    PROVE  /\ Lists(Stale(L), <<>>, v)
           /\ \A n \in 1..Len(L) : L[n].fresh
<1>1. Len(<<>>) = 0 /\ 1..0 = {} /\ Len(w) \in Nat
  OBVIOUS
<1>2. L \in Seq(LinePlaces) /\ Len(L) = Len(w)
  BY <1>1 DEF Lists
<1>3. \A n \in 1..Len(w) : /\ L[n].kind = w[n].state /\ L[n].customer = w[n].customer
                           /\ L[n].fresh
  <2> TAKE n \in 1..Len(w)
  <2>1. Len(<<>>) + n = n
    BY <1>1
  <2> QED
    BY <2>1 DEF Lists
<1>4. /\ Stale(L) \in Seq(LinePlaces) /\ Len(Stale(L)) = Len(w)
      /\ \A n \in 1..Len(w) : /\ Stale(L)[n].kind = w[n].state
                              /\ Stale(L)[n].customer = w[n].customer
  BY <1>2, <1>3, StalePlaces
<1>5. \A n \in 1..Len(v) : /\ Stale(L)[Len(<<>>) + n].kind = v[n].state
                           /\ Stale(L)[Len(<<>>) + n].customer = v[n].customer
                           /\ v[n].age = 0 => Stale(L)[Len(<<>>) + n].fresh
  <2> TAKE n \in 1..Len(v)
  <2>1. Len(<<>>) + n = n
    BY <1>1
  <2> QED
    BY <1>4, <2>1
<1>6. Lists(Stale(L), <<>>, v)
  BY <1>1, <1>4, <1>5 DEF Lists
<1> QED
  BY <1>2, <1>3, <1>6
-----------------------------------------------------------------------------
(* The order of the line: who is gone has an EXIT, and it comes after POS. *)

(* Customer c has a place of kind k. *)
At(L, k, c) == \E n \in 1..Len(L) : L[n].kind = k /\ L[n].customer = c

(* Each transition has one place, and the places are those of the store. *)
Ordered(L, gone, visited) ==
    /\ \A n, k \in 1..Len(L) :
           L[n].kind = L[k].kind /\ L[n].customer = L[k].customer => n = k
    /\ \A n \in 1..Len(L) : L[n].kind = "POS" => L[n].customer \in visited
    /\ \A n \in 1..Len(L) : L[n].kind = "EXIT" => L[n].customer \in gone
    /\ \A n, k \in 1..Len(L) :
           L[n].kind = "POS" /\ L[k].kind = "EXIT" /\ L[n].customer = L[k].customer => n < k
    /\ \A n \in 1..Len(L) :
           L[n].kind = "POS" /\ L[n].customer \in gone => At(L, "EXIT", L[n].customer)

(* A customer comes to the kiosk. *)
LEMMA OrderedPos ==
    ASSUME NEW L \in Seq(LinePlaces), NEW gone, NEW visited, Ordered(L, gone, visited),
           NEW c \in Customers, c \notin visited, c \notin gone
    PROVE  Ordered(Append(L, Place("POS", c)), gone, visited \union {c})
<1> DEFINE p == Place("POS", c)
           M == Append(L, p)
<1>1. p \in LinePlaces /\ p.kind = "POS" /\ p.customer = c
  BY DEF Place, LinePlaces
<1>2. /\ Len(L) \in Nat /\ Len(M) = Len(L) + 1 /\ M[Len(L) + 1] = p
      /\ \A n \in 1..Len(L) : M[n] = L[n] /\ n < Len(L) + 1 /\ n \in 1..Len(M)
      /\ \A n \in 1..Len(M) : n \in 1..Len(L) \/ n = Len(L) + 1
  BY <1>1, AppendPlaces
<1> HIDE DEF p, M
<1>3. \A n \in 1..Len(L) : L[n].kind \in {"POS", "EXIT"} => L[n].customer # c
  BY DEF Ordered
<1>4. \A n, k \in 1..Len(M) : M[n].kind = M[k].kind /\ M[n].customer = M[k].customer => n = k
  BY <1>1, <1>2, <1>3 DEF Ordered
<1>5. \A n \in 1..Len(M) : M[n].kind = "POS" => M[n].customer \in visited \union {c}
  BY <1>1, <1>2 DEF Ordered
<1>6. \A n \in 1..Len(M) : M[n].kind = "EXIT" => M[n].customer \in gone
  BY <1>1, <1>2 DEF Ordered
<1>7. \A n, k \in 1..Len(M) :
          M[n].kind = "POS" /\ M[k].kind = "EXIT" /\ M[n].customer = M[k].customer => n < k
  BY <1>1, <1>2, <1>3 DEF Ordered
<1>8. ASSUME NEW n \in 1..Len(M), M[n].kind = "POS", M[n].customer \in gone
      PROVE  At(M, "EXIT", M[n].customer)
  <2>1. n \in 1..Len(L) /\ M[n] = L[n]
    BY <1>1, <1>2, <1>8
  <2>2. PICK k \in 1..Len(L) : L[k].kind = "EXIT" /\ L[k].customer = L[n].customer
    BY <1>8, <2>1 DEF Ordered, At
  <2> QED
    BY <1>2, <2>1, <2>2 DEF At
<1> QED
  BY <1>4, <1>5, <1>6, <1>7, <1>8 DEF Ordered, M, p

(* A customer leaves. *)
LEMMA OrderedExit ==
    ASSUME NEW L \in Seq(LinePlaces), NEW gone, NEW visited, Ordered(L, gone, visited),
           NEW c \in Customers, c \notin gone
    PROVE  Ordered(Append(L, Place("EXIT", c)), gone \union {c}, visited)
<1> DEFINE p == Place("EXIT", c)
           M == Append(L, p)
<1>1. p \in LinePlaces /\ p.kind = "EXIT" /\ p.customer = c
  BY DEF Place, LinePlaces
<1>2. /\ Len(L) \in Nat /\ Len(M) = Len(L) + 1 /\ M[Len(L) + 1] = p
      /\ Len(L) + 1 \in 1..Len(M)
      /\ \A n \in 1..Len(L) : M[n] = L[n] /\ n < Len(L) + 1 /\ n \in 1..Len(M)
      /\ \A n \in 1..Len(M) : n \in 1..Len(L) \/ n = Len(L) + 1
  BY <1>1, AppendPlaces
<1> HIDE DEF p, M
<1>3. \A n \in 1..Len(L) : L[n].kind = "EXIT" => L[n].customer # c
  BY DEF Ordered
<1>4. \A n, k \in 1..Len(M) : M[n].kind = M[k].kind /\ M[n].customer = M[k].customer => n = k
  BY <1>1, <1>2, <1>3 DEF Ordered
<1>5. \A n \in 1..Len(M) : M[n].kind = "POS" => M[n].customer \in visited
  BY <1>1, <1>2 DEF Ordered
<1>6. \A n \in 1..Len(M) : M[n].kind = "EXIT" => M[n].customer \in gone \union {c}
  BY <1>1, <1>2 DEF Ordered
<1>7. \A n, k \in 1..Len(M) :
          M[n].kind = "POS" /\ M[k].kind = "EXIT" /\ M[n].customer = M[k].customer => n < k
  BY <1>1, <1>2, <1>3 DEF Ordered
<1>8. ASSUME NEW n \in 1..Len(M), M[n].kind = "POS", M[n].customer \in gone \union {c}
      PROVE  At(M, "EXIT", M[n].customer)
  <2>1. n \in 1..Len(L) /\ M[n] = L[n]
    BY <1>1, <1>2, <1>8
  <2>2. CASE M[n].customer = c
    BY <1>1, <1>2, <2>2 DEF At
  <2>3. CASE M[n].customer \in gone
    <3>1. PICK k \in 1..Len(L) : L[k].kind = "EXIT" /\ L[k].customer = L[n].customer
      BY <1>8, <2>1, <2>3 DEF Ordered, At
    <3> QED
      BY <1>2, <2>1, <3>1 DEF At
  <2> QED
    BY <1>8, <2>2, <2>3
<1> QED
  BY <1>4, <1>5, <1>6, <1>7, <1>8 DEF Ordered, M, p

(* The loop takes the first place. *)
LEMMA OrderedTail ==
    ASSUME NEW L \in Seq(LinePlaces), L # <<>>, NEW gone, NEW visited, Ordered(L, gone, visited)
    PROVE  Ordered(Tail(L), gone, visited)
<1> DEFINE M == Tail(L)
<1>1. /\ \A n \in 1..Len(M) : /\ n \in Nat /\ n + 1 \in 1..Len(L) /\ M[n] = L[n + 1]
      /\ \A n \in 1..Len(L) : n # 1 => n - 1 \in 1..Len(M) /\ L[n] = M[n - 1]
  BY TailPlaces
<1> HIDE DEF M
<1>2. ASSUME NEW n \in 1..Len(M), NEW k \in 1..Len(M),
             M[n].kind = M[k].kind, M[n].customer = M[k].customer
      PROVE  n = k
  <2>1. /\ n + 1 \in 1..Len(L) /\ k + 1 \in 1..Len(L)
        /\ M[n] = L[n + 1] /\ M[k] = L[k + 1] /\ n \in Nat /\ k \in Nat
    BY <1>1
  <2>2. n + 1 = k + 1
    BY <1>2, <2>1 DEF Ordered
  <2> QED
    BY <2>1, <2>2
<1>3. \A n \in 1..Len(M) : M[n].kind = "POS" => M[n].customer \in visited
  BY <1>1 DEF Ordered
<1>4. ASSUME NEW n \in 1..Len(M), M[n].kind = "EXIT" PROVE M[n].customer \in gone
  <2>1. n + 1 \in 1..Len(L) /\ M[n] = L[n + 1]
    BY <1>1
  <2> QED
    BY <1>4, <2>1 DEF Ordered
<1>5. ASSUME NEW n \in 1..Len(M), NEW k \in 1..Len(M),
             M[n].kind = "POS", M[k].kind = "EXIT", M[n].customer = M[k].customer
      PROVE  n < k
  <2>1. /\ n + 1 \in 1..Len(L) /\ k + 1 \in 1..Len(L)
        /\ M[n] = L[n + 1] /\ M[k] = L[k + 1] /\ n \in Nat /\ k \in Nat
    BY <1>1
  <2>2. n + 1 < k + 1
    BY <1>5, <2>1 DEF Ordered
  <2> QED
    BY <2>1, <2>2
<1>6. ASSUME NEW n \in 1..Len(M), M[n].kind = "POS", M[n].customer \in gone
      PROVE  At(M, "EXIT", M[n].customer)
  <2>1. n \in Nat /\ n + 1 \in 1..Len(L) /\ M[n] = L[n + 1]
    BY <1>1
  <2>2. PICK k \in 1..Len(L) : L[k].kind = "EXIT" /\ L[k].customer = L[n + 1].customer
    BY <1>6, <2>1 DEF Ordered, At
  <2>3. n + 1 < k /\ k # 1
    BY <1>6, <2>1, <2>2 DEF Ordered
  <2>4. k - 1 \in 1..Len(M) /\ L[k] = M[k - 1]
    BY <1>1, <2>3
  <2> QED
    BY <2>1, <2>2, <2>4 DEF At
<1> QED
  BY <1>2, <1>3, <1>4, <1>5, <1>6 DEF Ordered, M

(* Time passes. *)
LEMMA OrderedStale ==
    ASSUME NEW L \in Seq(LinePlaces), NEW gone, NEW visited, Ordered(L, gone, visited)
    PROVE  Ordered(Stale(L), gone, visited)
<1> DEFINE M == Stale(L)
<1>1. /\ Len(M) = Len(L)
      /\ \A n \in 1..Len(L) : M[n].kind = L[n].kind /\ M[n].customer = L[n].customer
  BY StalePlaces
<1> HIDE DEF M
<1>2. \A n, k \in 1..Len(M) : M[n].kind = M[k].kind /\ M[n].customer = M[k].customer => n = k
  BY <1>1 DEF Ordered
<1>3. /\ \A n \in 1..Len(M) : M[n].kind = "POS" => M[n].customer \in visited
      /\ \A n \in 1..Len(M) : M[n].kind = "EXIT" => M[n].customer \in gone
  BY <1>1 DEF Ordered
<1>4. \A n, k \in 1..Len(M) :
          M[n].kind = "POS" /\ M[k].kind = "EXIT" /\ M[n].customer = M[k].customer => n < k
  BY <1>1 DEF Ordered
<1>5. ASSUME NEW n \in 1..Len(M), M[n].kind = "POS", M[n].customer \in gone
      PROVE  At(M, "EXIT", M[n].customer)
  <2>1. PICK k \in 1..Len(L) : L[k].kind = "EXIT" /\ L[k].customer = L[n].customer
    BY <1>1, <1>5 DEF Ordered, At
  <2> QED
    BY <1>1, <1>5, <2>1 DEF At
<1>6. Ordered(M, gone, visited)
  BY <1>2, <1>3, <1>4, <1>5 DEF Ordered
<1> QED
  BY <1>6 DEF M

-----------------------------------------------------------------------------
(* Who is called next.  The last customer in the line is the one of the    *)
(* last POS, or the active customer when no POS is left.                   *)
Last(L, active, c) ==
    \/ \E k \in 1..Len(L) : /\ L[k].kind = "POS" /\ L[k].customer = c
                            /\ \A n \in 1..Len(L) : k < n => L[n].kind # "POS"
    \/ (\A n \in 1..Len(L) : L[n].kind # "POS") /\ active = c

(* No other customer's POS is in the line. *)
Only(L, c) == \A n \in 1..Len(L) : L[n].kind = "POS" => L[n].customer = c

(* Nobody else is active, or it ends before the next event. *)
Ending(e, c) == \E n \in 1..Len(e) : e[n].session.customer = c /\ e[n].due = 0
Free(active, e, c) == active = NoCustomer \/ active = c \/ Ending(e, active)

(* A customer leaves: the last one called stays the same. *)
LEMMA LastExit ==
    ASSUME NEW L \in Seq(LinePlaces), NEW active, NEW c, Last(L, active, c), NEW d \in Customers
    PROVE  Last(Append(L, Place("EXIT", d)), active, c)
<1> DEFINE p == Place("EXIT", d)
           M == Append(L, p)
<1>1. p \in LinePlaces /\ p.kind = "EXIT"
  BY DEF Place, LinePlaces
<1>2. /\ Len(L) \in Nat /\ M[Len(L) + 1] = p
      /\ \A n \in 1..Len(L) : M[n] = L[n] /\ n \in 1..Len(M)
      /\ \A n \in 1..Len(M) : n \in 1..Len(L) \/ n = Len(L) + 1
  BY <1>1, AppendPlaces
<1> HIDE DEF p, M
<1>3. CASE \E k \in 1..Len(L) : /\ L[k].kind = "POS" /\ L[k].customer = c
                                /\ \A n \in 1..Len(L) : k < n => L[n].kind # "POS"
  <2>1. PICK k \in 1..Len(L) : /\ L[k].kind = "POS" /\ L[k].customer = c
                               /\ \A n \in 1..Len(L) : k < n => L[n].kind # "POS"
    BY <1>3
  <2>2. k \in 1..Len(M) /\ M[k] = L[k]
    BY <1>2
  <2>3. \A n \in 1..Len(M) : k < n => M[n].kind # "POS"
    BY <1>1, <1>2, <2>1
  <2>4. Last(M, active, c)
    BY <2>1, <2>2, <2>3 DEF Last
  <2> QED
    BY <2>4 DEF M, p
<1>4. CASE (\A n \in 1..Len(L) : L[n].kind # "POS") /\ active = c
  <2>1. \A n \in 1..Len(M) : M[n].kind # "POS"
    BY <1>1, <1>2, <1>4
  <2>2. Last(M, active, c)
    BY <1>4, <2>1 DEF Last
  <2> QED
    BY <2>2 DEF M, p
<1> QED
  BY <1>3, <1>4 DEF Last

(* A customer comes to the kiosk, and is the last one called. *)
LEMMA LastPos ==
    ASSUME NEW L \in Seq(LinePlaces), NEW active, NEW c \in Customers
    PROVE  Last(Append(L, Place("POS", c)), active, c)
<1> DEFINE p == Place("POS", c)
           M == Append(L, p)
<1>1. p \in LinePlaces /\ p.kind = "POS" /\ p.customer = c
  BY DEF Place, LinePlaces
<1>2. /\ Len(L) \in Nat /\ M[Len(L) + 1] = p /\ Len(L) + 1 \in 1..Len(M)
      /\ Len(M) = Len(L) + 1
  BY <1>1, AppendPlaces
<1> HIDE DEF p, M
<1>3. \A n \in 1..Len(M) : ~(Len(L) + 1 < n)
  BY <1>2
<1>4. Last(M, active, c)
  BY <1>1, <1>2, <1>3 DEF Last
<1> QED
  BY <1>4 DEF M, p

(* The loop takes the first place and makes a POS the active customer. *)
LEMMA LastTail ==
    ASSUME NEW L \in Seq(LinePlaces), L # <<>>, NEW active, NEW next, NEW c, Last(L, active, c),
           Head(L).kind = "POS" => next = Head(L).customer,
           Head(L).kind # "POS" => next = active
    PROVE  Last(Tail(L), next, c)
<1> DEFINE M == Tail(L)
<1>1. /\ 1 \in 1..Len(L) /\ Head(L) = L[1] /\ Len(L) \in Nat
      /\ \A n \in 1..Len(M) : /\ n \in Nat /\ n + 1 \in 1..Len(L) /\ M[n] = L[n + 1]
      /\ \A n \in 1..Len(L) : n # 1 => n - 1 \in 1..Len(M) /\ L[n] = M[n - 1]
  BY TailPlaces
<1> HIDE DEF M
<1>2. CASE \E k \in 1..Len(L) : /\ L[k].kind = "POS" /\ L[k].customer = c
                                /\ \A n \in 1..Len(L) : k < n => L[n].kind # "POS"
  <2>1. PICK k \in 1..Len(L) : /\ L[k].kind = "POS" /\ L[k].customer = c
                               /\ \A n \in 1..Len(L) : k < n => L[n].kind # "POS"
    BY <1>2
  <2>2. CASE k = 1
    <3>1. \A n \in 1..Len(M) : M[n].kind # "POS"
      <4> TAKE n \in 1..Len(M)
      <4>1. n + 1 \in 1..Len(L) /\ M[n] = L[n + 1] /\ 1 < n + 1
        BY <1>1
      <4> QED
        BY <2>1, <2>2, <4>1
    <3>2. next = c
      BY <1>1, <2>1, <2>2
    <3> QED
      BY <3>1, <3>2 DEF Last, M
  <2>3. CASE k # 1
    <3>1. k - 1 \in 1..Len(M) /\ L[k] = M[k - 1]
      BY <1>1, <2>3
    <3>2. \A n \in 1..Len(M) : k - 1 < n => M[n].kind # "POS"
      <4> TAKE n \in 1..Len(M)
      <4>1. n + 1 \in 1..Len(L) /\ M[n] = L[n + 1] /\ (k - 1 < n => k < n + 1)
        BY <1>1
      <4> QED
        BY <2>1, <4>1
    <3> QED
      BY <2>1, <3>1, <3>2 DEF Last, M
  <2> QED
    BY <2>2, <2>3
<1>3. CASE (\A n \in 1..Len(L) : L[n].kind # "POS") /\ active = c
  <2>1. \A n \in 1..Len(M) : M[n].kind # "POS"
    BY <1>1, <1>3
  <2>2. next = c
    BY <1>1, <1>3
  <2> QED
    BY <2>1, <2>2 DEF Last, M
<1> QED
  BY <1>2, <1>3 DEF Last

(* Time passes: the last one called stays the same. *)
LEMMA LastStale ==
    ASSUME NEW L \in Seq(LinePlaces), NEW active, NEW c, Last(L, active, c)
    PROVE  Last(Stale(L), active, c)
  BY StalePlaces DEF Last

(* There is one last customer. *)
LEMMA LastOne ==
    ASSUME NEW L \in Seq(LinePlaces), NEW active, NEW c, Last(L, active, c),
           NEW d, Last(L, active, d)
    PROVE  c = d
<1>1. CASE \A n \in 1..Len(L) : L[n].kind # "POS"
  BY <1>1 DEF Last
<1>2. CASE ~ \A n \in 1..Len(L) : L[n].kind # "POS"
  <2>1. PICK k \in 1..Len(L) : /\ L[k].kind = "POS" /\ L[k].customer = c
                               /\ \A n \in 1..Len(L) : k < n => L[n].kind # "POS"
    BY <1>2 DEF Last
  <2>2. PICK m \in 1..Len(L) : /\ L[m].kind = "POS" /\ L[m].customer = d
                               /\ \A n \in 1..Len(L) : m < n => L[n].kind # "POS"
    BY <1>2 DEF Last
  <2>3. k = m
    BY <2>1, <2>2
  <2> QED
    BY <2>1, <2>2, <2>3
<1> QED
  BY <1>1, <1>2

(* A customer leaves: no POS is added. *)
LEMMA OnlyExit ==
    ASSUME NEW L \in Seq(LinePlaces), NEW c, Only(L, c), NEW d \in Customers
    PROVE  Only(Append(L, Place("EXIT", d)), c)
<1>1. Place("EXIT", d) \in LinePlaces /\ Place("EXIT", d).kind = "EXIT"
  BY DEF Place, LinePlaces
<1> QED
  BY <1>1, AppendPlaces DEF Only

(* The loop takes the first place. *)
LEMMA OnlyTail ==
    ASSUME NEW L \in Seq(LinePlaces), L # <<>>, NEW c, Only(L, c)
    PROVE  Only(Tail(L), c) /\ (Head(L).kind = "POS" => Head(L).customer = c)
  BY TailPlaces DEF Only
-----------------------------------------------------------------------------
(* The store: one customer at a time is at the kiosk, whoever was there    *)
(* has left when the next one comes, and DONE comes after that.            *)
Gone == {c \in Customers : stage[c] = "left"}

(* Who may be where, and who has paid nothing yet. *)
Store ==
    /\ stage \in [Customers -> {"shopping", "kiosk", "paid", "left"}]
    /\ waited \in BOOLEAN
    /\ visitedPos \subseteq AtKiosk \union Gone /\ AtKiosk \subseteq visitedPos
    /\ \A c, d \in AtKiosk : c = d
    /\ truePaid \in [Customers -> Ledger]
    /\ \A c \in Customers : stage[c] \in {"shopping", "kiosk"} => truePaid[c] = Zero

(* Nobody is at the kiosk and gone. *)
LEMMA StoreSets ==
    ASSUME Store
    PROVE  /\ AtKiosk \intersect Gone = {} /\ AtKiosk \subseteq Customers /\ Gone \subseteq Customers
           /\ visitedPos \subseteq Customers
  BY DEF Store, AtKiosk, Gone

(* The store is empty at first. *)
LEMMA StoreInit == FusionInit => Store
<1> SUFFICES ASSUME FusionInit PROVE Store
  OBVIOUS
<1>1. /\ stage = [c \in Customers |-> "shopping"] /\ waited = TRUE /\ visitedPos = {}
      /\ truePaid = [c \in Customers |-> Zero]
  BY DEF FusionInit
<1>2. AtKiosk = {}
  BY <1>1 DEF AtKiosk
<1> QED
  BY <1>1, <1>2, LedgerFacts DEF Store

(* A customer comes to the kiosk, which is free. *)
LEMMA ApproachStore ==
    ASSUME Store, NEW c \in Customers, Approach(c)
    PROVE  /\ Store' /\ AtKiosk = {} /\ AtKiosk' = {c} /\ Gone' = Gone
           /\ c \notin Gone /\ c \notin visitedPos /\ visitedPos' = visitedPos \union {c}
           /\ waited /\ ~waited' /\ truePaid' = truePaid
<1>1. /\ stage[c] = "shopping" /\ AtKiosk = {} /\ waited /\ waited' = FALSE
      /\ stage' = [stage EXCEPT ![c] = "kiosk"]
      /\ visitedPos' = visitedPos \union {c} /\ truePaid' = truePaid
  BY DEF Approach
<1>2. /\ stage \in [Customers -> {"shopping", "kiosk", "paid", "left"}]
      /\ truePaid \in [Customers -> Ledger] /\ visitedPos \subseteq AtKiosk \union Gone
      /\ \A d \in Customers : stage[d] \in {"shopping", "kiosk"} => truePaid[d] = Zero
  BY DEF Store
<1>3. /\ stage' \in [Customers -> {"shopping", "kiosk", "paid", "left"}] /\ stage'[c] = "kiosk"
      /\ \A d \in Customers : d # c => stage'[d] = stage[d]
  BY <1>1, <1>2
<1>4. Gone' = Gone
  BY <1>1, <1>3 DEF Gone
<1>5. AtKiosk' = {c}
  BY <1>1, <1>3 DEF AtKiosk
<1>6. c \notin Gone /\ c \notin visitedPos
  BY <1>1, <1>2 DEF Gone
<1>7. visitedPos' \subseteq AtKiosk' \union Gone' /\ AtKiosk' \subseteq visitedPos'
  BY <1>1, <1>2, <1>4, <1>5
<1>8. Store'
  BY <1>1, <1>2, <1>3, <1>5, <1>7 DEF Store
<1> QED
  BY <1>1, <1>4, <1>5, <1>6, <1>8

(* A customer leaves the store. *)
LEMMA LeaveStore ==
    ASSUME Store, NEW c \in Customers, Leave(c)
    PROVE  /\ Store' /\ AtKiosk' = AtKiosk \ {c} /\ Gone' = Gone \union {c}
           /\ c \notin Gone /\ waited' = (waited /\ c \notin AtKiosk)
           /\ visitedPos' = visitedPos /\ truePaid' = truePaid
<1>1. /\ stage[c] # "left" /\ stage' = [stage EXCEPT ![c] = "left"]
      /\ waited' = (waited /\ c \notin AtKiosk)
      /\ visitedPos' = visitedPos /\ truePaid' = truePaid
  BY DEF Leave
<1>2. /\ stage \in [Customers -> {"shopping", "kiosk", "paid", "left"}]
      /\ truePaid \in [Customers -> Ledger] /\ visitedPos \subseteq AtKiosk \union Gone
      /\ AtKiosk \subseteq visitedPos /\ \A d, e \in AtKiosk : d = e
      /\ \A d \in Customers : stage[d] \in {"shopping", "kiosk"} => truePaid[d] = Zero
  BY DEF Store
<1>3. /\ stage' \in [Customers -> {"shopping", "kiosk", "paid", "left"}] /\ stage'[c] = "left"
      /\ \A d \in Customers : d # c => stage'[d] = stage[d]
  BY <1>1, <1>2
<1>4. Gone' = Gone \union {c}
  BY <1>1, <1>3 DEF Gone
<1>5. AtKiosk' = AtKiosk \ {c}
  BY <1>1, <1>3 DEF AtKiosk
<1>6. c \notin Gone
  BY <1>1 DEF Gone
<1>7. visitedPos' \subseteq AtKiosk' \union Gone' /\ AtKiosk' \subseteq visitedPos'
  BY <1>1, <1>2, <1>4, <1>5
<1>8. waited' \in BOOLEAN
  BY <1>1
<1>9. Store'
  BY <1>1, <1>2, <1>3, <1>5, <1>7, <1>8 DEF Store
<1> QED
  BY <1>1, <1>4, <1>5, <1>6, <1>9

(* The customer at the kiosk presses DONE, for the first time. *)
LEMMA DoneStore ==
    ASSUME Store, NEW c \in AtKiosk, stage[c] = "kiosk", PressDone(c), count \in Ledger,
           UNCHANGED <<waited, visitedPos>>
    PROVE  /\ Store' /\ UNCHANGED <<AtKiosk, Gone>>
           /\ truePaid[c] = Zero /\ truePaid' = [truePaid EXCEPT ![c] = count]
<1>1. /\ stage' = [stage EXCEPT ![c] = "paid"]
      /\ truePaid' = [truePaid EXCEPT ![c] = [i \in Items |-> truePaid[c][i] + count[i]]]
  BY DEF PressDone
<1>2. /\ stage \in [Customers -> {"shopping", "kiosk", "paid", "left"}] /\ c \in Customers
      /\ truePaid \in [Customers -> Ledger]
      /\ \A d \in Customers : stage[d] \in {"shopping", "kiosk"} => truePaid[d] = Zero
  BY DEF Store, AtKiosk
<1>3. truePaid[c] = Zero
  BY <1>2
<1>4. [i \in Items |-> truePaid[c][i] + count[i]] = count
  BY <1>3 DEF Zero, Ledger
<1>5. truePaid' = [truePaid EXCEPT ![c] = count]
  BY <1>1, <1>4
<1>6. /\ stage' \in [Customers -> {"shopping", "kiosk", "paid", "left"}] /\ stage'[c] = "paid"
      /\ \A d \in Customers : d # c => stage'[d] = stage[d]
  BY <1>1, <1>2
<1>7. AtKiosk' = AtKiosk /\ Gone' = Gone
  BY <1>2, <1>6 DEF AtKiosk, Gone
<1>8. /\ truePaid' \in [Customers -> Ledger]
      /\ \A d \in Customers : stage'[d] \in {"shopping", "kiosk"} => truePaid'[d] = Zero
  BY <1>2, <1>5, <1>6
<1>9. Store'
  BY <1>6, <1>7, <1>8 DEF Store
<1> QED
  BY <1>3, <1>5, <1>7, <1>9

(* Nobody moves, and time may pass. *)
LEMMA StoreKept ==
    ASSUME Store, UNCHANGED <<stage, truePaid, visitedPos>>, waited' = waited \/ waited' = TRUE
    PROVE  Store' /\ UNCHANGED <<AtKiosk, Gone>>
<1>1. UNCHANGED <<AtKiosk, Gone>>
  BY DEF AtKiosk, Gone
<1> QED
  BY <1>1 DEF Store
-----------------------------------------------------------------------------
(* The messages to come, and what the subscriber has noted of them. *)

(* What is to come are messages. *)
LEMMA ComingMessages ==
    ASSUME wire \in Seq(Messages)
    PROVE  Coming \in Seq(Messages)
  BY TailPlaces DEF Coming

(* A message that is new is to come, behind the others. *)
LEMMA ComingPublish ==
    ASSUME wire \in Seq(Messages), NEW m \in Messages, Vision!NotSeen(m),
           wire' = Append(wire, m), UNCHANGED seenTransitions
    PROVE  Coming' = Append(Coming, m)
<1>1. CASE wire = <<>>
  <2>1. wire' # <<>> /\ Head(wire') = m
    BY <1>1
  <2>2. Coming' = wire'
    BY <2>1 DEF Coming, Vision!NotSeen
  <2> QED
    BY <1>1, <2>2 DEF Coming
<1>2. CASE wire # <<>>
  <2>1. wire' # <<>> /\ Head(wire') = Head(wire) /\ Tail(wire') = Append(Tail(wire), m)
    BY <1>2
  <2> QED
    BY <1>2, <2>1 DEF Coming, Vision!NotSeen
<1> QED
  BY <1>1, <1>2

(* The subscriber has seen none of w, and none comes twice. *)
Unseen(w, seen) ==
    /\ \A n \in 1..Len(w) : Vision!Key(w[n]) \notin seen
    /\ \A n, k \in 1..Len(w) : Vision!Key(w[n]) = Vision!Key(w[k]) => n = k

(* A message that is received is a repetition, or the next one to come.    *)
LEMMA ComingReceive ==
    ASSUME wire \in Seq(Messages), Unseen(Coming, seenTransitions), ReceiveTransition
    PROVE  \/ Coming' = Coming /\ UNCHANGED <<sessionQueue, posSeen, seenTransitions>>
           \/ /\ Coming # <<>> /\ Coming' = Tail(Coming)
              /\ Vision!NotSeen(Head(Coming)) /\ Vision!ProcessTransition(Head(Coming))
<1>1. /\ wire # <<>> /\ Vision!ProcessTransition(Head(wire))
      /\ wire' = wire \/ wire' = Tail(wire)
  BY DEF ReceiveTransition
<1>2. /\ Tail(wire) \in Seq(Messages) /\ Len(wire) = Len(Tail(wire)) + 1 /\ Head(wire) = wire[1]
      /\ 1 \in 1..Len(wire) /\ Len(Tail(wire)) \in Nat
      /\ Tail(wire) # <<>> => 1 \in 1..Len(Tail(wire)) /\ Head(Tail(wire)) = Tail(wire)[1]
      /\ \A n \in 1..Len(Tail(wire)) : Tail(wire)[n] = wire[n + 1] /\ n + 1 \in 1..Len(wire)
  BY <1>1, TailPlaces
<1>3. CASE ~Vision!NotSeen(Head(wire))
  <2>1. Coming = Tail(wire)
    BY <1>1, <1>3 DEF Coming
  <2>2. UNCHANGED <<sessionQueue, posSeen, seenTransitions>>
    BY <1>1, <1>3 DEF Vision!ProcessTransition
  <2>3. CASE wire' = wire
    BY <2>1, <2>2, <2>3 DEF Coming, Vision!NotSeen
  <2>4. CASE wire' = Tail(wire)
    <3>1. Tail(wire) # <<>> => Vision!Key(Head(Tail(wire))) \notin seenTransitions
      BY <1>2, <2>1 DEF Unseen
    <3>2. Coming' = Tail(wire)
      BY <2>2, <2>4, <3>1 DEF Coming, Vision!NotSeen
    <3> QED
      BY <2>1, <2>2, <3>2
  <2> QED
    BY <1>1, <2>3, <2>4
<1>4. CASE Vision!NotSeen(Head(wire))
  <2>1. Coming = wire
    BY <1>4 DEF Coming
  <2>2. seenTransitions' = seenTransitions \union {Vision!Key(Head(wire))}
    BY <1>1, <1>4 DEF Vision!ProcessTransition
  <2>3. CASE wire' = wire
    <3>1. Coming' = Tail(wire)
      BY <1>1, <2>2, <2>3 DEF Coming, Vision!NotSeen
    <3> QED
      BY <1>1, <1>4, <2>1, <3>1
  <2>4. CASE wire' = Tail(wire)
    <3>1. ASSUME Tail(wire) # <<>>
          PROVE  Vision!Key(Head(Tail(wire))) \notin seenTransitions'
      <4>1. Head(Tail(wire)) = wire[1 + 1] /\ 1 + 1 \in 1..Len(wire) /\ 1 + 1 # 1
        BY <1>2, <3>1
      <4>2. Vision!Key(wire[1 + 1]) \notin seenTransitions
        BY <2>1, <4>1 DEF Unseen
      <4>3. Vision!Key(wire[1 + 1]) # Vision!Key(wire[1])
        BY <1>2, <2>1, <4>1 DEF Unseen
      <4> QED
        BY <1>2, <2>2, <4>1, <4>2, <4>3
    <3>2. Coming' = Tail(wire)
      BY <2>4, <3>1 DEF Coming, Vision!NotSeen
    <3> QED
      BY <1>1, <1>4, <2>1, <3>2
  <2> QED
    BY <1>1, <2>3, <2>4
<1> QED
  BY <1>3, <1>4

(* A tick passes over messages that were published since the last one. *)
LEMMA ComingTick ==
    ASSUME wire \in Seq(Messages), Prompt, WireDelay \in {0, 1}, Tick
    PROVE  /\ Len(Coming') = Len(Coming) /\ Coming' \in Seq(Messages)
           /\ WireDelay = 0 => Coming = <<>>
           /\ \A n \in 1..Len(Coming) :
                 /\ Coming'[n].state = Coming[n].state
                 /\ Coming'[n].customer = Coming[n].customer
                 /\ Coming'[n].timestamp = Coming[n].timestamp
                 /\ Coming[n].age = 0 /\ Coming'[n].age # 0
<1>1. /\ \A n \in DOMAIN wire : wire[n].age < WireDelay
      /\ wire' = [n \in DOMAIN wire |-> [wire[n] EXCEPT !.age = Older(wire[n].age, WireDelay)]]
      /\ UNCHANGED seenTransitions
  BY DEF Tick, CaughtUp, visionVars
<1>2. DOMAIN wire = 1..Len(wire) /\ Len(wire) \in Nat
  BY LenProperties
<1>3. ASSUME NEW n \in 1..Len(wire)
      PROVE  /\ WireDelay = 1 /\ wire[n].age = 0 /\ wire'[n] = [wire[n] EXCEPT !.age = 1]
             /\ wire'[n] \in Messages
             /\ wire'[n].state = wire[n].state /\ wire'[n].customer = wire[n].customer
             /\ wire'[n].timestamp = wire[n].timestamp /\ wire'[n].age # 0
  <2>1. wire[n] \in Messages /\ wire[n].age \in Nat /\ wire[n].age < WireDelay
    <3>1. wire[n] \in Messages
      OBVIOUS
    <3> QED
      BY <1>1, <1>2, <3>1 DEF Messages
  <2>2. WireDelay = 1 /\ wire[n].age = 0 /\ Older(wire[n].age, WireDelay) = 1
    BY <2>1 DEF Older
  <2>3. wire'[n] = [wire[n] EXCEPT !.age = 1]
    BY <1>1, <1>2, <2>2
  <2> QED
    BY ONLY <2>1, <2>2, <2>3 DEF Messages
<1>4. wire' \in Seq(Messages) /\ Len(wire') = Len(wire)
  <2>1. wire' \in [DOMAIN wire -> Messages]
    BY ONLY <1>1, <1>2, <1>3
  <2> QED
    BY <2>1, MapKeeps
<1>7. \A n \in 1..Len(wire) : WireDelay # 0
  <2> TAKE n \in 1..Len(wire)
  <2>1. WireDelay = 1
    BY ONLY <1>3
  <2> QED
    BY ONLY <2>1
<1>5. CASE wire = <<>>
  <2>1. wire' = <<>>
    BY <1>4, <1>5
  <2> QED
    BY <1>5, <2>1 DEF Coming
<1>6. CASE wire # <<>>
  <2>1. 1 \in 1..Len(wire) /\ Head(wire) = wire[1] /\ Head(wire') = wire'[1] /\ wire' # <<>>
    BY <1>4, <1>6
  <2>2. Vision!Key(Head(wire')) = Vision!Key(Head(wire))
    BY <1>3, <2>1 DEF Vision!Key
  <2>3. CASE Vision!NotSeen(Head(wire))
    <3>1. Coming = wire /\ Coming' = wire'
      BY <1>1, <2>1, <2>2, <2>3 DEF Coming, Vision!NotSeen
    <3>2. WireDelay # 0
      BY <1>7, <2>1
    <3> QED
      BY ONLY <1>3, <1>4, <3>1, <3>2
  <2>4. CASE ~Vision!NotSeen(Head(wire))
    <3>1. Coming = Tail(wire) /\ Coming' = Tail(wire')
      BY <1>1, <1>6, <2>1, <2>2, <2>4 DEF Coming, Vision!NotSeen
    <3>2. /\ Tail(wire') \in Seq(Messages) /\ Len(wire') = Len(Tail(wire')) + 1
          /\ Len(wire) = Len(Tail(wire)) + 1
          /\ Len(Tail(wire)) \in Nat /\ Len(Tail(wire')) \in Nat
          /\ \A n \in 1..Len(Tail(wire)) : Tail(wire)[n] = wire[n + 1] /\ n + 1 \in 1..Len(wire)
          /\ \A n \in 1..Len(Tail(wire')) : Tail(wire')[n] = wire'[n + 1]
      BY <1>4, <1>6, <2>1, TailPlaces
    <3>3. Len(Tail(wire')) = Len(Tail(wire))
      <4> DEFINE l == Len(Tail(wire))
                 k == Len(Tail(wire'))
      <4>1. l \in Nat /\ k \in Nat /\ k + 1 = l + 1
        BY <1>4, <3>2
      <4> HIDE DEF l, k
      <4>2. k = l
        BY ONLY <4>1
      <4> QED
        BY <4>2 DEF l, k
    <3>4. WireDelay # 0
      BY <1>7, <2>1
    <3>5. ASSUME NEW n \in 1..Len(Tail(wire))
          PROVE  /\ Tail(wire')[n].state = Tail(wire)[n].state
                 /\ Tail(wire')[n].customer = Tail(wire)[n].customer
                 /\ Tail(wire')[n].timestamp = Tail(wire)[n].timestamp
                 /\ Tail(wire)[n].age = 0 /\ Tail(wire')[n].age # 0
      <4>1. /\ Tail(wire)[n] = wire[n + 1] /\ Tail(wire')[n] = wire'[n + 1]
            /\ n + 1 \in 1..Len(wire)
        BY <3>2, <3>3
      <4> QED
        BY ONLY <1>3, <4>1
    <3> QED
      BY ONLY <3>1, <3>2, <3>3, <3>4, <3>5
  <2> QED
    BY <2>3, <2>4
<1> QED
  BY <1>5, <1>6

(* What the order of the line says of the messages w and the sessions q.   *)
Wired(w, q, gone, visited) ==
    /\ \A n, k \in 1..Len(w) :
           w[n].state = w[k].state /\ w[n].customer = w[k].customer => n = k
    /\ \A n \in 1..Len(w) : w[n].state = "POS" => w[n].customer \in visited
    /\ \A n \in 1..Len(w) : w[n].state = "EXIT" => w[n].customer \in gone
    /\ \A n, k \in 1..Len(w) :
           w[n].state = "POS" /\ w[k].state = "EXIT" /\ w[n].customer = w[k].customer => n < k
    /\ \A n \in 1..Len(q) : q[n].kind = "EXIT" => q[n].customer \in gone

(* The line's order says so. *)
LEMMA WiredByOrder ==
    ASSUME NEW q \in Seq(Sessions), NEW w \in Seq(Messages), NEW L, Lists(L, q, w),
           NEW gone, NEW visited, Ordered(L, gone, visited)
    PROVE  Wired(w, q, gone, visited)
<1>1. Len(q) \in Nat /\ Len(w) \in Nat /\ Len(L) = Len(q) + Len(w)
  BY DEF Lists
<1>2. ASSUME NEW n \in 1..Len(w)
      PROVE  /\ n \in Nat /\ Len(q) + n \in 1..Len(L)
             /\ L[Len(q) + n].kind = w[n].state /\ L[Len(q) + n].customer = w[n].customer
  BY <1>1 DEF Lists
<1>3. ASSUME NEW n \in 1..Len(q)
      PROVE  n \in 1..Len(L) /\ L[n].kind = q[n].kind /\ L[n].customer = q[n].customer
  BY <1>1 DEF Lists
<1>4. ASSUME NEW n \in 1..Len(w), NEW k \in 1..Len(w),
             w[n].state = w[k].state, w[n].customer = w[k].customer
      PROVE  n = k
  <2>0. /\ Len(q) + n \in 1..Len(L) /\ Len(q) + k \in 1..Len(L)
        /\ L[Len(q) + n].kind = w[n].state /\ L[Len(q) + n].customer = w[n].customer
        /\ L[Len(q) + k].kind = w[k].state /\ L[Len(q) + k].customer = w[k].customer
    BY <1>2
  <2>1. Len(q) + n = Len(q) + k
    BY <1>4, <2>0 DEF Ordered
  <2> QED
    BY <1>1, <1>2, <2>1
<1>5. \A n \in 1..Len(w) : w[n].state = "POS" => w[n].customer \in visited
  <2> TAKE n \in 1..Len(w)
  <2> QED
    BY <1>2 DEF Ordered
<1>6. \A n \in 1..Len(w) : w[n].state = "EXIT" => w[n].customer \in gone
  <2> TAKE n \in 1..Len(w)
  <2> QED
    BY <1>2 DEF Ordered
<1>7. ASSUME NEW n \in 1..Len(w), NEW k \in 1..Len(w),
             w[n].state = "POS", w[k].state = "EXIT", w[n].customer = w[k].customer
      PROVE  n < k
  <2>0. /\ Len(q) + n \in 1..Len(L) /\ Len(q) + k \in 1..Len(L)
        /\ L[Len(q) + n].kind = w[n].state /\ L[Len(q) + n].customer = w[n].customer
        /\ L[Len(q) + k].kind = w[k].state /\ L[Len(q) + k].customer = w[k].customer
    BY <1>2
  <2>1. Len(q) + n < Len(q) + k
    BY <1>7, <2>0 DEF Ordered
  <2> QED
    BY <1>1, <1>2, <2>1
<1>8. \A n \in 1..Len(q) : q[n].kind = "EXIT" => q[n].customer \in gone
  <2> TAKE n \in 1..Len(q)
  <2> QED
    BY <1>3 DEF Ordered
<1> QED
  BY <1>4, <1>5, <1>6, <1>7, <1>8 DEF Wired

(* Vision's messages w are news; whoever it has reported at the kiosk was  *)
(* there, and the flag of an exit says so.                                 *)
Marks(w, q, e, at, seen, gone, visited) ==
    /\ \A n \in 1..Len(w) : /\ w[n].timestamp = (IF w[n].state = "POS" THEN 1 ELSE 2)
                            /\ Vision!Key(w[n]) \notin seen
    /\ \A c \in Customers : <<c, "EXIT", 2>> \in seen => c \in gone
    /\ \A c \in Customers : <<c, "POS", 1>> \in seen => c \in visited
    /\ at \subseteq visited
    /\ \A c \in visited : \/ <<c, "EXIT", 2>> \in seen \/ c \in at
                          \/ \E n \in 1..Len(w) : w[n].state = "POS" /\ w[n].customer = c
    /\ \A n \in 1..Len(q) :
           q[n].kind = "EXIT" => (q[n].wasAtKiosk <=> q[n].customer \in visited)
    /\ \A n \in 1..Len(e) : e[n].session.wasAtKiosk <=> e[n].session.customer \in visited

(* The messages to come have not been seen. *)
LEMMA MarksUnseen ==
    ASSUME NEW w \in Seq(Messages), NEW q, NEW e, NEW at, NEW seen, NEW gone, NEW visited,
           Marks(w, q, e, at, seen, gone, visited), Wired(w, q, gone, visited)
    PROVE  Unseen(w, seen)
  BY DEF Marks, Wired, Unseen, Vision!Key

(* Vision reports a customer at the kiosk. *)
LEMMA MarksPos ==
    ASSUME NEW w \in Seq(Messages), NEW q, NEW e, NEW at, NEW seen, NEW gone, NEW visited,
           Marks(w, q, e, at, seen, gone, visited), Wired(w, q, gone, visited),
           NEW c \in Customers, c \notin gone, c \notin visited,
           \A n \in 1..Len(e) : e[n].session.customer \in gone,
           NEW picked \in PickSets[c]
    PROVE  /\ Message(c, "POS", picked) \in Messages
           /\ Vision!Key(Message(c, "POS", picked)) \notin seen
           /\ Marks(Append(w, Message(c, "POS", picked)), q, e, at, seen, gone, visited \union {c})
<1> DEFINE m == Message(c, "POS", picked)
           v == Append(w, m)
<1>1. /\ m \in Messages /\ m.state = "POS" /\ m.customer = c /\ m.timestamp = 1
      /\ Vision!Key(m) = <<c, "POS", 1>>
  <2>1. picked \in Picks
    BY DEF Picks
  <2> QED
    BY <2>1 DEF Message, Messages, Vision!Key
<1> HIDE DEF m
<1>2. /\ Len(w) \in Nat /\ v[Len(w) + 1] = m /\ Len(w) + 1 \in 1..Len(v)
      /\ \A n \in 1..Len(w) : v[n] = w[n] /\ n \in 1..Len(v)
      /\ \A n \in 1..Len(v) : n \in 1..Len(w) \/ n = Len(w) + 1
  BY <1>1, AppendPlaces
<1> HIDE DEF v
<1>3. Vision!Key(m) \notin seen
  BY <1>1 DEF Marks
<1>4. \A n \in 1..Len(v) : /\ v[n].timestamp = (IF v[n].state = "POS" THEN 1 ELSE 2)
                           /\ Vision!Key(v[n]) \notin seen
  <2> TAKE n \in 1..Len(v)
  <2>1. CASE n \in 1..Len(w)
    BY <1>2, <2>1 DEF Marks
  <2>2. CASE n = Len(w) + 1
    BY <1>1, <1>2, <1>3, <2>2
  <2> QED
    BY <1>2, <2>1, <2>2
<1>5. ASSUME NEW d \in visited \union {c}
      PROVE  \/ <<d, "EXIT", 2>> \in seen \/ d \in at
             \/ \E n \in 1..Len(v) : v[n].state = "POS" /\ v[n].customer = d
  <2>1. CASE d = c
    BY <1>1, <1>2, <2>1
  <2>2. CASE d \in visited
    BY <1>2, <2>2 DEF Marks
  <2> QED
    BY <2>1, <2>2
<1>6. \A n \in 1..Len(q) :
          q[n].kind = "EXIT" => (q[n].wasAtKiosk <=> q[n].customer \in visited \union {c})
  BY DEF Marks, Wired
<1>7. \A n \in 1..Len(e) : e[n].session.wasAtKiosk <=> e[n].session.customer \in visited \union {c}
  BY DEF Marks
<1>8. Marks(v, q, e, at, seen, gone, visited \union {c})
  BY <1>4, <1>5, <1>6, <1>7 DEF Marks
<1> QED
  BY <1>1, <1>3, <1>8 DEF m, v

(* Vision reports an exit. *)
LEMMA MarksExit ==
    ASSUME NEW w \in Seq(Messages), NEW q, NEW e, NEW at, NEW seen, NEW gone, NEW visited,
           Marks(w, q, e, at, seen, gone, visited),
           NEW c \in Customers, c \notin gone, NEW picked \in PickSets[c]
    PROVE  /\ Message(c, "EXIT", picked) \in Messages
           /\ Vision!Key(Message(c, "EXIT", picked)) \notin seen
           /\ Marks(Append(w, Message(c, "EXIT", picked)), q, e, at, seen, gone \union {c}, visited)
<1> DEFINE m == Message(c, "EXIT", picked)
           v == Append(w, m)
<1>1. /\ m \in Messages /\ m.state = "EXIT" /\ m.customer = c /\ m.timestamp = 2
      /\ Vision!Key(m) = <<c, "EXIT", 2>>
  <2>1. picked \in Picks
    BY DEF Picks
  <2> QED
    BY <2>1 DEF Message, Messages, Vision!Key
<1> HIDE DEF m
<1>2. /\ Len(w) \in Nat /\ v[Len(w) + 1] = m /\ Len(w) + 1 \in 1..Len(v)
      /\ \A n \in 1..Len(w) : v[n] = w[n] /\ n \in 1..Len(v)
      /\ \A n \in 1..Len(v) : n \in 1..Len(w) \/ n = Len(w) + 1
  BY <1>1, AppendPlaces
<1> HIDE DEF v
<1>3. Vision!Key(m) \notin seen
  BY <1>1 DEF Marks
<1>4. \A n \in 1..Len(v) : /\ v[n].timestamp = (IF v[n].state = "POS" THEN 1 ELSE 2)
                           /\ Vision!Key(v[n]) \notin seen
  <2> TAKE n \in 1..Len(v)
  <2>1. CASE n \in 1..Len(w)
    BY <1>2, <2>1 DEF Marks
  <2>2. CASE n = Len(w) + 1
    BY <1>1, <1>2, <1>3, <2>2
  <2> QED
    BY <1>2, <2>1, <2>2
<1>5. ASSUME NEW d \in visited
      PROVE  \/ <<d, "EXIT", 2>> \in seen \/ d \in at
             \/ \E n \in 1..Len(v) : v[n].state = "POS" /\ v[n].customer = d
  BY <1>2 DEF Marks
<1>6. \A d \in Customers : <<d, "EXIT", 2>> \in seen => d \in gone \union {c}
  BY DEF Marks
<1>7. Marks(v, q, e, at, seen, gone \union {c}, visited)
  BY <1>4, <1>5, <1>6 DEF Marks
<1> QED
  BY <1>1, <1>3, <1>7 DEF m, v

(* The subscriber handles the next message. *)
LEMMA MarksReceive ==
    ASSUME NEW w \in Seq(Messages), NEW q \in Seq(Sessions), NEW e, NEW gone, NEW visited,
           Marks(w, q, e, posSeen, seenTransitions, gone, visited), Wired(w, q, gone, visited),
           w # <<>>, Vision!NotSeen(Head(w)), Vision!ProcessTransition(Head(w)), q = sessionQueue
    PROVE  /\ Vision!Session(Head(w)) \in Sessions
           /\ sessionQueue' = Append(q, Vision!Session(Head(w)))
           /\ Marks(Tail(w), sessionQueue', e, posSeen', seenTransitions', gone, visited)
<1> DEFINE m == Head(w)
           v == Tail(w)
           s == Vision!Session(m)
<1>1. /\ 1 \in 1..Len(w) /\ m = w[1] /\ m \in Messages /\ Len(w) \in Nat
      /\ \A n \in 1..Len(v) : /\ n \in Nat /\ n + 1 \in 1..Len(w) /\ v[n] = w[n + 1] /\ n + 1 # 1
      /\ \A n \in 1..Len(w) : n # 1 => n - 1 \in 1..Len(v) /\ w[n] = v[n - 1]
  BY TailPlaces
<1>2. /\ seenTransitions' = seenTransitions \union {Vision!Key(m)}
      /\ sessionQueue' = Append(q, s)
      /\ \/ m.state = "POS" /\ posSeen' = posSeen \union {m.customer}
         \/ m.state = "EXIT" /\ posSeen' = posSeen \ {m.customer}
  BY DEF Vision!ProcessTransition
<1>3. /\ s \in Sessions /\ s.kind = m.state /\ s.customer = m.customer
      /\ s.wasAtKiosk <=> m.customer \in posSeen
  <2>1. m.state \in {"POS", "EXIT"} /\ m.customer \in Customers /\ m.picked \in Picks
    BY <1>1 DEF Messages
  <2>2. s = [kind |-> m.state, customer |-> m.customer, picked |-> m.picked,
             wasAtKiosk |-> m.customer \in posSeen]
    BY DEF Vision!Session
  <2> HIDE DEF m, s
  <2>3. s.kind = m.state /\ s.customer = m.customer /\ (s.wasAtKiosk <=> m.customer \in posSeen)
    BY ONLY <2>2
  <2>4. (m.customer \in posSeen) \in BOOLEAN
    OBVIOUS
  <2>5. s \in Sessions
    BY ONLY <2>1, <2>2, <2>4 DEF Sessions
  <2> QED
    BY <2>3, <2>5
<1>4. /\ m.customer \in Customers
      /\ m.state = "POS" => Vision!Key(m) = <<m.customer, "POS", 1>> /\ m.customer \in visited
      /\ m.state = "EXIT" => Vision!Key(m) = <<m.customer, "EXIT", 2>> /\ m.customer \in gone
  <2>1. m.timestamp = IF m.state = "POS" THEN 1 ELSE 2
    BY <1>1 DEF Marks
  <2> QED
    BY <1>1, <2>1 DEF Wired, Messages, Vision!Key
<1> HIDE DEF m, v, s
<1>5. ASSUME NEW n \in 1..Len(v)
      PROVE  /\ v[n].timestamp = (IF v[n].state = "POS" THEN 1 ELSE 2)
             /\ Vision!Key(v[n]) \notin seenTransitions'
  <2>1. n + 1 \in 1..Len(w) /\ v[n] = w[n + 1] /\ n + 1 # 1
    BY <1>1
  <2>2. Vision!Key(w[n + 1]) # Vision!Key(m)
    BY <1>1, <2>1 DEF Wired, Vision!Key
  <2>3. /\ w[n + 1].timestamp = (IF w[n + 1].state = "POS" THEN 1 ELSE 2)
        /\ Vision!Key(w[n + 1]) \notin seenTransitions
    BY <2>1 DEF Marks
  <2> QED
    BY <1>2, <2>1, <2>2, <2>3
<1>6. \A c \in Customers : <<c, "EXIT", 2>> \in seenTransitions' => c \in gone
  BY <1>2, <1>4 DEF Marks
<1>7. \A c \in Customers : <<c, "POS", 1>> \in seenTransitions' => c \in visited
  BY <1>2, <1>4 DEF Marks
<1>8. posSeen' \subseteq visited
  BY <1>2, <1>4 DEF Marks
<1>9. ASSUME NEW c \in visited
      PROVE  \/ <<c, "EXIT", 2>> \in seenTransitions' \/ c \in posSeen'
             \/ \E n \in 1..Len(v) : v[n].state = "POS" /\ v[n].customer = c
  <2>1. CASE <<c, "EXIT", 2>> \in seenTransitions
    BY <1>2, <2>1
  <2>2. CASE c \in posSeen
    BY <1>2, <1>4, <2>2
  <2>3. CASE \E n \in 1..Len(w) : w[n].state = "POS" /\ w[n].customer = c
    <3>1. PICK n \in 1..Len(w) : w[n].state = "POS" /\ w[n].customer = c
      BY <2>3
    <3>2. CASE n = 1
      BY <1>1, <1>2, <3>1, <3>2
    <3>3. CASE n # 1
      <4>1. n - 1 \in 1..Len(v) /\ w[n] = v[n - 1]
        BY <1>1, <3>3
      <4> QED
        BY <3>1, <4>1
    <3> QED
      BY <3>2, <3>3
  <2> QED
    BY <2>1, <2>2, <2>3 DEF Marks
<1>10. s.kind = "EXIT" => (s.wasAtKiosk <=> s.customer \in visited)
  <2> SUFFICES ASSUME m.state = "EXIT" PROVE m.customer \in posSeen <=> m.customer \in visited
    BY <1>3
  <2>1. <<m.customer, "EXIT", 2>> \notin seenTransitions
    BY <1>4 DEF Vision!NotSeen, m
  <2>2. ASSUME NEW n \in 1..Len(w), w[n].state = "POS", w[n].customer = m.customer PROVE FALSE
    <3>1. n < 1
      BY <1>1, <2>2 DEF Wired
    <3> QED
      BY <1>1, <3>1
  <2>3. m.customer \in visited => m.customer \in posSeen
    BY <2>1, <2>2 DEF Marks
  <2>4. posSeen \subseteq visited
    BY DEF Marks
  <2> QED
    BY <2>3, <2>4
<1>11. ASSUME NEW n \in 1..Len(sessionQueue'), sessionQueue'[n].kind = "EXIT"
       PROVE  sessionQueue'[n].wasAtKiosk <=> sessionQueue'[n].customer \in visited
  <2>1. \/ n \in 1..Len(q) /\ sessionQueue'[n] = q[n]
        \/ sessionQueue'[n] = s
    BY <1>2, <1>3, AppendPlaces
  <2> QED
    BY <1>10, <1>11, <2>1 DEF Marks
<1>12. \A n \in 1..Len(e) : e[n].session.wasAtKiosk <=> e[n].session.customer \in visited
  BY DEF Marks
<1>13. Marks(v, sessionQueue', e, posSeen', seenTransitions', gone, visited)
  BY <1>5, <1>6, <1>7, <1>8, <1>9, <1>11, <1>12 DEF Marks
<1> QED
  BY <1>2, <1>3, <1>13 DEF v, s, m

(* The loop takes a session. *)
LEMMA MarksTake ==
    ASSUME NEW w, NEW q \in Seq(Sessions), q # <<>>, NEW e \in Seq(Exits), NEW at, NEW seen,
           NEW gone, NEW visited, Marks(w, q, e, at, seen, gone, visited), NEW f,
           \/ f = e
           \/ Head(q).kind = "EXIT" /\ \E d \in Nat : f = Append(e, [session |-> Head(q), due |-> d])
    PROVE  Marks(w, Tail(q), f, at, seen, gone, visited)
<1>1. /\ 1 \in 1..Len(q) /\ Head(q) = q[1] /\ q[1] \in Sessions
      /\ \A n \in 1..Len(Tail(q)) : Tail(q)[n] = q[n + 1] /\ n + 1 \in 1..Len(q)
  BY TailPlaces
<1>2. \A n \in 1..Len(Tail(q)) :
          Tail(q)[n].kind = "EXIT" => (Tail(q)[n].wasAtKiosk <=> Tail(q)[n].customer \in visited)
  <2> TAKE n \in 1..Len(Tail(q))
  <2>1. Tail(q)[n] = q[n + 1] /\ n + 1 \in 1..Len(q)
    BY <1>1
  <2> QED
    BY <2>1 DEF Marks
<1>3. \A n \in 1..Len(f) : f[n].session.wasAtKiosk <=> f[n].session.customer \in visited
  <2>1. CASE f = e
    BY <2>1 DEF Marks
  <2>2. CASE /\ Head(q).kind = "EXIT"
             /\ \E d \in Nat : f = Append(e, [session |-> Head(q), due |-> d])
    <3>1. PICK d \in Nat : f = Append(e, [session |-> Head(q), due |-> d])
      BY <2>2
    <3>2. [session |-> Head(q), due |-> d] \in Exits
      BY <1>1 DEF Exits
    <3>3. \A n \in 1..Len(f) : \/ n \in 1..Len(e) /\ f[n] = e[n]
                               \/ f[n] = [session |-> Head(q), due |-> d]
      BY <3>1, <3>2, AppendPlaces
    <3>4. Head(q).wasAtKiosk <=> Head(q).customer \in visited
      BY <1>1, <2>2 DEF Marks
    <3> QED
      BY <3>3, <3>4 DEF Marks
  <2> QED
    BY <2>1, <2>2
<1> QED
  BY <1>2, <1>3 DEF Marks

(* The oldest exit is judged. *)
LEMMA MarksJudge ==
    ASSUME NEW w, NEW q, NEW e \in Seq(Exits), e # <<>>, NEW at, NEW seen, NEW gone, NEW visited,
           Marks(w, q, e, at, seen, gone, visited)
    PROVE  Marks(w, q, Tail(e), at, seen, gone, visited)
<1>1. \A n \in 1..Len(Tail(e)) : Tail(e)[n] = e[n + 1] /\ n + 1 \in 1..Len(e)
  BY TailPlaces
<1>2. \A n \in 1..Len(Tail(e)) :
          Tail(e)[n].session.wasAtKiosk <=> Tail(e)[n].session.customer \in visited
  <2> TAKE n \in 1..Len(Tail(e))
  <2>1. Tail(e)[n] = e[n + 1] /\ n + 1 \in 1..Len(e)
    BY <1>1
  <2> QED
    BY <2>1 DEF Marks
<1> QED
  BY <1>2 DEF Marks

(* Time passes. *)
LEMMA MarksTick ==
    ASSUME NEW w, NEW q, NEW e, NEW at, NEW seen, NEW gone, NEW visited,
           Marks(w, q, e, at, seen, gone, visited), NEW v, NEW f,
           Len(v) = Len(w), Len(f) = Len(e),
           \A n \in 1..Len(w) : /\ v[n].state = w[n].state /\ v[n].customer = w[n].customer
                                /\ v[n].timestamp = w[n].timestamp,
           \A n \in 1..Len(e) : f[n].session = e[n].session
    PROVE  Marks(v, q, f, at, seen, gone, visited)
<1>1. \A n \in 1..Len(w) : Vision!Key(v[n]) = Vision!Key(w[n])
  BY DEF Vision!Key
<1>2. \A n \in 1..Len(v) : /\ v[n].timestamp = (IF v[n].state = "POS" THEN 1 ELSE 2)
                           /\ Vision!Key(v[n]) \notin seen
  BY <1>1 DEF Marks
<1>3. \A c \in visited : \/ <<c, "EXIT", 2>> \in seen \/ c \in at
                         \/ \E n \in 1..Len(v) : v[n].state = "POS" /\ v[n].customer = c
  <2> SUFFICES ASSUME NEW c \in visited, <<c, "EXIT", 2>> \notin seen, c \notin at
               PROVE  \E n \in 1..Len(v) : v[n].state = "POS" /\ v[n].customer = c
    OBVIOUS
  <2>1. PICK n \in 1..Len(w) : w[n].state = "POS" /\ w[n].customer = c
    BY DEF Marks
  <2>2. n \in 1..Len(v) /\ v[n].state = "POS" /\ v[n].customer = c
    BY <2>1
  <2> QED
    BY <2>2
<1>4. \A n \in 1..Len(f) : f[n].session.wasAtKiosk <=> f[n].session.customer \in visited
  BY DEF Marks
<1> QED
  BY <1>2, <1>3, <1>4 DEF Marks
-----------------------------------------------------------------------------
(* The exits that wait: oldest first, and the loop judges those whose      *)
(* grace is over before it takes an event.                                 *)
Waiting(e, place) ==
    /\ \A n, k \in 1..Len(e) : n < k => e[n].due <= e[k].due
    /\ \A n \in 1..Len(e) : e[n].due <= Grace
    /\ place = "exits" => DueExit(e)
    /\ place = "events" => ~DueExit(e)

(* When the oldest exit is not due, none is. *)
LEMMA NoneDue ==
    ASSUME NEW e \in Seq(Exits), NEW place, Waiting(e, place), ~DueExit(e)
    PROVE  \A n \in 1..Len(e) : e[n].due # 0
<1> SUFFICES ASSUME NEW n \in 1..Len(e), e[n].due = 0 PROVE FALSE
  OBVIOUS
<1>1. e # <<>> /\ 1 \in 1..Len(e) /\ Head(e) = e[1] /\ e[1] \in Exits
  OBVIOUS
<1>2. e[1].due \in Nat /\ e[1].due # 0
  BY <1>1 DEF Exits, DueExit
<1>3. n = 1 \/ e[1].due <= e[n].due
  BY <1>1 DEF Waiting
<1> QED
  BY <1>2, <1>3

(* An exit begins its grace, behind the others. *)
LEMMA WaitingMore ==
    ASSUME NEW e \in Seq(Exits), NEW place, Waiting(e, place),
           NEW x \in Exits, x.due = Grace, Grace # 0
    PROVE  /\ Waiting(Append(e, x), "sessions")
           /\ ~DueExit(e) => ~DueExit(Append(e, x))
<1> DEFINE f == Append(e, x)
<1>1. /\ Len(e) \in Nat /\ f[Len(e) + 1] = x
      /\ \A n \in 1..Len(e) : f[n] = e[n] /\ n < Len(e) + 1
      /\ \A n \in 1..Len(f) : n \in 1..Len(e) \/ n = Len(e) + 1
      /\ \A n \in 1..Len(e) : e[n].due <= Grace
  BY AppendPlaces DEF Waiting
<1>2. e # <<>> => Head(f) = Head(e)
  OBVIOUS
<1>3. e = <<>> => Head(f) = x
  OBVIOUS
<1> HIDE DEF f
<1>4. \A n \in 1..Len(f) : f[n].due <= Grace
  BY <1>1, TimeAssumption
<1>5. ASSUME NEW n \in 1..Len(f), NEW k \in 1..Len(f), n < k PROVE f[n].due <= f[k].due
  <2>1. CASE k \in 1..Len(e)
    <3>1. n \in 1..Len(e)
      BY <1>1, <1>5, <2>1
    <3> QED
      BY <1>1, <1>5, <2>1, <3>1 DEF Waiting
  <2>2. CASE k = Len(e) + 1
    BY <1>1, <1>4, <2>2
  <2> QED
    BY <1>1, <2>1, <2>2
<1>6. Waiting(f, "sessions")
  BY <1>4, <1>5 DEF Waiting
<1>7. ~DueExit(e) => ~DueExit(f)
  BY <1>2, <1>3 DEF DueExit
<1> QED
  BY <1>6, <1>7 DEF f

(* The oldest exit is judged. *)
LEMMA WaitingLess ==
    ASSUME NEW e \in Seq(Exits), e # <<>>, NEW place, Waiting(e, place),
           NEW next, next = AfterSessions(Tail(e)) \/ next = "dead"
    PROVE  Waiting(Tail(e), next)
<1> DEFINE f == Tail(e)
<1>1. \A n \in 1..Len(f) : n \in Nat /\ n + 1 \in 1..Len(e) /\ f[n] = e[n + 1]
  BY TailPlaces
<1>2. (next = "exits" => DueExit(f)) /\ (next = "events" => ~DueExit(f))
  BY DEF AfterSessions
<1> HIDE DEF f
<1>3. \A n \in 1..Len(f) : f[n].due <= Grace
  <2> TAKE n \in 1..Len(f)
  <2>1. n + 1 \in 1..Len(e) /\ f[n] = e[n + 1]
    BY <1>1
  <2> QED
    BY <2>1 DEF Waiting
<1>4. ASSUME NEW n \in 1..Len(f), NEW k \in 1..Len(f), n < k PROVE f[n].due <= f[k].due
  <2>1. /\ n + 1 \in 1..Len(e) /\ f[n] = e[n + 1] /\ k + 1 \in 1..Len(e) /\ f[k] = e[k + 1]
        /\ n + 1 < k + 1
    BY <1>1, <1>4
  <2> QED
    BY <2>1 DEF Waiting
<1>5. Waiting(f, next)
  BY <1>2, <1>3, <1>4 DEF Waiting
<1> QED
  BY <1>5 DEF f

(* Time passes for the exits that wait; a grace of one tick is over then. *)
LEMMA WaitingTick ==
    ASSUME NEW e \in Seq(Exits), NEW place, Waiting(e, place), NEW f, Len(f) = Len(e),
           \A n \in 1..Len(e) : f[n].due = IF e[n].due = 0 THEN 0 ELSE e[n].due - 1
    PROVE  /\ Waiting(f, "sessions")
           /\ Grace = 1 => \A n \in 1..Len(f) : f[n].due = 0
<1>1. \A n \in 1..Len(e) : e[n] \in Exits
  OBVIOUS
<1>2. \A n \in 1..Len(e) : e[n].due \in Nat
  BY <1>1 DEF Exits
<1>3. \A n \in 1..Len(f) : f[n].due <= Grace /\ (Grace = 1 => f[n].due = 0)
  BY <1>2, TimeAssumption DEF Waiting
<1>4. \A n, k \in 1..Len(f) : n < k => f[n].due <= f[k].due
  BY <1>2 DEF Waiting
<1> QED
  BY <1>3, <1>4 DEF Waiting

-----------------------------------------------------------------------------
(* Who is called next, for one step after the other. *)

(* The exit of c waits. *)
InExits(e, c) == \E n \in 1..Len(e) : e[n].session.customer = c

(* Who is at the kiosk is the last one called.  A tick later (late) no     *)
(* other POS is in the line and nobody else is active, but to end.         *)
Called(L, active, e, kiosk, gone, visited, late) ==
    /\ \A c \in kiosk : Last(L, active, c)
    /\ \A n \in 1..Len(L) : L[n].kind = "POS" /\ L[n].fresh
                                => ~late /\ \A c \in kiosk : L[n].customer = c
    /\ late => \A c \in kiosk : Only(L, c) /\ Free(active, e, c)
    /\ late \/ kiosk # {} =>
          \A n \in 1..Len(L) : L[n].kind = "EXIT" /\ L[n].customer \in visited => ~L[n].fresh
    /\ active # NoCustomer =>
          /\ active \in visited
          /\ active \in gone => InExits(e, active) \/ At(L, "EXIT", active)

(* Who has paid and has no payment booked yet stays the last one called,   *)
(* until the payment is: such customers are in debit.                      *)
Poised(L, active, e, kiosk, gone, late, debit) ==
    \A c \in debit :
        /\ c \in kiosk \/ (c \in gone /\ ~late /\ kiosk = {})
        /\ Last(L, active, c) /\ Only(L, c) /\ Free(active, e, c)
        /\ \A n \in 1..Len(e) : e[n].session.customer = c => e[n].due # 0
        /\ \A n \in 1..Len(L) : L[n].kind = "POS" => ~L[n].fresh

(* One more exit waits. *)
LEMMA FreeMore ==
    ASSUME NEW E, NEW e \in Seq(E), NEW x \in E, NEW active, NEW c, Free(active, e, c)
    PROVE  Free(active, Append(e, x), c)
  BY AppendPlaces DEF Free, Ending

(* The oldest exit is judged, and its customer is no longer active. *)
LEMMA FreeLess ==
    ASSUME NEW E, NEW e \in Seq(E), e # <<>>, NEW active, NEW c, Free(active, e, c), NEW next,
           next = IF active = Head(e).session.customer THEN NoCustomer ELSE active
    PROVE  Free(next, Tail(e), c)
<1>1. /\ Head(e) = e[1]
      /\ \A n \in 1..Len(e) : n # 1 => n - 1 \in 1..Len(Tail(e)) /\ e[n] = Tail(e)[n - 1]
  BY TailPlaces
<1>2. CASE active = NoCustomer \/ active = c
  BY <1>2 DEF Free
<1>3. CASE Ending(e, active)
  <2>1. PICK n \in 1..Len(e) : e[n].session.customer = active /\ e[n].due = 0
    BY <1>3 DEF Ending
  <2>2. CASE n = 1
    BY <1>1, <2>1, <2>2 DEF Free
  <2>3. CASE n # 1
    BY <1>1, <2>1, <2>3 DEF Free, Ending
  <2> QED
    BY <2>2, <2>3
<1> QED
  BY <1>2, <1>3 DEF Free

(* A customer comes to the kiosk, a tick after it became free. *)
LEMMA CalledApproach ==
    ASSUME NEW L \in Seq(LinePlaces), NEW active, NEW e, NEW gone, NEW visited,
           Called(L, active, e, {}, gone, visited, TRUE), Ordered(L, gone, visited),
           NEW c \in Customers, c \notin gone
    PROVE  Called(Append(L, Place("POS", c)), active, e, {c}, gone, visited \union {c}, FALSE)
<1> DEFINE p == Place("POS", c)
           M == Append(L, p)
<1>1. p \in LinePlaces /\ p.kind = "POS" /\ p.customer = c
  BY DEF Place, LinePlaces
<1>2. Last(M, active, c)
  BY LastPos
<1>3. /\ M[Len(L) + 1] = p
      /\ \A n \in 1..Len(L) : M[n] = L[n] /\ n \in 1..Len(M)
      /\ \A n \in 1..Len(M) : n \in 1..Len(L) \/ n = Len(L) + 1
  BY <1>1, AppendPlaces
<1> HIDE DEF p, M
<1>4. \A n \in 1..Len(M) : M[n].kind = "POS" /\ M[n].fresh => M[n].customer = c
  BY <1>1, <1>3 DEF Called
<1>5. \A n \in 1..Len(M) : M[n].kind = "EXIT" /\ M[n].customer \in visited \union {c} => ~M[n].fresh
  BY <1>1, <1>3 DEF Called, Ordered
<1>6. active # NoCustomer =>
          /\ active \in visited
          /\ active \in gone => InExits(e, active) \/ At(M, "EXIT", active)
  BY <1>3 DEF Called, At
<1>7. Called(M, active, e, {c}, gone, visited \union {c}, FALSE)
  BY <1>2, <1>4, <1>5, <1>6 DEF Called
<1> QED
  BY <1>7 DEF M, p

(* A customer leaves the kiosk, or the store without having been there. *)
LEMMA CalledLeave ==
    ASSUME NEW L \in Seq(LinePlaces), NEW active, NEW e, NEW kiosk, NEW gone, NEW visited, NEW late,
           Called(L, active, e, kiosk, gone, visited, late),
           NEW c \in Customers, c \notin gone, visited \subseteq kiosk \union gone,
           \A d, b \in kiosk : d = b
    PROVE  Called(Append(L, Place("EXIT", c)), active, e, kiosk \ {c}, gone \union {c}, visited,
                  late /\ c \notin kiosk)
<1> DEFINE p == Place("EXIT", c)
           M == Append(L, p)
           rest == kiosk \ {c}
           then == late /\ c \notin kiosk
<1>1. p \in LinePlaces /\ p.kind = "EXIT" /\ p.customer = c
  BY DEF Place, LinePlaces
<1>2. \A d \in rest : Last(M, active, d)
  BY LastExit DEF Called
<1>3. then => \A d \in rest : Only(M, d) /\ Free(active, e, d)
  BY OnlyExit DEF Called
<1>4. /\ M[Len(L) + 1] = p /\ Len(L) + 1 \in 1..Len(M)
      /\ \A n \in 1..Len(L) : M[n] = L[n] /\ n \in 1..Len(M)
      /\ \A n \in 1..Len(M) : n \in 1..Len(L) \/ n = Len(L) + 1
  BY <1>1, AppendPlaces
<1> HIDE DEF p, M
<1>5. \A n \in 1..Len(M) : M[n].kind = "POS" /\ M[n].fresh
                               => ~then /\ \A d \in rest : M[n].customer = d
  BY <1>1, <1>4 DEF Called
<1>6. then \/ rest # {} => c \notin visited /\ (late \/ kiosk # {})
  OBVIOUS
<1>7. then \/ rest # {} =>
          \A n \in 1..Len(M) : M[n].kind = "EXIT" /\ M[n].customer \in visited => ~M[n].fresh
  BY <1>1, <1>4, <1>6 DEF Called
<1>8. active # NoCustomer =>
          /\ active \in visited
          /\ active \in gone \union {c} => InExits(e, active) \/ At(M, "EXIT", active)
  BY <1>1, <1>4 DEF Called, At
<1>9. Called(M, active, e, rest, gone \union {c}, visited, then)
  BY <1>2, <1>3, <1>5, <1>7, <1>8 DEF Called
<1> QED
  BY <1>9 DEF M, p

(* The loop takes the POS of a customer, who is active then. *)
LEMMA CalledPos ==
    ASSUME NEW L \in Seq(LinePlaces), L # <<>>, Head(L).kind = "POS", NEW active, NEW e,
           NEW kiosk, NEW gone, NEW visited, NEW late,
           Called(L, active, e, kiosk, gone, visited, late), Ordered(L, gone, visited)
    PROVE  Called(Tail(L), Head(L).customer, e, kiosk, gone, visited, late)
<1> DEFINE M == Tail(L)
           d == Head(L).customer
<1>1. /\ Head(L) = L[1] /\ 1 \in 1..Len(L)
      /\ \A n \in 1..Len(M) : M[n] = L[n + 1] /\ n + 1 \in 1..Len(L)
      /\ \A n \in 1..Len(L) : n # 1 => n - 1 \in 1..Len(M) /\ L[n] = M[n - 1]
  BY TailPlaces
<1>2. \A c \in kiosk : Last(M, d, c)
  BY LastTail DEF Called
<1>3. late => \A c \in kiosk : Only(M, c) /\ Free(d, e, c)
  BY OnlyTail DEF Called, Free
<1> HIDE DEF M
<1>4. \A n \in 1..Len(M) : M[n].kind = "POS" /\ M[n].fresh
                               => ~late /\ \A c \in kiosk : M[n].customer = c
  <2> TAKE n \in 1..Len(M)
  <2>1. M[n] = L[n + 1] /\ n + 1 \in 1..Len(L)
    BY <1>1
  <2> QED
    BY <2>1 DEF Called
<1>5. ASSUME late \/ kiosk # {}, NEW n \in 1..Len(M), M[n].kind = "EXIT", M[n].customer \in visited
      PROVE  ~M[n].fresh
  <2>1. M[n] = L[n + 1] /\ n + 1 \in 1..Len(L)
    BY <1>1
  <2> QED
    BY <1>5, <2>1 DEF Called
<1>6. d \in visited
  BY <1>1 DEF Ordered
<1>7. ASSUME d \in gone PROVE At(M, "EXIT", d)
  <2>1. PICK n \in 1..Len(L) : L[n].kind = "EXIT" /\ L[n].customer = d
    BY <1>1, <1>7 DEF Ordered, At
  <2>2. n # 1
    BY <1>1, <2>1
  <2> QED
    BY <1>1, <2>1, <2>2 DEF At
<1>8. Called(M, d, e, kiosk, gone, visited, late)
  BY <1>2, <1>3, <1>4, <1>5, <1>6, <1>7 DEF Called
<1> QED
  BY <1>8 DEF M

(* The loop takes the EXIT of a customer. *)
LEMMA CalledExit ==
    ASSUME NEW L \in Seq(LinePlaces), L # <<>>, Head(L).kind = "EXIT", NEW active,
           NEW E, NEW e \in Seq(E), NEW kiosk, NEW gone, NEW visited, NEW late,
           Called(L, active, e, kiosk, gone, visited, late),
           NEW x \in E, x.session.customer = Head(L).customer
    PROVE  Called(Tail(L), active, Append(e, x), kiosk, gone, visited, late)
<1> DEFINE M == Tail(L)
           f == Append(e, x)
<1>1. /\ Head(L) = L[1] /\ 1 \in 1..Len(L)
      /\ \A n \in 1..Len(M) : M[n] = L[n + 1] /\ n + 1 \in 1..Len(L)
      /\ \A n \in 1..Len(L) : n # 1 => n - 1 \in 1..Len(M) /\ L[n] = M[n - 1]
  BY TailPlaces
<1>2. \A c \in kiosk : Last(M, active, c)
  BY LastTail DEF Called
<1>3. late => \A c \in kiosk : Only(M, c) /\ Free(active, f, c)
  BY OnlyTail, FreeMore DEF Called
<1>4. /\ f[Len(e) + 1] = x /\ Len(e) + 1 \in 1..Len(f)
      /\ \A n \in 1..Len(e) : f[n] = e[n] /\ n \in 1..Len(f)
  BY AppendPlaces
<1> HIDE DEF M, f
<1>5. \A n \in 1..Len(M) : M[n].kind = "POS" /\ M[n].fresh
                               => ~late /\ \A c \in kiosk : M[n].customer = c
  <2> TAKE n \in 1..Len(M)
  <2>1. M[n] = L[n + 1] /\ n + 1 \in 1..Len(L)
    BY <1>1
  <2> QED
    BY <2>1 DEF Called
<1>6. ASSUME late \/ kiosk # {}, NEW n \in 1..Len(M), M[n].kind = "EXIT", M[n].customer \in visited
      PROVE  ~M[n].fresh
  <2>1. M[n] = L[n + 1] /\ n + 1 \in 1..Len(L)
    BY <1>1
  <2> QED
    BY <1>6, <2>1 DEF Called
<1>7. ASSUME active # NoCustomer, active \in gone
      PROVE  InExits(f, active) \/ At(M, "EXIT", active)
  <2>1. CASE InExits(e, active)
    BY <1>4, <2>1 DEF InExits
  <2>2. CASE At(L, "EXIT", active)
    <3>1. PICK n \in 1..Len(L) : L[n].kind = "EXIT" /\ L[n].customer = active
      BY <2>2 DEF At
    <3>2. CASE n = 1
      BY <1>1, <1>4, <3>1, <3>2 DEF InExits
    <3>3. CASE n # 1
      BY <1>1, <3>1, <3>3 DEF At
    <3> QED
      BY <3>2, <3>3
  <2> QED
    BY <1>7, <2>1, <2>2 DEF Called
<1>8. Called(M, active, f, kiosk, gone, visited, late)
  BY <1>2, <1>3, <1>5, <1>6, <1>7 DEF Called
<1> QED
  BY <1>8 DEF M, f

(* The oldest exit is judged. *)
LEMMA CalledJudge ==
    ASSUME NEW L, NEW active, NEW E, NEW e \in Seq(E), e # <<>>, NEW kiosk, NEW gone, NEW visited,
           NEW late, Called(L, active, e, kiosk, gone, visited, late),
           Head(e).session.customer \notin kiosk, NEW next,
           next = IF active = Head(e).session.customer THEN NoCustomer ELSE active
    PROVE  Called(L, next, Tail(e), kiosk, gone, visited, late)
<1>1. /\ Head(e) = e[1]
      /\ \A n \in 1..Len(e) : n # 1 => n - 1 \in 1..Len(Tail(e)) /\ e[n] = Tail(e)[n - 1]
  BY TailPlaces
<1>2. \A c \in kiosk : Last(L, next, c)
  BY DEF Called, Last
<1>3. late => \A c \in kiosk : Only(L, c) /\ Free(next, Tail(e), c)
  BY FreeLess DEF Called
<1>4. ASSUME next # NoCustomer
      PROVE  /\ next \in visited
             /\ next \in gone => InExits(Tail(e), next) \/ At(L, "EXIT", next)
  <2>1. next = active /\ active # e[1].session.customer
    BY <1>1, <1>4
  <2>2. ASSUME InExits(e, active) PROVE InExits(Tail(e), active)
    <3>1. PICK n \in 1..Len(e) : e[n].session.customer = active
      BY <2>2 DEF InExits
    <3> QED
      BY <1>1, <2>1, <3>1 DEF InExits
  <2> QED
    BY <1>4, <2>1, <2>2 DEF Called
<1> QED
  BY <1>2, <1>3, <1>4 DEF Called

(* Time passes: all messages are fresh and become stale. *)
LEMMA CalledTick ==
    ASSUME NEW L \in Seq(LinePlaces), NEW active, NEW e, NEW kiosk, NEW gone, NEW visited, NEW late,
           Called(L, active, e, kiosk, gone, visited, late),
           visited \subseteq kiosk \union gone, \A d, b \in kiosk : d = b,
           \A n \in 1..Len(L) : L[n].fresh,
           NEW f, Len(f) = Len(e), \A n \in 1..Len(e) : f[n].session = e[n].session,
           L = <<>> \/ \A n \in 1..Len(f) : f[n].due = 0
    PROVE  Called(Stale(L), active, f, kiosk, gone, visited, TRUE)
<1> DEFINE M == Stale(L)
<1>1. /\ Len(M) = Len(L)
      /\ \A n \in 1..Len(L) : /\ M[n].kind = L[n].kind /\ ~M[n].fresh
                              /\ M[n].customer = L[n].customer
  BY StalePlaces
<1>2. \A c \in kiosk : Last(M, active, c)
  BY LastStale DEF Called
<1> HIDE DEF M
<1>3. ASSUME NEW c \in kiosk PROVE Only(M, c)
  BY <1>1 DEF Only, Called
<1>4. ASSUME NEW c \in kiosk PROVE Free(active, f, c)
  <2>1. CASE L = <<>>
    <3>1. active = c
      BY <2>1 DEF Called, Last
    <3> QED
      BY <3>1 DEF Free
  <2>2. CASE \A n \in 1..Len(f) : f[n].due = 0
    <3>1. SUFFICES ASSUME active # NoCustomer, active # c PROVE Ending(f, active)
      BY DEF Free
    <3>2. active \in visited /\ active \in gone
      BY <3>1 DEF Called
    <3>3. ~At(L, "EXIT", active)
      BY <3>2 DEF At, Called
    <3>4. InExits(e, active)
      BY <3>1, <3>2, <3>3 DEF Called
    <3> QED
      BY <2>2, <3>4 DEF InExits, Ending
  <2> QED
    BY <2>1, <2>2
<1>5. active # NoCustomer =>
          /\ active \in visited
          /\ active \in gone => InExits(f, active) \/ At(M, "EXIT", active)
  BY <1>1 DEF Called, InExits, At
<1>6. Called(M, active, f, kiosk, gone, visited, TRUE)
  BY <1>1, <1>2, <1>3, <1>4, <1>5 DEF Called
<1> QED
  BY <1>6 DEF M

(* The same steps for a customer in debit. *)
LEMMA PoisedNobody ==
    ASSUME NEW L, NEW active, NEW e, NEW gone, NEW debit, Poised(L, active, e, {}, gone, TRUE, debit)
    PROVE  debit = {}
  BY DEF Poised

(* One customer at a time is in debit. *)
LEMMA PoisedOne ==
    ASSUME NEW L, NEW active, NEW e, NEW kiosk, NEW gone, NEW late, NEW debit,
           Poised(L, active, e, kiosk, gone, late, debit), NEW c \in debit, NEW d \in debit
    PROVE  c = d
<1>1. Last(L, active, c) /\ Last(L, active, d)
  BY DEF Poised
<1> QED
  BY <1>1 DEF Last

(* The customer at the kiosk pays. *)
LEMMA PoisedDone ==
    ASSUME NEW L, NEW active, NEW e, NEW kiosk, NEW gone, NEW visited,
           Called(L, active, e, kiosk, gone, visited, TRUE),
           NEW c \in kiosk, c \notin gone, \A n \in 1..Len(e) : e[n].session.customer \in gone
    PROVE  Poised(L, active, e, kiosk, gone, TRUE, {c})
  BY DEF Called, Poised

(* A customer leaves, perhaps the one in debit. *)
LEMMA PoisedLeave ==
    ASSUME NEW L \in Seq(LinePlaces), NEW active, NEW e, NEW kiosk, NEW gone, NEW late, NEW debit,
           Poised(L, active, e, kiosk, gone, late, debit), NEW c \in Customers,
           \A d, b \in kiosk : d = b
    PROVE  Poised(Append(L, Place("EXIT", c)), active, e, kiosk \ {c}, gone \union {c},
                  late /\ c \notin kiosk, debit)
<1> DEFINE p == Place("EXIT", c)
           M == Append(L, p)
<1>1. p \in LinePlaces /\ p.kind = "EXIT" /\ p.customer = c
  BY DEF Place, LinePlaces
<1>2. \A d \in debit : Last(M, active, d) /\ Only(M, d)
  BY LastExit, OnlyExit DEF Poised
<1>3. \A n \in 1..Len(M) : M[n] = p \/ (n \in 1..Len(L) /\ M[n] = L[n])
  BY <1>1, AppendPlaces
<1> HIDE DEF p, M
<1>4. ASSUME NEW d \in debit, NEW n \in 1..Len(M), M[n].kind = "POS" PROVE ~M[n].fresh
  BY <1>1, <1>3, <1>4 DEF Poised
<1>5. ASSUME NEW d \in debit
      PROVE  \/ d \in kiosk \ {c}
             \/ d \in gone \union {c} /\ ~(late /\ c \notin kiosk) /\ kiosk \ {c} = {}
  BY DEF Poised
<1>6. Poised(M, active, e, kiosk \ {c}, gone \union {c}, late /\ c \notin kiosk, debit)
  BY <1>2, <1>4, <1>5 DEF Poised
<1> QED
  BY <1>6 DEF M, p

(* The loop takes a POS: it is that of the customer in debit. *)
LEMMA PoisedPos ==
    ASSUME NEW L \in Seq(LinePlaces), L # <<>>, Head(L).kind = "POS", NEW active, NEW e,
           NEW kiosk, NEW gone, NEW late, NEW debit,
           Poised(L, active, e, kiosk, gone, late, debit), NEW less, less \subseteq debit
    PROVE  /\ Poised(Tail(L), Head(L).customer, e, kiosk, gone, late, less)
           /\ \A c \in debit : Head(L).customer = c
<1> DEFINE M == Tail(L)
           d == Head(L).customer
<1>1. \A n \in 1..Len(M) : M[n] = L[n + 1] /\ n + 1 \in 1..Len(L)
  BY TailPlaces
<1>2. \A c \in debit : Last(M, d, c) /\ Only(M, c) /\ d = c
  BY LastTail, OnlyTail DEF Poised
<1> HIDE DEF M
<1>3. ASSUME NEW c \in debit, NEW n \in 1..Len(M), M[n].kind = "POS" PROVE ~M[n].fresh
  <2>1. M[n] = L[n + 1] /\ n + 1 \in 1..Len(L)
    BY <1>1
  <2> QED
    BY <1>3, <2>1 DEF Poised
<1>4. Poised(M, d, e, kiosk, gone, late, less)
  BY <1>2, <1>3 DEF Poised, Free
<1> QED
  BY <1>2, <1>4 DEF M

(* The loop takes an EXIT, whose grace is not over. *)
LEMMA PoisedExit ==
    ASSUME NEW L \in Seq(LinePlaces), L # <<>>, Head(L).kind = "EXIT", NEW active,
           NEW E, NEW e \in Seq(E), NEW kiosk, NEW gone, NEW late, NEW debit,
           Poised(L, active, e, kiosk, gone, late, debit), NEW x \in E, x.due # 0
    PROVE  Poised(Tail(L), active, Append(e, x), kiosk, gone, late, debit)
<1> DEFINE M == Tail(L)
           f == Append(e, x)
<1>1. \A n \in 1..Len(M) : M[n] = L[n + 1] /\ n + 1 \in 1..Len(L)
  BY TailPlaces
<1>2. \A c \in debit : Last(M, active, c) /\ Only(M, c) /\ Free(active, f, c)
  BY LastTail, OnlyTail, FreeMore DEF Poised
<1>3. \A n \in 1..Len(f) : f[n] = x \/ (n \in 1..Len(e) /\ f[n] = e[n])
  BY AppendPlaces
<1> HIDE DEF M, f
<1>4. ASSUME NEW c \in debit, NEW n \in 1..Len(M), M[n].kind = "POS" PROVE ~M[n].fresh
  <2>1. M[n] = L[n + 1] /\ n + 1 \in 1..Len(L)
    BY <1>1
  <2> QED
    BY <1>4, <2>1 DEF Poised
<1>5. ASSUME NEW c \in debit, NEW n \in 1..Len(f), f[n].session.customer = c PROVE f[n].due # 0
  BY <1>3, <1>5 DEF Poised
<1>6. Poised(M, active, f, kiosk, gone, late, debit)
  BY <1>2, <1>4, <1>5 DEF Poised
<1> QED
  BY <1>6 DEF M, f

(* The oldest exit is judged: it is not that of the customer in debit. *)
LEMMA PoisedJudge ==
    ASSUME NEW L, NEW active, NEW E, NEW e \in Seq(E), e # <<>>, Head(e).due = 0, NEW kiosk,
           NEW gone, NEW late, NEW debit, Poised(L, active, e, kiosk, gone, late, debit), NEW next,
           next = IF active = Head(e).session.customer THEN NoCustomer ELSE active,
           NEW less, less \subseteq debit
    PROVE  /\ Poised(L, next, Tail(e), kiosk, gone, late, less)
           /\ Head(e).session.customer \notin debit
<1>1. /\ Head(e) = e[1] /\ 1 \in 1..Len(e)
      /\ \A n \in 1..Len(Tail(e)) : Tail(e)[n] = e[n + 1] /\ n + 1 \in 1..Len(e)
  BY TailPlaces
<1>2. Head(e).session.customer \notin debit
  BY <1>1 DEF Poised
<1>3. \A c \in debit : Last(L, next, c)
  BY <1>2 DEF Poised, Last
<1>4. \A c \in debit : Free(next, Tail(e), c)
  BY FreeLess DEF Poised
<1>5. ASSUME NEW c \in debit, NEW n \in 1..Len(Tail(e)), Tail(e)[n].session.customer = c
      PROVE  Tail(e)[n].due # 0
  <2>1. Tail(e)[n] = e[n + 1] /\ n + 1 \in 1..Len(e)
    BY <1>1
  <2> QED
    BY <1>5, <2>1 DEF Poised
<1>6. Poised(L, next, Tail(e), kiosk, gone, late, less)
  BY <1>3, <1>4, <1>5 DEF Poised
<1> QED
  BY <1>2, <1>6
-----------------------------------------------------------------------------
(* The completions handled, exactly: with COUNT never lost, and PAY_DONE   *)
(* and SUMMARY not both, each finished session is credited in full, once.  *)
Handled(a, done) ==
    a.finished["CUSTOMER"] - (IF a.pc = "summary" /\ a.user = "CUSTOMER" /\ ~done THEN 1 ELSE 0)

(* The scans handled are those of the checkout, and DONE was handled       *)
(* unless its line may be lost.                                            *)
Whole(a, done, reported) ==
    /\ a.pc = "product" /\ a.told => reported = a.count
    /\ a.pc = "summary" => reported = a.count
    /\ a.pc = "summary" /\ "PAY_DONE" \notin Lossy => done

(* At most the completion of the session on display is to be handled. *)
LEMMA HandledBounds ==
    ASSUME NEW a \in Stamps, NEW done
    PROVE  /\ Handled(a, done) \in Int /\ Handled(a, done) <= a.finished["CUSTOMER"]
           /\ a.pc # "summary" => Handled(a, done) = a.finished["CUSTOMER"]
  BY StampParts DEF Handled

(* A lost line changes nothing of what is handled and due. *)
LEMMA WholeSkips ==
    ASSUME Timely, NEW a \in Stamps, NEW b, Skips(a, b), NEW m, NEW done, NEW session,
           NEW reported, Tally(a, m, done, session, reported), Whole(a, done, reported)
    PROVE  /\ Whole(b, done, reported) /\ Handled(b, done) = Handled(a, done)
           /\ \A i \in Items : Due(b, done, i) = Due(a, done, i)
<1>1. /\ a.count \in Ledger /\ a.sold["CUSTOMER"] \in Ledger /\ a.finished["CUSTOMER"] \in Nat
      /\ done \in BOOLEAN
  BY StampParts DEF Tally
<1>2. "COUNT" \notin Lossy /\ ~("PAY_DONE" \in Lossy /\ "SUMMARY" \in Lossy)
  BY DEF Timely
<1>3. CASE b = a
  BY <1>3
<1>4. CASE "PAY_DONE" \in Lossy /\ a.pc = "product" /\ a.told /\ b = Paid(a)
  <2>1. reported = a.count /\ ~done
    BY <1>4 DEF Whole, Tally
  <2>2. Whole(b, done, reported)
    BY <1>4, <2>1, PaidParts DEF Whole
  <2>3. Handled(b, done) = Handled(a, done)
    BY <1>1, <1>4, <2>1, PaidParts DEF Handled
  <2>4. \A i \in Items : Due(b, done, i) = Due(a, done, i)
    BY <1>1, <1>4, <2>1, PaidParts DEF Due, Ledger
  <2> QED
    BY <2>2, <2>3, <2>4
<1>5. CASE "SUMMARY" \in Lossy /\ a.pc = "summary" /\ b = Ended(a)
  <2>1. done
    BY <1>2, <1>5 DEF Whole
  <2>2. b.pc = "closing" /\ b.sold = a.sold /\ b.finished = a.finished
    BY <1>5, EndedParts
  <2> QED
    BY <1>1, <1>5, <2>1, <2>2 DEF Whole, Handled, Due
<1> QED
  BY <1>2, <1>3, <1>4, <1>5 DEF Skips

(* The loop handles a line. *)
Squares(a, b) ==
    /\ Whole(b, committed', posReportedItems')
    /\ ~PaymentEdge => /\ Handled(b, committed') = Handled(a, committed)
                       /\ \A i \in Items : Due(b, committed', i) = Due(a, committed, i)
    /\ PaymentEdge =>
          /\ Handled(b, committed') = Handled(a, committed) + 1
          /\ CustomerPayment \in Ledger
          /\ \A i \in Items : Due(b, committed', i) = Due(a, committed, i) + CustomerPayment[i]

(* A line squares the accounts of the stamps around it. *)
LEMMA LineSquares ==
    ASSUME NEW a \in Stamps, Tally(a, mode, committed, posSessionItems, posReportedItems),
           Whole(a, committed, posReportedItems), NEW line, NEW b, Sells(a, line, b), Handle(line)
    PROVE  Squares(a, b)
<1>1. /\ a.count \in Ledger /\ a.sold["CUSTOMER"] \in Ledger /\ a.finished["CUSTOMER"] \in Nat
      /\ a.pc \notin {"product", "summary"} => a.count = Zero
      /\ committed \in BOOLEAN /\ b \in Stamps
  BY StampParts, SellsStamp DEF Tally
<1>2. ASSUME ~PaymentEdge, a.pc # "summary", b.pc # "summary", b.sold = a.sold,
             b.finished = a.finished, Whole(b, committed', posReportedItems')
      PROVE  Squares(a, b)
  BY <1>2 DEF Squares, Handled, Due
<1>3. CASE line.kind \in {"BOOT", "START", "SESSION_RESET"}
  <2>1. committed' = FALSE
    BY <1>3 DEF Handle, PosBoot, PosSessionStart, PosReset, RollbackAndReset, ResetPos
  <2>2. /\ a.pc # "summary" /\ b.pc \in {"closing", "select"} /\ b.sold = a.sold
        /\ b.finished = a.finished
    BY <1>3 DEF Sells, Prints, Ended, Started, Stamp
  <2> QED
    BY <1>2, <2>1, <2>2 DEF PaymentEdge, Whole
<1>4. CASE line.kind = "USER"
  <2>1. UNCHANGED <<committed, posReportedItems>>
    BY <1>4 DEF Handle, SelectMode, posVars
  <2>2. a.pc = "select" /\ b = Chosen(a, line.user)
    BY <1>4 DEF Sells, Prints
  <2>3. b.pc = "product" /\ b.count = a.count /\ b.sold = a.sold /\ b.finished = a.finished
    BY <2>2 DEF Chosen, Stamp
  <2>4. Whole(b, committed', posReportedItems')
    BY <1>1, <2>1, <2>2, <2>3 DEF Tally, Whole
  <2> QED
    BY <1>2, <2>1, <2>2, <2>3, <2>4 DEF PaymentEdge
<1>5. CASE line.kind = "PAY"
  <2>1. a.pc = "product" /\ b = Scanned(a, line.item)
    BY <1>5 DEF Sells, Prints
  <2>2. UNCHANGED committed
    BY <1>5 DEF Handle, Pay
  <2>3. b.pc = "product" /\ ~b.told /\ b.sold = a.sold /\ b.finished = a.finished
    BY <2>1 DEF Scanned
  <2>4. Whole(b, committed', posReportedItems')
    BY <2>3 DEF Whole
  <2> QED
    BY <1>2, <2>1, <2>2, <2>3, <2>4 DEF PaymentEdge
<1>6. CASE line.kind = "COUNT"
  <2>1. a.pc = "product" /\ b = Counted(a) /\ line.counts = a.count
    BY <1>6 DEF Sells, Prints
  <2>2. UNCHANGED committed /\ posReportedItems' = a.count
    BY <1>6, <2>1 DEF Handle, PosCount
  <2>3. b.pc = "product" /\ b.count = a.count /\ b.sold = a.sold /\ b.finished = a.finished
    BY <2>1 DEF Counted, Stamp
  <2>4. Whole(b, committed', posReportedItems')
    BY <2>2, <2>3 DEF Whole
  <2> QED
    BY <1>2, <2>1, <2>2, <2>3, <2>4 DEF PaymentEdge
<1>7. CASE line.kind = "PAY_DONE"
  <2>1. a.pc = "product" /\ b = Paid(a) /\ a.count # Zero /\ a.told
    BY <1>7 DEF Sells, Prints
  <2>2. committed' = TRUE /\ UNCHANGED <<mode, posReportedItems>>
    BY <1>7 DEF Handle, PayDone, Commit
  <2>3. mode = a.user /\ ~committed /\ posReportedItems = a.count
    BY <2>1 DEF Tally, Whole
  <2>4. Whole(b, committed', posReportedItems')
    BY <2>1, <2>2, <2>3, PaidParts DEF Whole
  <2>5. CASE mode = "CUSTOMER"
    <3>1. CustomerPayment = a.count
      BY <2>1, <2>2, <2>3 DEF CustomerPayment
    <3>2. \A i \in Items : /\ Due(b, committed', i) = a.sold["CUSTOMER"][i] + a.count[i]
                           /\ Due(a, committed, i) = a.sold["CUSTOMER"][i]
      BY <2>1, <2>2, <2>3, <2>5, PaidParts DEF Due
    <3>3. Handled(b, committed') = Handled(a, committed) + 1
      <4>1. b.finished["CUSTOMER"] = a.finished["CUSTOMER"] + 1
        BY <2>1, <2>3, <2>5, PaidParts
      <4>2. Handled(a, committed) = a.finished["CUSTOMER"]
        BY <1>1, <2>1, HandledBounds
      <4>3. Handled(b, committed') = b.finished["CUSTOMER"]
        BY <1>1, <2>2, <4>1 DEF Handled
      <4> QED
        BY <4>1, <4>2, <4>3
    <3>4. PaymentEdge
      BY <2>2, <2>3, <2>5 DEF PaymentEdge
    <3> QED
      BY <1>1, <2>4, <3>1, <3>2, <3>3, <3>4 DEF Squares
  <2>6. CASE mode # "CUSTOMER"
    <3>1. ~PaymentEdge
      BY <2>2, <2>6 DEF PaymentEdge
    <3>2. \A i \in Items : Due(b, committed', i) = Due(a, committed, i)
      BY <2>1, <2>2, <2>3, <2>6, PaidParts DEF Due
    <3>3. Handled(b, committed') = Handled(a, committed)
      BY <1>1, <2>1, <2>2, <2>3, <2>6, PaidParts DEF Handled
    <3> QED
      BY <2>4, <3>1, <3>2, <3>3 DEF Squares
  <2> QED
    BY <2>5, <2>6
<1>8. CASE line.kind = "SUMMARY"
  <2>1. a.pc = "summary" /\ b = Ended(a) /\ line.user = a.user /\ line.counts = a.count
    BY <1>8 DEF Sells, Prints
  <2>2. mode' = a.user /\ committed' = TRUE /\ posReportedItems' = a.count
    BY <1>8, <2>1 DEF Handle, PosDoneSummary, Reconcile, Commit
  <2>3. CustomerPayment = a.count
    BY <2>1, <2>2 DEF CustomerPayment, Tally
  <2>4. b.pc = "closing" /\ b.sold = a.sold /\ b.finished = a.finished
    BY <2>1, EndedParts
  <2>5. Whole(b, committed', posReportedItems')
    BY <2>4 DEF Whole
  <2>6. PaymentEdge <=> ~committed /\ a.user = "CUSTOMER"
    BY <2>2 DEF PaymentEdge
  <2>7. Handled(b, committed') = Handled(a, committed) + (IF PaymentEdge THEN 1 ELSE 0)
    BY <1>1, <2>1, <2>4, <2>6 DEF Handled
  <2>8. ASSUME ~PaymentEdge PROVE \A i \in Items : Due(b, committed', i) = Due(a, committed, i)
    BY <2>1, <2>4, <2>6, <2>8 DEF Due
  <2>9. ASSUME PaymentEdge, NEW i \in Items
        PROVE  Due(b, committed', i) = Due(a, committed, i) + a.count[i]
    BY <1>1, <2>1, <2>4, <2>6, <2>9 DEF Due, Ledger
  <2>10. CASE PaymentEdge
    BY <1>1, <2>3, <2>5, <2>7, <2>9, <2>10 DEF Squares
  <2>11. CASE ~PaymentEdge
    BY <1>1, <2>5, <2>7, <2>8, <2>11, HandledBounds DEF Squares
  <2> QED
    BY <2>10, <2>11
<1> QED
  BY <1>3, <1>4, <1>5, <1>6, <1>7, <1>8 DEF Handle
-----------------------------------------------------------------------------
(* Who has paid and is neither credited nor judged yet.  Their completion  *)
(* is the only one that is still to be handled, unless it waits as the     *)
(* unassigned payment.                                                     *)
Debit(t, p, v) ==
    {c \in Customers : /\ t[c] # Zero /\ p[c] = NotPaid
                       /\ \A n \in 1..Len(v) : v[n].customer # c}

(* The customers in debit now. *)
InDebit == Debit(truePaid, paidByCustomer, verdicts)

(* A payment is neither booked nor unassigned. *)
InTransit(debit, u) == debit # {} /\ ~(u.age <= Window)

(* What is not handled is the payment in transit, and nothing else. *)
Even(a, done, f, s, debit, u, t) ==
    /\ InTransit(debit, u) =>
          /\ Handled(a, done) + 1 = f
          /\ \A c \in debit, i \in Items : Due(a, done, i) + t[c][i] = s[i]
    /\ ~InTransit(debit, u) => Handled(a, done) = f

(* The trails, with the accounts of the first stamp exact. *)
Trading(g, x, h) ==
    /\ Trails(g, eventQueue, x, h, uart, Now)
    /\ Tally(g[1], mode, committed, posSessionItems, posReportedItems)
    /\ Whole(g[1], committed, posReportedItems)
    /\ Even(g[1], committed, finished["CUSTOMER"], sold["CUSTOMER"], InDebit, unassigned, truePaid)

(* The first stamp of a trail has sold no more than the last. *)
LEMMA TrailSold ==
    ASSUME NEW g, NEW q, NEW x, NEW h, NEW u, NEW now, Trails(g, q, x, h, u, now)
    PROVE  g[1] \in Stamps /\ now \in Stamps /\ SoldBy(g[1], now)
<1>1. /\ g[1] \in Stamps /\ x \in Stamps /\ h[1] \in Stamps /\ now \in Stamps
      /\ SoldBy(g[1], x) /\ SoldBy(x, h[1]) /\ SoldBy(h[1], now)
  BY TrailHead, SkipsStamp DEF Trails
<1> QED
  BY <1>1, SoldOn

(* When every completion has been handled, all that is sold is due. *)
LEMMA AllDue ==
    ASSUME NEW a \in Stamps, NEW b \in Stamps, SoldBy(a, b), NEW done,
           Handled(a, done) = b.finished["CUSTOMER"]
    PROVE  \A i \in Items : Due(a, done, i) = b.sold["CUSTOMER"][i]
<1>1. a.finished["CUSTOMER"] \in Nat /\ b.finished["CUSTOMER"] \in Nat
  BY StampParts
<1>2. a.finished["CUSTOMER"] <= b.finished["CUSTOMER"]
  BY DEF SoldBy
<1>3. /\ a.finished["CUSTOMER"] = b.finished["CUSTOMER"]
      /\ ~(a.pc = "summary" /\ a.user = "CUSTOMER" /\ ~done)
  BY <1>1, <1>2 DEF Handled
<1> QED
  BY <1>3 DEF SoldBy, Due

(* No more completions are handled than sessions are finished. *)
LEMMA NoneMore ==
    ASSUME NEW a \in Stamps, NEW b \in Stamps, SoldBy(a, b), NEW done
    PROVE  Handled(a, done) <= b.finished["CUSTOMER"] /\ Handled(a, done) \in Int
  BY HandledBounds, StampParts DEF SoldBy

(* The loop handles what is at the head of the trail, or leaves it. *)
LEMMA TradeOn ==
    ASSUME NEW g, NEW x, NEW h, Trading(g, x, h),
           NEW f, NEW y, NEW k, Trails(f, eventQueue', y, k, uart', Now'), f[1] = g[1],
           UNCHANGED <<mode, posVars>>,
           Even(g[1], committed, finished'["CUSTOMER"], sold'["CUSTOMER"], InDebit', unassigned',
                truePaid')
    PROVE  \E d, z, e : Trading(d, z, e)'
<1>1. Trading(f, y, k)'
  BY DEF Trading, posVars
<1> QED
  BY <1>1

(* Nothing is paid, booked or handled. *)
LEMMA TradeQuiet ==
    ASSUME NEW g, NEW x, NEW h, Trading(g, x, h),
           NEW f, NEW y, NEW k, Trails(f, eventQueue', y, k, uart', Now'), f[1] = g[1],
           UNCHANGED <<mode, posVars, finished, sold, truePaid, paidByCustomer, verdicts, unassigned>>
    PROVE  \E d, z, e : Trading(d, z, e)'
<1>1. InDebit' = InDebit
  BY DEF InDebit
<1>2. Even(g[1], committed, finished'["CUSTOMER"], sold'["CUSTOMER"], InDebit', unassigned', truePaid')
  BY <1>1 DEF Trading
<1> QED
  BY <1>2, TradeOn DEF posVars

(* A line is handled that completes no customer session. *)
LEMMA TradeLine ==
    ASSUME Timely, NEW g, NEW x, NEW h, Trading(g, x, h), HandlePosEvent
    PROVE  \E f, a : /\ Trails(f, eventQueue', x, h, uart', Now') /\ a = f[1]
                     /\ Tally(a, mode', committed', posSessionItems', posReportedItems')
                     /\ Whole(a, committed', posReportedItems')
                     /\ ~PaymentEdge =>
                           /\ Handled(a, committed') = Handled(g[1], committed)
                           /\ \A i \in Items : Due(a, committed', i) = Due(g[1], committed, i)
                     /\ PaymentEdge =>
                           /\ Handled(a, committed') = Handled(g[1], committed) + 1
                           /\ CustomerPayment \in Ledger
                           /\ \A i \in Items : Due(a, committed', i)
                                                  = Due(g[1], committed, i) + CustomerPayment[i]
<1> DEFINE line == Head(eventQueue)
<1>1. /\ eventQueue # <<>> /\ eventQueue' = Tail(eventQueue) /\ line.kind # "REMOVE_CANDIDATE"
      /\ Handle(line) /\ UNCHANGED <<Now, uart>>
  BY DEF HandlePosEvent, NextEvent, POS!LineKinds, firmwareVars, Now
<1>2. /\ Trails(g, eventQueue, x, h, uart, Now)
      /\ Tally(g[1], mode, committed, posSessionItems, posReportedItems)
      /\ Whole(g[1], committed, posReportedItems)
  BY DEF Trading
<1>3. /\ Trails(Tail(g), eventQueue', x, h, uart', Now') /\ Tail(g)[1] = g[2]
      /\ Leads(g[1], line, g[2]) /\ g[1] \in Stamps /\ g[2] \in Stamps
  BY <1>1, <1>2, EventTaken
<1> HIDE DEF line
<1>4. PICK y \in Stamps : Skips(g[1], y) /\ Sells(y, line, g[2])
  BY <1>1, <1>3 DEF Leads
<1>5. /\ Tally(y, mode, committed, posSessionItems, posReportedItems)
      /\ Whole(y, committed, posReportedItems)
      /\ Handled(y, committed) = Handled(g[1], committed)
      /\ \A i \in Items : Due(y, committed, i) = Due(g[1], committed, i)
  BY <1>2, <1>3, <1>4, TallySkips, WholeSkips
<1>6. Settles(y, g[2]) /\ Squares(y, g[2])
  BY <1>1, <1>4, <1>5, LineSettles, LineSquares
<1>7. Tally(g[2], mode', committed', posSessionItems', posReportedItems')
  BY <1>6 DEF Settles
<1> QED
  BY <1>3, <1>5, <1>6, <1>7 DEF Squares

(* A line that is no completion is handled. *)
LEMMA TradeNoPayment ==
    ASSUME Timely, NEW g, NEW x, NEW h, Trading(g, x, h), HandlePosEvent, ~PaymentEdge
    PROVE  \E d, z, e : Trading(d, z, e)'
<1>1. PICK f, a : /\ Trails(f, eventQueue', x, h, uart', Now') /\ a = f[1]
                  /\ Tally(a, mode', committed', posSessionItems', posReportedItems')
                  /\ Whole(a, committed', posReportedItems')
                  /\ Handled(a, committed') = Handled(g[1], committed)
                  /\ \A i \in Items : Due(a, committed', i) = Due(g[1], committed, i)
  BY TradeLine
<1>2. UNCHANGED <<finished, sold, truePaid, paidByCustomer, verdicts, unassigned>>
  BY DEF HandlePosEvent, CreditPayment, bookVars, storeVars, firmwareVars, outcomeVars
<1>3. InDebit' = InDebit
  BY <1>2 DEF InDebit
<1>4. Even(a, committed', finished'["CUSTOMER"], sold'["CUSTOMER"], InDebit', unassigned', truePaid')
  BY <1>1, <1>2, <1>3 DEF Trading, Even
<1>5. Trading(f, x, h)'
  BY <1>1, <1>4 DEF Trading
<1> QED
  BY <1>5

(* A pick is handled. *)
LEMMA TradePick ==
    ASSUME Timely, NEW g, NEW x, NEW h, Trading(g, x, h), HandlePick
    PROVE  \E d, z, e : Trading(d, z, e)'
<1> DEFINE event == Head(eventQueue)
<1>1. /\ eventQueue # <<>> /\ eventQueue' = Tail(eventQueue) /\ event.kind = "REMOVE_CANDIDATE"
      /\ UNCHANGED <<Now, uart, finished, sold, truePaid, paidByCustomer, verdicts, unassigned>>
  BY DEF HandlePick, NextEvent, firmwareVars, Now, outcomeVars, bookVars, storeVars
<1>2. UNCHANGED <<mode, committed, posSessionItems, posReportedItems>>
  BY DEF HandlePick, RemoveCandidate, vars, posVars
<1>3. /\ Trails(g, eventQueue, x, h, uart, Now)
      /\ Tally(g[1], mode, committed, posSessionItems, posReportedItems)
      /\ Whole(g[1], committed, posReportedItems)
  BY DEF Trading
<1>4. /\ Trails(Tail(g), eventQueue', x, h, uart', Now') /\ Tail(g)[1] = g[2]
      /\ Leads(g[1], event, g[2]) /\ g[1] \in Stamps /\ g[2] \in Stamps
  BY <1>1, <1>3, EventTaken
<1> HIDE DEF event
<1>5. Skips(g[1], g[2])
  BY <1>1, <1>4 DEF Leads, Sells, Prints
<1>6. /\ Tally(g[2], mode, committed, posSessionItems, posReportedItems)
      /\ Whole(g[2], committed, posReportedItems)
      /\ Handled(g[2], committed) = Handled(g[1], committed)
      /\ \A i \in Items : Due(g[2], committed, i) = Due(g[1], committed, i)
  BY <1>3, <1>4, <1>5, TallySkips, WholeSkips
<1>7. InDebit' = InDebit
  BY <1>1 DEF InDebit
<1>8. Even(g[2], committed', finished'["CUSTOMER"], sold'["CUSTOMER"], InDebit', unassigned', truePaid')
  BY <1>1, <1>2, <1>6, <1>7 DEF Trading, Even
<1>9. Trading(Tail(g), x, h)'
  BY <1>2, <1>4, <1>6, <1>8 DEF Trading
<1> QED
  BY <1>9
-----------------------------------------------------------------------------
(* The money follows the line: what is booked for a customer, or waits, is *)
(* what the customer paid, and the verdicts so far are right.              *)
Money(L, e, t, p, u, v, gone, visited) ==
    /\ \A c \in Customers : p[c] = NotPaid \/ (p[c] = t[c] /\ t[c] # Zero)
    /\ u.age <= Window => /\ ~DueExit(e)
                          /\ \E c \in Debit(t, p, v) : u.items = t[c] /\ At(L, "POS", c)
    /\ \A n \in 1..Len(v) :
           /\ v[n].customer \in gone
           /\ Situation(v[n].code, v[n].picked, t[v[n].customer], v[n].customer \in visited)

(* L is the line, and everything that depends on it is right. *)
Line(L) ==
    /\ Lists(L, sessionQueue, Coming)
    /\ Ordered(L, Gone, visitedPos)
    /\ Marks(Coming, sessionQueue, pendingExits, posSeen, seenTransitions, Gone, visitedPos)
    /\ Called(L, activeCustomer, pendingExits, AtKiosk, Gone, visitedPos, waited)
    /\ Poised(L, activeCustomer, pendingExits, AtKiosk, Gone, waited, InDebit)
    /\ Money(L, pendingExits, truePaid, paidByCustomer, unassigned, verdicts, Gone, visitedPos)

(* What the steps of the line take for granted. *)
Setting ==
    /\ Queues /\ OnePlace /\ Store /\ Waiting(pendingExits, loop)
    /\ Accounts(verdicts, paidByCustomer, unassigned, activeCustomer)

(* There is a line after the step as well. *)
Follows == Store' /\ Waiting(pendingExits', loop') /\ \E M : Line(M)'

(* The types that a line comes with. *)
LEMMA LineFacts ==
    ASSUME Setting, NEW L, Line(L)
    PROVE  /\ wire \in Seq(Messages) /\ Coming \in Seq(Messages) /\ sessionQueue \in Seq(Sessions)
           /\ pendingExits \in Seq(Exits) /\ L \in Seq(LinePlaces)
           /\ Unseen(Coming, seenTransitions) /\ Wired(Coming, sessionQueue, Gone, visitedPos)
           /\ \A n \in 1..Len(pendingExits) : pendingExits[n].session.customer \in Gone
           /\ AtKiosk \intersect Gone = {} /\ AtKiosk \subseteq Customers /\ Gone \subseteq Customers
           /\ visitedPos \subseteq AtKiosk \union Gone /\ \A c, d \in AtKiosk : c = d
<1>1. /\ wire \in Seq(Messages) /\ Coming \in Seq(Messages) /\ sessionQueue \in Seq(Sessions)
      /\ pendingExits \in Seq(Exits) /\ L \in Seq(LinePlaces)
  BY ComingMessages DEF Setting, Queues, Line, Lists
<1>2. Wired(Coming, sessionQueue, Gone, visitedPos)
  BY <1>1, WiredByOrder DEF Line
<1>3. Unseen(Coming, seenTransitions)
  BY <1>1, <1>2, MarksUnseen DEF Line
<1>4. \A n \in 1..Len(pendingExits) : pendingExits[n].session.customer \in Gone
  <2> TAKE n \in 1..Len(pendingExits)
  <2>1. pendingExits[n].session.customer \in Customers
    <3>1. pendingExits[n] \in Exits
      BY <1>1
    <3> QED
      BY <3>1 DEF Exits, Sessions
  <2>2. <<pendingExits[n].session.customer, "EXIT", 2>> \in seenTransitions
    BY DEF Setting, OnePlace, Known
  <2> QED
    BY <2>1, <2>2 DEF Line, Marks
<1>5. /\ AtKiosk \intersect Gone = {} /\ AtKiosk \subseteq Customers /\ Gone \subseteq Customers
      /\ visitedPos \subseteq AtKiosk \union Gone /\ \A c, d \in AtKiosk : c = d
  BY StoreSets DEF Setting, Store
<1> QED
  BY <1>1, <1>2, <1>3, <1>4, <1>5

(* A step away from the line. *)
LEMMA FollowsQuiet ==
    ASSUME Setting, NEW L, Line(L),
           UNCHANGED <<storeVars, wire, sessionQueue, visionVars, bookVars, pendingExits, verdicts>>,
           loop' \in {loop, "sessions", AfterSessions(pendingExits), "dead"}
    PROVE  Follows
<1>1. Store' /\ UNCHANGED <<AtKiosk, Gone>>
  BY StoreKept DEF Setting, storeVars
<1>2. Coming' = Coming
  BY DEF Coming, Vision!NotSeen, visionVars
<1>3. InDebit' = InDebit
  BY DEF InDebit, storeVars, bookVars
<1>4. Line(L)'
  BY <1>1, <1>2, <1>3 DEF Line, storeVars, visionVars, bookVars
<1>5. Waiting(pendingExits', loop')
  BY DEF Setting, Waiting, AfterSessions
<1> QED
  BY <1>1, <1>4, <1>5 DEF Follows

(* A customer comes to the kiosk. *)
LEMMA FollowsApproach ==
    ASSUME Timely, Setting, NEW L, Line(L), NEW c \in Customers, Approach(c)
    PROVE  Follows
<1>1. /\ Store' /\ AtKiosk = {} /\ AtKiosk' = {c} /\ Gone' = Gone
      /\ c \notin Gone /\ c \notin visitedPos /\ visitedPos' = visitedPos \union {c}
      /\ waited = TRUE /\ waited' = FALSE
  BY ApproachStore DEF Setting, Store, Approach
<1>2. /\ UNCHANGED <<sessionQueue, posSeen, seenTransitions, bookVars, pendingExits, verdicts, loop,
                     truePaid>>
      /\ Publish(c, "POS")
  BY DEF Approach, visionVars, loopVars, outcomeVars
<1>3. PICK picked \in PickSets[c] : wire' = Append(wire, Message(c, "POS", picked))
  BY <1>2 DEF Publish
<1> DEFINE m == Message(c, "POS", picked)
           M == Append(L, Place("POS", c))
<1>4. /\ m \in Messages /\ Vision!Key(m) \notin seenTransitions
      /\ Marks(Append(Coming, m), sessionQueue, pendingExits, posSeen, seenTransitions, Gone,
               visitedPos \union {c})
  <2>1. /\ Coming \in Seq(Messages) /\ Wired(Coming, sessionQueue, Gone, visitedPos)
        /\ Marks(Coming, sessionQueue, pendingExits, posSeen, seenTransitions, Gone, visitedPos)
        /\ \A n \in 1..Len(pendingExits) : pendingExits[n].session.customer \in Gone
    BY LineFacts DEF Line
  <2> QED
    BY <1>1, <2>1, MarksPos
<1>5. m.state = "POS" /\ m.customer = c
  BY DEF Message
<1> HIDE DEF m
<1>6. Coming' = Append(Coming, m)
  BY <1>2, <1>3, <1>4, LineFacts, ComingPublish DEF Vision!NotSeen, m
<1>7. Lists(M, sessionQueue, Append(Coming, m))
  BY <1>4, <1>5, LineFacts, ListsPublish DEF Line
<1>8. Ordered(M, Gone, visitedPos \union {c})
  BY <1>1, LineFacts, OrderedPos DEF Line
<1>9. Called(M, activeCustomer, pendingExits, {c}, Gone, visitedPos \union {c}, FALSE)
  <2>1. Called(L, activeCustomer, pendingExits, {}, Gone, visitedPos, TRUE)
    BY <1>1 DEF Line
  <2> QED
    BY <1>1, <2>1, LineFacts, CalledApproach DEF Line
<1>10. InDebit = {}
  <2>1. Poised(L, activeCustomer, pendingExits, {}, Gone, TRUE, InDebit)
    BY <1>1 DEF Line
  <2> QED
    BY <2>1, PoisedNobody
<1>11. InDebit' = InDebit
  BY <1>2 DEF InDebit, bookVars
<1>12. Poised(M, activeCustomer, pendingExits, {c}, Gone, FALSE, {})
  BY DEF Poised
<1>13. Money(M, pendingExits, truePaid, paidByCustomer, unassigned, verdicts, Gone, visitedPos \union {c})
  BY <1>1, <1>10 DEF Line, Money, InDebit
<1> HIDE DEF M
<1>14. Line(M)'
  BY <1>1, <1>2, <1>4, <1>6, <1>7, <1>8, <1>9, <1>10, <1>11, <1>12, <1>13 DEF Line, bookVars
<1>15. Waiting(pendingExits', loop')
  BY <1>2 DEF Setting
<1> QED
  BY <1>1, <1>14, <1>15 DEF Follows

(* A customer leaves. *)
LEMMA FollowsLeave ==
    ASSUME Timely, Setting, NEW L, Line(L), NEW c \in Customers, Leave(c)
    PROVE  Follows
<1>1. /\ Store' /\ AtKiosk' = AtKiosk \ {c} /\ Gone' = Gone \union {c}
      /\ c \notin Gone /\ waited' = (waited /\ c \notin AtKiosk)
      /\ visitedPos' = visitedPos /\ truePaid' = truePaid
  BY LeaveStore DEF Setting
<1>2. /\ UNCHANGED <<sessionQueue, posSeen, seenTransitions, bookVars, pendingExits, verdicts, loop>>
      /\ Publish(c, "EXIT")
  BY DEF Leave, visionVars, loopVars, outcomeVars
<1>3. PICK picked \in PickSets[c] : wire' = Append(wire, Message(c, "EXIT", picked))
  BY <1>2 DEF Publish
<1> DEFINE m == Message(c, "EXIT", picked)
           M == Append(L, Place("EXIT", c))
<1>4. /\ m \in Messages /\ Vision!Key(m) \notin seenTransitions
      /\ Marks(Append(Coming, m), sessionQueue, pendingExits, posSeen, seenTransitions,
               Gone \union {c}, visitedPos)
  BY <1>1, LineFacts, MarksExit DEF Line
<1>5. m.state = "EXIT" /\ m.customer = c
  BY DEF Message
<1> HIDE DEF m
<1>6. Coming' = Append(Coming, m)
  BY <1>2, <1>3, <1>4, LineFacts, ComingPublish DEF Vision!NotSeen, m
<1>7. Lists(M, sessionQueue, Append(Coming, m))
  BY <1>4, <1>5, LineFacts, ListsPublish DEF Line
<1>8. Ordered(M, Gone \union {c}, visitedPos)
  BY <1>1, LineFacts, OrderedExit DEF Line
<1>9. Called(M, activeCustomer, pendingExits, AtKiosk \ {c}, Gone \union {c}, visitedPos,
             waited /\ c \notin AtKiosk)
  BY <1>1, LineFacts, CalledLeave DEF Line
<1>10. Poised(M, activeCustomer, pendingExits, AtKiosk \ {c}, Gone \union {c},
              waited /\ c \notin AtKiosk, InDebit)
  BY <1>1, LineFacts, PoisedLeave DEF Line
<1>11. InDebit' = InDebit
  BY <1>1, <1>2 DEF InDebit, bookVars
<1>12. ASSUME NEW d, At(L, "POS", d) PROVE At(M, "POS", d)
  <2>1. \A n \in 1..Len(L) : M[n] = L[n] /\ n \in 1..Len(M)
    <3>1. Place("EXIT", c) \in LinePlaces
      BY DEF Place, LinePlaces
    <3> QED
      BY <3>1, LineFacts, AppendPlaces
  <2> QED
    BY <1>12, <2>1 DEF At
<1>13. Money(M, pendingExits, truePaid, paidByCustomer, unassigned, verdicts, Gone \union {c}, visitedPos)
  BY <1>12 DEF Line, Money
<1> HIDE DEF M
<1>14. Line(M)'
  BY <1>1, <1>2, <1>4, <1>6, <1>7, <1>8, <1>9, <1>10, <1>11, <1>13 DEF Line, bookVars
<1>15. Waiting(pendingExits', loop')
  BY <1>2 DEF Setting
<1> QED
  BY <1>1, <1>14, <1>15 DEF Follows

(* DONE is pressed when nobody is in debit. *)
LEMMA FollowsDone ==
    ASSUME Timely, Setting, NEW L, Line(L), count \in Ledger,
           NEW c \in AtKiosk, stage[c] = "kiosk", PressDone(c),
           UNCHANGED <<waited, visitedPos, wire, visionVars, sessionQueue, loopVars>>
    PROVE  /\ Follows /\ InDebit = {} /\ InDebit' = {c} /\ truePaid'[c] = count
           /\ ~(unassigned'.age <= Window)
<1>1. /\ waited = TRUE /\ count # Zero
  BY DEF PressDone, Timely, EveryPaymentTold, Setting, Store
<1>2. /\ Store' /\ UNCHANGED <<AtKiosk, Gone>>
      /\ truePaid[c] = Zero /\ truePaid' = [truePaid EXCEPT ![c] = count]
  BY DoneStore DEF Setting
<1>3. /\ UNCHANGED <<Coming, sessionQueue, posSeen, seenTransitions, bookVars, pendingExits,
                     verdicts, loop>>
  BY DEF Coming, Vision!NotSeen, visionVars, loopVars, outcomeVars
<1>4. c \notin Gone /\ c \in Customers
  BY LineFacts
<1>5. Poised(L, activeCustomer, pendingExits, AtKiosk, Gone, TRUE, InDebit)
  BY <1>1 DEF Line
<1>6. InDebit = {}
  <2> SUFFICES ASSUME NEW d \in InDebit PROVE FALSE
    OBVIOUS
  <2>1. d \in AtKiosk
    BY <1>5 DEF Poised
  <2>2. d = c
    BY <2>1, LineFacts
  <2> QED
    BY <1>2, <2>2 DEF InDebit, Debit
<1>7. paidByCustomer[c] = NotPaid
  BY <1>2, <1>4 DEF Line, Money
<1>8. \A n \in 1..Len(verdicts) : verdicts[n].customer # c
  BY <1>4 DEF Line, Money
<1>9. truePaid \in [Customers -> Ledger]
  BY DEF Setting, Store
<1>10. truePaid'[c] = count /\ \A d \in Customers : d # c => truePaid'[d] = truePaid[d]
  BY <1>2, <1>4, <1>9
<1>11. InDebit' = {c}
  BY <1>1, <1>3, <1>4, <1>6, <1>7, <1>8, <1>10 DEF InDebit, Debit, bookVars
<1>12. Poised(L, activeCustomer, pendingExits, AtKiosk, Gone, TRUE, {c})
  <2>1. Called(L, activeCustomer, pendingExits, AtKiosk, Gone, visitedPos, TRUE)
    BY <1>1 DEF Line
  <2> QED
    BY <1>4, <2>1, LineFacts, PoisedDone
<1>13. ~(unassigned.age <= Window)
  BY <1>6 DEF Line, Money, InDebit
<1>14. Money(L, pendingExits, truePaid', paidByCustomer, unassigned, verdicts, Gone, visitedPos)
  <2>1. \A d \in Customers : paidByCustomer[d] = NotPaid
                               \/ (paidByCustomer[d] = truePaid'[d] /\ truePaid'[d] # Zero)
    BY <1>7, <1>10 DEF Line, Money
  <2>2. \A n \in 1..Len(verdicts) :
           /\ verdicts[n].customer \in Gone
           /\ Situation(verdicts[n].code, verdicts[n].picked, truePaid'[verdicts[n].customer],
                        verdicts[n].customer \in visitedPos)
    <3> TAKE n \in 1..Len(verdicts)
    <3>1. /\ verdicts[n].customer \in Gone /\ verdicts[n].customer \in Customers
          /\ Situation(verdicts[n].code, verdicts[n].picked, truePaid[verdicts[n].customer],
                       verdicts[n].customer \in visitedPos)
      BY LineFacts DEF Line, Money
    <3>2. truePaid'[verdicts[n].customer] = truePaid[verdicts[n].customer]
      BY <1>8, <1>10, <3>1
    <3> QED
      BY <3>1, <3>2
  <2> QED
    BY <1>13, <2>1, <2>2 DEF Money
<1>15. Line(L)'
  BY <1>1, <1>2, <1>3, <1>11, <1>12, <1>14 DEF Line, bookVars
<1>16. Waiting(pendingExits', loop')
  BY <1>3 DEF Setting
<1> QED
  BY <1>2, <1>3, <1>6, <1>10, <1>11, <1>13, <1>15, <1>16 DEF Follows, bookVars

(* The subscriber receives a message, or a repetition. *)
LEMMA FollowsReceive ==
    ASSUME Timely, Setting, NEW L, Line(L), ReceiveTransition
    PROVE  Follows
<1>1. UNCHANGED <<storeVars, loopVars>>
  BY DEF ReceiveTransition
<1>2. Store' /\ UNCHANGED <<AtKiosk, Gone>>
  BY <1>1, StoreKept DEF Setting, storeVars
<1>3. InDebit' = InDebit /\ UNCHANGED <<bookVars, pendingExits, verdicts, loop>>
  BY <1>1 DEF InDebit, storeVars, loopVars, bookVars, outcomeVars
<1>4. /\ Lists(L, sessionQueue', Coming')
      /\ Marks(Coming', sessionQueue', pendingExits, posSeen', seenTransitions', Gone, visitedPos)
  <2>1. CASE Coming' = Coming /\ UNCHANGED <<sessionQueue, posSeen, seenTransitions>>
    BY <2>1 DEF Line
  <2>2. CASE /\ Coming # <<>> /\ Coming' = Tail(Coming)
             /\ Vision!NotSeen(Head(Coming)) /\ Vision!ProcessTransition(Head(Coming))
    <3>1. /\ Coming \in Seq(Messages) /\ sessionQueue \in Seq(Sessions)
          /\ Wired(Coming, sessionQueue, Gone, visitedPos)
          /\ Marks(Coming, sessionQueue, pendingExits, posSeen, seenTransitions, Gone, visitedPos)
          /\ Lists(L, sessionQueue, Coming)
      BY LineFacts DEF Line
    <3>2. /\ Vision!Session(Head(Coming)) \in Sessions
          /\ sessionQueue' = Append(sessionQueue, Vision!Session(Head(Coming)))
          /\ Marks(Tail(Coming), sessionQueue', pendingExits, posSeen', seenTransitions', Gone,
                   visitedPos)
      BY <2>2, <3>1, MarksReceive
    <3>3. /\ Vision!Session(Head(Coming)).kind = Head(Coming).state
          /\ Vision!Session(Head(Coming)).customer = Head(Coming).customer
      BY DEF Vision!Session
    <3>4. Lists(L, sessionQueue', Tail(Coming))
      BY <2>2, <3>1, <3>2, <3>3, ListsReceive
    <3> QED
      BY <2>2, <3>2, <3>4
  <2>3. wire \in Seq(Messages) /\ Unseen(Coming, seenTransitions)
    BY LineFacts
  <2> QED
    BY <2>1, <2>2, <2>3, ComingReceive
<1>5. Line(L)'
  BY <1>1, <1>2, <1>3, <1>4 DEF Line, bookVars, storeVars
<1>6. Waiting(pendingExits', loop')
  BY <1>3 DEF Setting
<1> QED
  BY <1>2, <1>5, <1>6 DEF Follows

(* The loop takes a POS: an unassigned payment becomes that customer's. *)
LEMMA FollowsPos ==
    ASSUME Timely, Setting, NEW L, Line(L), TakeSession,
           Head(sessionQueue).kind = "POS", CustomerPos(Head(sessionQueue).customer)
    PROVE  /\ Follows /\ ~InTransit(InDebit', unassigned') = ~InTransit(InDebit, unassigned)
           /\ InTransit(InDebit, unassigned) => InDebit' = InDebit
<1> DEFINE c == Head(sessionQueue).customer
           M == Tail(L)
<1>1. /\ sessionQueue # <<>> /\ sessionQueue' = Tail(sessionQueue) /\ loop = "sessions"
      /\ UNCHANGED <<storeVars, wire, posSeen, seenTransitions, loop, verdicts, pendingExits>>
      /\ activeCustomer' = c
  BY DEF TakeSession, visionVars, outcomeVars, CustomerPos
<1>2. Store' /\ UNCHANGED <<AtKiosk, Gone>>
  BY <1>1, StoreKept DEF Setting, storeVars
<1>3. Coming' = Coming
  BY <1>1 DEF Coming, Vision!NotSeen
<1>4. /\ Coming \in Seq(Messages) /\ sessionQueue \in Seq(Sessions) /\ pendingExits \in Seq(Exits)
      /\ L \in Seq(LinePlaces)
  BY LineFacts
<1>5. /\ Lists(M, Tail(sessionQueue), Coming) /\ L # <<>>
      /\ Head(L).kind = "POS" /\ Head(L).customer = c
  BY <1>1, <1>4, ListsTake DEF Line
<1>6. c \in Customers
  <2>1. Head(sessionQueue) \in Sessions
    BY <1>1, <1>4, TailOne
  <2> QED
    BY <2>1 DEF Sessions
<1> HIDE DEF c
<1>7. Ordered(M, Gone, visitedPos)
  BY <1>4, <1>5, OrderedTail DEF Line
<1>8. Marks(Coming, Tail(sessionQueue), pendingExits, posSeen, seenTransitions, Gone, visitedPos)
  BY <1>1, <1>4, MarksTake DEF Line
<1>9. Called(M, c, pendingExits, AtKiosk, Gone, visitedPos, waited)
  <2>1. Called(M, Head(L).customer, pendingExits, AtKiosk, Gone, visitedPos, waited)
    BY <1>4, <1>5, CalledPos DEF Line
  <2> QED
    BY <1>5, <2>1
<1>10. ASSUME NEW less, less \subseteq InDebit
       PROVE  /\ Poised(M, c, pendingExits, AtKiosk, Gone, waited, less)
              /\ \A d \in InDebit : d = c
  <2>1. /\ Poised(M, Head(L).customer, pendingExits, AtKiosk, Gone, waited, less)
        /\ \A d \in InDebit : Head(L).customer = d
    BY <1>4, <1>5, <1>10, PoisedPos DEF Line
  <2> QED
    BY <1>5, <2>1
<1>11. Waiting(pendingExits', loop')
  BY <1>1 DEF Setting
<1>12. CASE ~Usable
  <2>1. UNCHANGED <<paidByCustomer, unassigned>>
    BY <1>12 DEF CustomerPos
  <2>2. InDebit' = InDebit
    BY <1>1, <2>1 DEF InDebit, storeVars
  <2>3. Money(M, pendingExits, truePaid, paidByCustomer, unassigned, verdicts, Gone, visitedPos)
    BY <1>12 DEF Line, Money, Usable
  <2>4. Line(M)'
    BY <1>1, <1>2, <1>3, <1>5, <1>7, <1>8, <1>9, <1>10, <2>1, <2>2, <2>3 DEF Line, storeVars
  <2> QED
    BY <1>2, <1>11, <2>1, <2>2, <2>4 DEF Follows
<1>13. CASE Usable
  <2>1. /\ paidByCustomer' = [paidByCustomer EXCEPT ![c] = unassigned.items]
        /\ unassigned' = NoPayment
    BY <1>13 DEF CustomerPos, c
  <2>2. PICK d \in InDebit : unassigned.items = truePaid[d]
    BY <1>13 DEF Line, Money, Usable, InDebit
  <2>3. d = c /\ unassigned.items = truePaid[c] /\ truePaid[c] # Zero /\ truePaid[c] # NotPaid
    <3>1. d = c
      BY <1>10
    <3>2. truePaid[c] # Zero /\ truePaid[c] \in Ledger
      BY <1>6, <2>2, <3>1 DEF InDebit, Debit, Setting, Store
    <3> QED
      BY <2>2, <3>1, <3>2, LedgerIsPaid
  <2>4. /\ paidByCustomer'[c] = truePaid[c]
        /\ \A b \in Customers : b # c => paidByCustomer'[b] = paidByCustomer[b]
    <3>1. paidByCustomer \in [Customers -> Ledger \union {NotPaid}]
      BY DEF Setting, Accounts
    <3> QED
      BY <1>6, <2>1, <2>3, <3>1
  <2>5. InDebit' = {}
    <3> SUFFICES ASSUME NEW b \in InDebit' PROVE FALSE
      OBVIOUS
    <3>1. /\ b \in Customers /\ truePaid[b] # Zero /\ paidByCustomer'[b] = NotPaid
          /\ \A n \in 1..Len(verdicts) : verdicts[n].customer # b
      BY <1>1 DEF InDebit, Debit, storeVars
    <3>2. b # c
      BY <2>3, <2>4, <3>1
    <3>3. b \in InDebit
      BY <2>4, <3>1, <3>2 DEF InDebit, Debit
    <3> QED
      BY <1>10, <3>2, <3>3
  <2>6. ~(unassigned'.age <= Window)
    BY <2>1, TimeAssumption DEF NoPayment
  <2>7. Money(M, pendingExits, truePaid, paidByCustomer', unassigned', verdicts, Gone, visitedPos)
    BY <2>3, <2>4, <2>6 DEF Line, Money
  <2>8. Line(M)'
    BY <1>1, <1>2, <1>3, <1>5, <1>7, <1>8, <1>9, <1>10, <2>5, <2>7 DEF Line, storeVars
  <2>9. ~InTransit(InDebit', unassigned') /\ ~InTransit(InDebit, unassigned)
    BY <1>13, <2>5 DEF InTransit, Usable
  <2> QED
    BY <1>2, <1>11, <2>8, <2>9 DEF Follows
<1> QED
  BY <1>12, <1>13

(* The loop takes an EXIT, and its grace begins. *)
LEMMA FollowsExit ==
    ASSUME Timely, Setting, NEW L, Line(L), TakeSession,
           Head(sessionQueue).kind = "EXIT", CustomerExit(Head(sessionQueue))
    PROVE  Follows
<1> DEFINE x == [session |-> Head(sessionQueue), due |-> Grace]
           M == Tail(L)
<1>1. /\ sessionQueue # <<>> /\ sessionQueue' = Tail(sessionQueue) /\ loop = "sessions"
      /\ UNCHANGED <<storeVars, wire, posSeen, seenTransitions, loop, verdicts, bookVars>>
      /\ pendingExits' = Append(pendingExits, x)
  BY DEF TakeSession, visionVars, outcomeVars, CustomerExit
<1>2. Store' /\ UNCHANGED <<AtKiosk, Gone>>
  BY <1>1, StoreKept DEF Setting, storeVars
<1>3. Coming' = Coming /\ InDebit' = InDebit
  BY <1>1 DEF Coming, Vision!NotSeen, InDebit, storeVars, bookVars
<1>4. /\ Coming \in Seq(Messages) /\ sessionQueue \in Seq(Sessions) /\ pendingExits \in Seq(Exits)
      /\ L \in Seq(LinePlaces) /\ Grace # 0 /\ Grace \in Nat
  BY LineFacts, TimeAssumption DEF Timely
<1>5. /\ Lists(M, Tail(sessionQueue), Coming) /\ L # <<>> /\ Head(L).kind = "EXIT"
      /\ Head(L).customer = Head(sessionQueue).customer
  BY <1>1, <1>4, ListsTake DEF Line
<1>6. x \in Exits /\ x.due = Grace /\ x.session = Head(sessionQueue)
  <2>1. Head(sessionQueue) \in Sessions
    BY <1>1, <1>4, TailOne
  <2> QED
    BY <1>4, <2>1 DEF Exits
<1>7. Ordered(M, Gone, visitedPos)
  BY <1>4, <1>5, OrderedTail DEF Line
<1>8. Marks(Coming, Tail(sessionQueue), pendingExits', posSeen, seenTransitions, Gone, visitedPos)
  BY <1>1, <1>4, MarksTake DEF Line
<1> HIDE DEF x
<1>9. Called(M, activeCustomer, pendingExits', AtKiosk, Gone, visitedPos, waited)
  BY <1>1, <1>4, <1>5, <1>6, CalledExit DEF Line
<1>10. Poised(M, activeCustomer, pendingExits', AtKiosk, Gone, waited, InDebit)
  BY <1>1, <1>4, <1>5, <1>6, PoisedExit DEF Line
<1>11. /\ Waiting(pendingExits', loop')
       /\ ~DueExit(pendingExits) => ~DueExit(pendingExits')
  BY <1>1, <1>4, <1>6, WaitingMore DEF Setting
<1>12. ASSUME NEW d, At(L, "POS", d) PROVE At(M, "POS", d)
  <2>1. PICK n \in 1..Len(L) : L[n].kind = "POS" /\ L[n].customer = d
    BY <1>12 DEF At
  <2>2. Head(L) = L[1] /\ (n # 1 => n - 1 \in 1..Len(M) /\ L[n] = M[n - 1])
    BY <1>4, <1>5, TailPlaces
  <2>3. n - 1 \in 1..Len(M) /\ L[n] = M[n - 1]
    BY <1>5, <2>1, <2>2
  <2> QED
    BY <2>1, <2>3 DEF At
<1>13. Money(M, pendingExits', truePaid, paidByCustomer, unassigned, verdicts, Gone, visitedPos)
  BY <1>11, <1>12 DEF Line, Money
<1> HIDE DEF M
<1>14. Line(M)'
  BY <1>1, <1>2, <1>3, <1>5, <1>7, <1>8, <1>9, <1>10, <1>13 DEF Line, storeVars, bookVars
<1> QED
  BY <1>2, <1>11, <1>14 DEF Follows

(* An exit is judged by what its customer paid. *)
LEMMA FollowsJudge ==
    ASSUME Timely, Setting, NEW L, Line(L), JudgeExit
    PROVE  Follows /\ InDebit' = InDebit /\ unassigned' = unassigned
<1> DEFINE s == Head(pendingExits).session
           c == s.customer
           own == paidByCustomer[c]
           code == ExitCode(s.picked, PaidFor(own), s.wasAtKiosk)
           verdict == [customer |-> c, picked |-> s.picked, paid |-> PaidFor(own), code |-> code]
           next == IF activeCustomer = c THEN NoCustomer ELSE activeCustomer
<1>1. /\ loop = "exits" /\ pendingExits' = Tail(pendingExits)
      /\ verdicts' = Append(verdicts, verdict)
      /\ UseUpUnassigned(own)
      /\ paidByCustomer' = [paidByCustomer EXCEPT ![c] = NotPaid]
      /\ activeCustomer' = next
      /\ loop' = AfterSessions(Tail(pendingExits)) \/ loop' = "dead"
      /\ UNCHANGED <<storeVars, wire, posSeen, seenTransitions, sessionQueue>>
  BY DEF JudgeExit, BreakOff, visionVars
<1>2. Store' /\ UNCHANGED <<AtKiosk, Gone>>
  BY <1>1, StoreKept DEF Setting, storeVars
<1>3. Coming' = Coming
  BY <1>1 DEF Coming, Vision!NotSeen
<1>4. /\ pendingExits \in Seq(Exits) /\ pendingExits # <<>> /\ DueExit(pendingExits)
      /\ Waiting(pendingExits, loop)
  BY <1>1, LineFacts DEF Setting, Queues, Waiting
<1>5. /\ 1 \in 1..Len(pendingExits) /\ Head(pendingExits) = pendingExits[1]
      /\ s \in Sessions /\ Head(pendingExits).due = 0
  <2>1. /\ 1 \in 1..Len(pendingExits) /\ Head(pendingExits) = pendingExits[1]
        /\ Head(pendingExits) \in Exits
    BY <1>4, TailPlaces
  <2> QED
    BY <1>4, <2>1 DEF Exits, DueExit
<1>6. c \in Customers /\ s.picked \in Ledger /\ s.wasAtKiosk \in BOOLEAN
  BY <1>5 DEF Sessions, Picks, Timely
<1>7. c \in Gone /\ (s.wasAtKiosk <=> c \in visitedPos)
  BY <1>5, LineFacts DEF Line, Marks
<1>8. \A n \in 1..Len(verdicts) : verdicts[n].customer # c
  BY <1>5 DEF Setting, OnePlace, Apart
<1> HIDE DEF s
<1>9. ~Usable
  BY <1>4 DEF Line, Money, Usable
<1>10. unassigned' = unassigned
  BY <1>1, <1>9 DEF UseUpUnassigned
<1>11. c \notin InDebit /\ \A less \in SUBSET InDebit :
            Poised(L, next, Tail(pendingExits), AtKiosk, Gone, waited, less)
  <2>1. Poised(L, activeCustomer, pendingExits, AtKiosk, Gone, waited, InDebit)
    BY DEF Line
  <2> QED
    BY <1>4, <1>5, <2>1, PoisedJudge DEF s
<1>12. PaidFor(own) = truePaid[c]
  <2>1. own = NotPaid \/ (own = truePaid[c] /\ truePaid[c] # Zero)
    BY <1>6 DEF Line, Money
  <2>2. CASE own = NotPaid
    <3>1. truePaid[c] = Zero
      BY <1>6, <1>8, <1>11, <2>2 DEF InDebit, Debit
    <3> QED
      BY <1>9, <2>2, <3>1 DEF PaidFor
  <2>3. CASE own # NotPaid
    BY <2>1, <2>3 DEF PaidFor
  <2> QED
    BY <2>2, <2>3
<1>13. Situation(code, s.picked, truePaid[c], c \in visitedPos)
  <2>1. truePaid[c] \in [Items -> Nat] /\ s.picked \in [Items -> Nat]
    BY <1>6 DEF Setting, Store, Ledger
  <2>2. Situation(code, s.picked, truePaid[c], s.wasAtKiosk)
    BY <1>6, <1>12, <2>1, VerdictByTable
  <2>3. s.wasAtKiosk = (c \in visitedPos)
    BY <1>6, <1>7
  <2> QED
    BY <2>2, <2>3
<1>14. \E V : verdicts \in Seq(V)
  BY DEF Setting, Queues
<1>15. verdict.customer = c /\ verdict.picked = s.picked /\ verdict.code = code
  OBVIOUS
<1> HIDE DEF verdict, code, c, own
<1>16. /\ Len(verdicts) \in Nat /\ Len(verdicts') = Len(verdicts) + 1
       /\ verdicts'[Len(verdicts) + 1] = verdict
       /\ \A n \in 1..Len(verdicts) : verdicts'[n] = verdicts[n] /\ n \in 1..Len(verdicts')
       /\ \A n \in 1..Len(verdicts') : n \in 1..Len(verdicts) \/ n = Len(verdicts) + 1
       /\ Len(verdicts) + 1 \in 1..Len(verdicts')
  BY <1>1, <1>14, AppendOne
<1>17. /\ paidByCustomer'[c] = NotPaid
       /\ \A d \in Customers : d # c => paidByCustomer'[d] = paidByCustomer[d]
  <2>1. paidByCustomer \in [Customers -> Ledger \union {NotPaid}]
    BY DEF Setting, Accounts
  <2> QED
    BY <1>1, <1>6, <2>1
<1>18. InDebit' = InDebit
  <2>1. ASSUME NEW d \in InDebit PROVE d \in InDebit'
    <3>1. d # c /\ d \in Customers /\ truePaid[d] # Zero /\ paidByCustomer[d] = NotPaid
          /\ \A n \in 1..Len(verdicts) : verdicts[n].customer # d
      BY <1>11, <2>1 DEF InDebit, Debit
    <3>2. \A n \in 1..Len(verdicts') : verdicts'[n].customer # d
      BY <1>15, <1>16, <3>1
    <3> QED
      BY <1>1, <1>17, <3>1, <3>2 DEF InDebit, Debit, storeVars
  <2>2. ASSUME NEW d \in InDebit' PROVE d \in InDebit
    <3>1. d \in Customers /\ truePaid[d] # Zero /\ paidByCustomer'[d] = NotPaid
          /\ \A n \in 1..Len(verdicts') : verdicts'[n].customer # d
      BY <1>1, <2>2 DEF InDebit, Debit, storeVars
    <3>2. d # c /\ \A n \in 1..Len(verdicts) : verdicts[n].customer # d
      BY <1>15, <1>16, <3>1
    <3> QED
      BY <1>17, <3>1, <3>2 DEF InDebit, Debit
  <2> QED
    BY <2>1, <2>2
<1>19. Poised(L, next, Tail(pendingExits), AtKiosk, Gone, waited, InDebit)
  BY <1>11
<1>20. Called(L, next, Tail(pendingExits), AtKiosk, Gone, visitedPos, waited)
  <2>1. c \notin AtKiosk
    BY <1>7, LineFacts
  <2>2. Called(L, activeCustomer, pendingExits, AtKiosk, Gone, visitedPos, waited)
    BY DEF Line
  <2> QED
    BY <1>4, <2>1, <2>2, CalledJudge DEF c, s
<1>21. Marks(Coming, sessionQueue, Tail(pendingExits), posSeen, seenTransitions, Gone, visitedPos)
  BY <1>4, MarksJudge DEF Line
<1>22. Money(L, Tail(pendingExits), truePaid, paidByCustomer', unassigned, verdicts', Gone, visitedPos)
  <2>1. \A d \in Customers : paidByCustomer'[d] = NotPaid
                               \/ (paidByCustomer'[d] = truePaid[d] /\ truePaid[d] # Zero)
    BY <1>17 DEF Line, Money
  <2>2. ASSUME NEW n \in 1..Len(verdicts')
        PROVE  /\ verdicts'[n].customer \in Gone
               /\ Situation(verdicts'[n].code, verdicts'[n].picked,
                            truePaid[verdicts'[n].customer], verdicts'[n].customer \in visitedPos)
    <3>1. CASE n \in 1..Len(verdicts)
      BY <1>16, <3>1 DEF Line, Money
    <3>2. CASE n = Len(verdicts) + 1
      <4>1. verdicts'[n] = verdict
        BY <1>16, <3>2
      <4> QED
        BY <1>7, <1>13, <1>15, <4>1
    <3> QED
      BY <1>16, <3>1, <3>2
  <2> QED
    BY <1>9, <2>1, <2>2 DEF Money, Usable
<1>23. Line(L)'
  BY <1>1, <1>2, <1>3, <1>10, <1>18, <1>19, <1>20, <1>21, <1>22 DEF Line, storeVars
<1>24. Waiting(pendingExits', loop')
  BY <1>1, <1>4, WaitingLess
<1> QED
  BY <1>2, <1>10, <1>18, <1>23, <1>24 DEF Follows

(* A completion is handled: it is the one of the customer in debit. *)
LEMMA FollowsPayment ==
    ASSUME Timely, Setting, NEW L, Line(L), NEW g, NEW x, NEW h, Trading(g, x, h),
           HandlePosEvent, PaymentEdge
    PROVE  Follows /\ \E d, z, e : Trading(d, z, e)'
<1>1. PICK f, a : /\ Trails(f, eventQueue', x, h, uart', Now') /\ a = f[1]
                  /\ Tally(a, mode', committed', posSessionItems', posReportedItems')
                  /\ Whole(a, committed', posReportedItems')
                  /\ Handled(a, committed') = Handled(g[1], committed) + 1
                  /\ CustomerPayment \in Ledger
                  /\ \A i \in Items : Due(a, committed', i)
                                         = Due(g[1], committed, i) + CustomerPayment[i]
  BY TradeLine
<1>2. /\ loop = "events" /\ loop' \in {"sessions", "dead"} /\ CreditPayment
      /\ UNCHANGED <<storeVars, wire, posSeen, seenTransitions, sessionQueue, pendingExits, verdicts,
                     finished, sold, Now>>
  BY DEF HandlePosEvent, NextRound, NextEvent, visionVars, outcomeVars, firmwareVars, Now
<1> DEFINE payment == CustomerPayment
           F == finished["CUSTOMER"]
           S == sold["CUSTOMER"]
<1>3. payment \in Ledger
  BY <1>1
<1>4. /\ activeCustomer # NoCustomer =>
             /\ paidByCustomer' = [paidByCustomer EXCEPT ![activeCustomer] = payment]
             /\ UNCHANGED <<activeCustomer, unassigned>>
      /\ activeCustomer = NoCustomer =>
             /\ unassigned' = [items |-> payment, age |-> 0]
             /\ UNCHANGED <<activeCustomer, paidByCustomer>>
  BY <1>2 DEF CreditPayment
<1>5. /\ Handled(a, committed') = Handled(g[1], committed) + 1
      /\ \A i \in Items : Due(a, committed', i) = Due(g[1], committed, i) + payment[i]
  BY <1>1
<1> HIDE DEF payment
<1>6. /\ a \in Stamps /\ g[1] \in Stamps /\ Now \in Stamps /\ SoldBy(a, Now)
      /\ Now.finished = finished /\ Now.sold = sold
  <2>1. Now' = Now /\ Now.finished = finished /\ Now.sold = sold
    BY <1>2 DEF Now, Stamp
  <2>2. Trails(g, eventQueue, x, h, uart, Now)
    BY DEF Trading
  <2> QED
    BY <1>1, <2>1, <2>2, TrailSold
<1>7. /\ Handled(a, committed') <= F /\ Handled(g[1], committed) \in Int /\ F \in Nat
      /\ S \in Ledger
  BY <1>6, NoneMore, HandledBounds, StampParts
<1>8. InTransit(InDebit, unassigned) /\ Handled(g[1], committed) + 1 = F
  <2>1. Even(g[1], committed, F, S, InDebit, unassigned, truePaid)
    BY DEF Trading
  <2>2. Handled(g[1], committed) # F
    BY <1>5, <1>7
  <2> QED
    BY <2>1, <2>2 DEF Even
<1>9. PICK c \in InDebit : \A i \in Items : Due(g[1], committed, i) + truePaid[c][i] = S[i]
  BY <1>8 DEF InTransit, Trading, Even
<1>10. c \in Customers /\ truePaid[c] \in Ledger /\ truePaid[c] # Zero /\ paidByCustomer[c] = NotPaid
  BY <1>9 DEF InDebit, Debit, Setting, Store
<1>11. \A i \in Items : Due(a, committed', i) = S[i]
  <2>1. Handled(a, committed') = Now.finished["CUSTOMER"]
    BY <1>5, <1>6, <1>8
  <2> QED
    BY <1>6, <2>1, AllDue
<1>12. payment = truePaid[c]
  <2>1. ASSUME NEW i \in Items PROVE payment[i] = truePaid[c][i]
    <3> DEFINE due == Due(g[1], committed, i)
               p == payment[i]
               t == truePaid[c][i]
               s == S[i]
    <3>1. /\ due \in Int /\ p \in Nat /\ t \in Nat /\ s \in Nat
          /\ due + p = s /\ due + t = s
      BY <1>3, <1>5, <1>6, <1>7, <1>9, <1>10, <1>11, DueBounds DEF Ledger
    <3> HIDE DEF due, p, t, s
    <3>2. p = t
      BY ONLY <3>1
    <3> QED
      BY <3>2 DEF p, t
  <2> QED
    BY <1>3, <1>10, <2>1 DEF Ledger
<1>13. \A d \in InDebit : d = c
  BY PoisedOne DEF Line
<1>14. Last(L, activeCustomer, c) /\ (activeCustomer = NoCustomer \/ activeCustomer = c)
  <2>1. Last(L, activeCustomer, c) /\ Free(activeCustomer, pendingExits, c)
    BY <1>9 DEF Line, Poised
  <2>2. ~DueExit(pendingExits)
    BY <1>2 DEF Setting, Waiting
  <2>3. ~Ending(pendingExits, activeCustomer)
    <3>1. \A n \in 1..Len(pendingExits) : pendingExits[n].due # 0
      BY <2>2, LineFacts, NoneDue DEF Setting
    <3> QED
      BY <3>1 DEF Ending
  <2> QED
    BY <2>1, <2>3 DEF Free
<1>15. Store' /\ UNCHANGED <<AtKiosk, Gone>>
  BY <1>2, StoreKept DEF Setting, storeVars
<1>16. Coming' = Coming /\ activeCustomer' = activeCustomer
  BY <1>2, <1>4 DEF Coming, Vision!NotSeen
<1>17. /\ ~DueExit(pendingExits)
       /\ Waiting(pendingExits', loop')
  BY <1>2 DEF Setting, Waiting
<1>18. /\ Poised(L, activeCustomer, pendingExits, AtKiosk, Gone, waited, InDebit')
       /\ Money(L, pendingExits, truePaid, paidByCustomer', unassigned', verdicts, Gone, visitedPos)
       /\ ~InTransit(InDebit', unassigned')
  <2>1. CASE activeCustomer = NoCustomer
    <3>1. InDebit' = InDebit /\ InDebit' = Debit(truePaid, paidByCustomer', verdicts)
      BY <1>2, <1>4, <2>1 DEF InDebit, storeVars
    <3>2. unassigned'.items = truePaid[c] /\ unassigned'.age <= Window /\ paidByCustomer' = paidByCustomer
      BY <1>4, <1>12, <2>1, TimeAssumption
    <3>3. At(L, "POS", c)
      BY <1>10, <1>14, <2>1 DEF Last, At, Timely
    <3>4. Money(L, pendingExits, truePaid, paidByCustomer', unassigned', verdicts, Gone, visitedPos)
      BY <1>9, <1>17, <3>1, <3>2, <3>3 DEF Line, Money
    <3> QED
      BY <3>1, <3>2, <3>4 DEF Line, InTransit
  <2>2. CASE activeCustomer # NoCustomer
    <3>1. activeCustomer = c
      BY <1>14, <2>2
    <3>2. /\ paidByCustomer'[c] = truePaid[c] /\ unassigned' = unassigned
          /\ \A d \in Customers : d # c => paidByCustomer'[d] = paidByCustomer[d]
      <4>1. paidByCustomer \in [Customers -> Ledger \union {NotPaid}]
        BY DEF Setting, Accounts
      <4> QED
        BY <1>4, <1>10, <1>12, <2>2, <3>1, <4>1
    <3>3. truePaid[c] # NotPaid
      BY <1>10, LedgerIsPaid
    <3>4. InDebit' = {}
      <4> SUFFICES ASSUME NEW b \in InDebit' PROVE FALSE
        OBVIOUS
      <4>1. /\ b \in Customers /\ truePaid[b] # Zero /\ paidByCustomer'[b] = NotPaid
            /\ \A n \in 1..Len(verdicts) : verdicts[n].customer # b
        BY <1>2 DEF InDebit, Debit, storeVars
      <4>2. b # c
        BY <3>2, <3>3, <4>1
      <4>3. b \in InDebit
        BY <3>2, <4>1, <4>2 DEF InDebit, Debit
      <4> QED
        BY <1>13, <4>2, <4>3
    <3>5. ~(unassigned'.age <= Window)
      BY <1>8, <3>2 DEF InTransit
    <3>6. Money(L, pendingExits, truePaid, paidByCustomer', unassigned', verdicts, Gone, visitedPos)
      BY <1>10, <3>2, <3>5 DEF Line, Money
    <3>7. Poised(L, activeCustomer, pendingExits, AtKiosk, Gone, waited, {})
      BY DEF Poised
    <3> QED
      BY <3>4, <3>6, <3>7 DEF InTransit
  <2> QED
    BY <2>1, <2>2
<1>19. Line(L)'
  BY <1>2, <1>15, <1>16, <1>18 DEF Line, storeVars
<1>20. Even(a, committed', finished'["CUSTOMER"], sold'["CUSTOMER"], InDebit', unassigned', truePaid')
  BY <1>2, <1>5, <1>8, <1>18 DEF Even
<1>21. Trading(f, x, h)'
  BY <1>1, <1>20 DEF Trading
<1> QED
  BY <1>15, <1>17, <1>19, <1>21 DEF Follows

(* A tick passes when nobody is in debit. *)
LEMMA FollowsTick ==
    ASSUME Timely, Setting, NEW L, Line(L), NEW g, NEW x, NEW h, Trading(g, x, h), Tick
    PROVE  Follows /\ \E d, z, e : Trading(d, z, e)'
<1>1. /\ uart = <<>> /\ eventQueue = <<>> /\ sessionQueue = <<>> /\ pc # "summary"
      /\ loop = "sessions" /\ waited' = TRUE
      /\ pendingExits' = [n \in DOMAIN pendingExits |->
             [pendingExits[n] EXCEPT !.due = IF pendingExits[n].due = 0 THEN 0
                                             ELSE pendingExits[n].due - 1]]
      /\ unassigned' = IF unassigned.age < Window THEN [unassigned EXCEPT !.age = unassigned.age + 1]
                       ELSE NoPayment
      /\ UNCHANGED <<mode, posVars, Now, uart, stage, truePaid, visitedPos, posSeen, seenTransitions,
                     eventQueue, sessionQueue, loop, activeCustomer, paidByCustomer, verdicts,
                     finished, sold>>
  BY DEF Tick, CaughtUp, Timely, visionVars, outcomeVars, firmwareVars, Now
<1>2. /\ Trails(g, eventQueue, x, h, uart, Now)
      /\ Tally(g[1], mode, committed, posSessionItems, posReportedItems)
      /\ Whole(g[1], committed, posReportedItems)
      /\ Even(g[1], committed, finished["CUSTOMER"], sold["CUSTOMER"], InDebit, unassigned, truePaid)
  BY DEF Trading
<1>3. Skips(g[1], Now) /\ g[1] \in Stamps /\ Now \in Stamps
  <2>1. Len(<<>>) = 0
    OBVIOUS
  <2>2. g[1] = x /\ h[1] = Now
    BY <1>1, <1>2, <2>1 DEF Trails, Trail
  <2> QED
    BY <1>2, <2>2, TrailSold DEF Trails
<1>4. ~InTransit(InDebit, unassigned)
  <2>1. Handled(g[1], committed) = Handled(Now, committed)
    BY <1>2, <1>3, WholeSkips
  <2>2. Now.pc = pc /\ Now.finished = finished
    BY DEF Now, Stamp
  <2>3. Handled(g[1], committed) = finished["CUSTOMER"] /\ finished["CUSTOMER"] \in Nat
    BY <1>1, <1>3, <2>1, <2>2, HandledBounds, StampParts
  <2> QED
    BY <1>2, <2>3 DEF Even
<1>5. /\ wire \in Seq(Messages) /\ Coming \in Seq(Messages) /\ pendingExits \in Seq(Exits)
      /\ L \in Seq(LinePlaces) /\ WireDelay \in {0, 1} /\ Prompt
  BY LineFacts DEF Timely
<1>6. /\ Len(Coming') = Len(Coming) /\ Coming' \in Seq(Messages)
      /\ WireDelay = 0 => Coming = <<>>
      /\ \A n \in 1..Len(Coming) :
            /\ Coming'[n].state = Coming[n].state
            /\ Coming'[n].customer = Coming[n].customer
            /\ Coming'[n].timestamp = Coming[n].timestamp
            /\ Coming[n].age = 0 /\ Coming'[n].age # 0
  BY <1>5, ComingTick
<1> DEFINE M == Stale(L)
<1>7. Lists(M, <<>>, Coming') /\ \A n \in 1..Len(L) : L[n].fresh
  <2>1. Lists(L, <<>>, Coming)
    BY <1>1 DEF Line
  <2> QED
    BY <1>5, <1>6, <2>1, ListsTick
<1>8. ~(unassigned.age <= Window)
  <2> SUFFICES ASSUME unassigned.age <= Window PROVE FALSE
    OBVIOUS
  <2>1. PICK c \in InDebit : At(L, "POS", c)
    BY DEF Line, Money, InDebit
  <2>2. \A n \in 1..Len(L) : L[n].kind = "POS" => ~L[n].fresh
    BY <2>1 DEF Line, Poised
  <2> QED
    BY <1>7, <2>1, <2>2 DEF At
<1>9. InDebit = {} /\ InDebit' = {}
  BY <1>1, <1>4, <1>8 DEF InTransit, InDebit
<1>10. ~(unassigned'.age <= Window)
  <2>1. unassigned.age \in Nat
    BY DEF Setting, Accounts
  <2>2. unassigned' = NoPayment
    BY <1>1, <1>8, <2>1, TimeAssumption
  <2> QED
    BY <2>2, TimeAssumption DEF NoPayment
<1>11. /\ Len(pendingExits') = Len(pendingExits)
       /\ \A n \in 1..Len(pendingExits) :
             /\ pendingExits'[n].session = pendingExits[n].session
             /\ pendingExits'[n].due = IF pendingExits[n].due = 0 THEN 0 ELSE pendingExits[n].due - 1
  <2>1. DOMAIN pendingExits = 1..Len(pendingExits) /\ Len(pendingExits) \in Nat
    BY <1>5, LenProperties
  <2>2. Len(pendingExits') = Len(pendingExits)
    BY <1>1, <2>1
  <2>3. ASSUME NEW n \in 1..Len(pendingExits)
        PROVE  /\ pendingExits'[n].session = pendingExits[n].session
               /\ pendingExits'[n].due = IF pendingExits[n].due = 0 THEN 0
                                         ELSE pendingExits[n].due - 1
    <3>1. pendingExits[n] \in Exits
      BY <1>5
    <3>2. pendingExits'[n] = [pendingExits[n] EXCEPT !.due = IF pendingExits[n].due = 0 THEN 0
                                                             ELSE pendingExits[n].due - 1]
      BY <1>1, <2>1
    <3> QED
      BY <3>1, <3>2 DEF Exits
  <2> QED
    BY <2>2, <2>3
<1>12. /\ Waiting(pendingExits', "sessions")
       /\ Grace = 1 => \A n \in 1..Len(pendingExits') : pendingExits'[n].due = 0
  BY <1>5, <1>11, WaitingTick DEF Setting
<1>13. Store' /\ UNCHANGED <<AtKiosk, Gone>>
  BY <1>1, StoreKept DEF Setting
<1>14. Ordered(M, Gone, visitedPos)
  BY <1>5, OrderedStale DEF Line
<1>15. Marks(Coming', sessionQueue, pendingExits', posSeen, seenTransitions, Gone, visitedPos)
  <2>1. Marks(Coming, sessionQueue, pendingExits, posSeen, seenTransitions, Gone, visitedPos)
    BY DEF Line
  <2> QED
    BY <1>6, <1>11, <2>1, MarksTick
<1>16. Called(M, activeCustomer, pendingExits', AtKiosk, Gone, visitedPos, TRUE)
  <2>1. L = <<>> \/ \A n \in 1..Len(pendingExits') : pendingExits'[n].due = 0
    <3>1. CASE WireDelay = 0
      <4>1. Lists(L, <<>>, <<>>)
        BY <1>1, <1>6, <3>1 DEF Line
      <4>2. Len(<<>>) = 0 /\ 0 + 0 = 0
        OBVIOUS
      <4>3. Len(L) = 0
        BY <4>1, <4>2 DEF Lists
      <4> QED
        BY <1>5, <4>3
    <3>2. CASE WireDelay = 1
      BY <1>12, <3>2 DEF Timely
    <3> QED
      BY <1>5, <3>1, <3>2
  <2>2. /\ visitedPos \subseteq AtKiosk \union Gone /\ \A d, b \in AtKiosk : d = b
        /\ Called(L, activeCustomer, pendingExits, AtKiosk, Gone, visitedPos, waited)
    BY LineFacts DEF Line
  <2> QED
    BY <1>5, <1>7, <1>11, <2>1, <2>2, CalledTick
<1>17. Poised(M, activeCustomer, pendingExits', AtKiosk, Gone, TRUE, {})
  BY DEF Poised
<1>18. Money(M, pendingExits', truePaid, paidByCustomer, unassigned', verdicts, Gone, visitedPos)
  BY <1>10 DEF Line, Money
<1> HIDE DEF M
<1>19. Line(M)'
  BY <1>1, <1>7, <1>9, <1>13, <1>14, <1>15, <1>16, <1>17, <1>18 DEF Line
<1>20. Even(g[1], committed, finished'["CUSTOMER"], sold'["CUSTOMER"], InDebit', unassigned', truePaid')
  <2>1. ~InTransit(InDebit', unassigned')
    BY <1>9 DEF InTransit
  <2> QED
    BY <1>1, <1>2, <1>4, <2>1 DEF Even
<1>21. \E d, z, e : Trading(d, z, e)'
  BY <1>1, <1>2, <1>20, TradeOn
<1> QED
  BY <1>1, <1>12, <1>13, <1>19, <1>21 DEF Follows
-----------------------------------------------------------------------------
(* The invariant of a timely store. *)
Serving == pc \in {"select", "product", "summary"} /\ (pc # "select" => user = "CUSTOMER")

(* The line and the trails together, with the bounds proved before. *)
Matching ==
    /\ Crediting /\ Store /\ Waiting(pendingExits, loop) /\ Serving /\ lost \in Nat
    /\ \E L : Line(L)
    /\ \E g, x, h : Trading(g, x, h)

(* The invariant holds at first. *)
LEMMA MatchingInit == Timely /\ FusionInit => Matching
<1> SUFFICES ASSUME Timely, FusionInit PROVE Matching
  OBVIOUS
<1>1. /\ POS!Init /\ eventQueue = <<>> /\ verdicts = <<>> /\ wire = <<>> /\ sessionQueue = <<>>
      /\ unassigned = NoPayment /\ paidByCustomer = [c \in Customers |-> NotPaid]
      /\ activeCustomer = NoCustomer /\ pendingExits = <<>> /\ loop = "sessions"
      /\ stage = [c \in Customers |-> "shopping"] /\ waited = TRUE
      /\ truePaid = [c \in Customers |-> Zero] /\ visitedPos = {}
      /\ posSeen = {} /\ seenTransitions = {}
      /\ committed = FALSE /\ posSessionItems = Zero /\ posReportedItems = Zero
      /\ pc = "select" /\ finished["CUSTOMER"] = 0 /\ lost = 0
  BY DEF FusionInit, SessionInit, Init, POS!Init, Vision!Init, POS!Users
<1>2. Crediting /\ Store
  BY CreditInit, StoreInit DEF Timely
<1>3. /\ Len(<<>>) = 0 /\ 1..0 = {} /\ <<>> \in Seq(LinePlaces) /\ 0 + 0 = 0
  OBVIOUS
<1>4. Waiting(pendingExits, loop)
  BY <1>1, <1>3 DEF Waiting
<1>5. Serving
  BY <1>1 DEF Serving
<1>6. Coming = <<>> /\ AtKiosk = {} /\ Gone = {} /\ InDebit = {}
  BY <1>1 DEF Coming, AtKiosk, Gone, InDebit, Debit
<1>7. ~(unassigned.age <= Window)
  BY <1>1, TimeAssumption DEF NoPayment
<1>8. Line(<<>>)
  <2>1. Lists(<<>>, sessionQueue, Coming)
    BY <1>1, <1>3, <1>6 DEF Lists
  <2>2. Ordered(<<>>, Gone, visitedPos)
    BY <1>3 DEF Ordered
  <2>3. Marks(Coming, sessionQueue, pendingExits, posSeen, seenTransitions, Gone, visitedPos)
    BY <1>1, <1>3, <1>6 DEF Marks
  <2>4. Called(<<>>, activeCustomer, pendingExits, AtKiosk, Gone, visitedPos, waited)
    BY <1>1, <1>3, <1>6 DEF Called
  <2>5. Poised(<<>>, activeCustomer, pendingExits, AtKiosk, Gone, waited, InDebit)
    BY <1>6 DEF Poised
  <2>6. Money(<<>>, pendingExits, truePaid, paidByCustomer, unassigned, verdicts, Gone, visitedPos)
    BY <1>1, <1>3, <1>7 DEF Money
  <2> QED
    BY <2>1, <2>2, <2>3, <2>4, <2>5, <2>6 DEF Line
<1>9. PICK h : Trail(h, uart, Now) /\ h[1] = Boot
  BY <1>1, SellInit
<1>10. Boot \in Stamps /\ Boot.pc = "boot" /\ Boot.finished["CUSTOMER"] = 0
  BY <1>9, TrailHead DEF Boot, Stamp, Users
<1> DEFINE g == <<Boot>>
<1>11. g[1] = Boot /\ Trail(g, <<>>, Boot)
  BY <1>10, SoldSame DEF Trail
<1> HIDE DEF g
<1>12. Trails(g, eventQueue, Boot, h, uart, Now)
  BY <1>1, <1>9, <1>11 DEF Trails, Skips
<1>13. Tally(Boot, mode, committed, posSessionItems, posReportedItems)
  BY <1>1, <1>10, LedgerFacts DEF Tally
<1>14. Whole(Boot, committed, posReportedItems)
  BY <1>10 DEF Whole
<1>15. Even(Boot, committed, finished["CUSTOMER"], sold["CUSTOMER"], InDebit, unassigned, truePaid)
  BY <1>1, <1>6, <1>10 DEF Even, InTransit, Handled
<1>16. Trading(g, Boot, h)
  BY <1>11, <1>12, <1>13, <1>14, <1>15 DEF Trading
<1> QED
  BY <1>1, <1>2, <1>4, <1>5, <1>8, <1>16 DEF Matching

(* The customer at the kiosk presses DONE. *)
LEMMA MatchingDone ==
    ASSUME Timely, Setting, NEW L, Line(L), Serving, NEW g, NEW x, NEW h, Trading(g, x, h),
           Checkout, NEW c \in AtKiosk, stage[c] = "kiosk", PressDone(c)
    PROVE  Follows /\ \E d, z, e : Trading(d, z, e)'
<1>1. Trails(g, eventQueue, x, h, uart, Now)
  BY DEF Trading
<1>2. /\ g[1] \in Stamps /\ Now \in Stamps /\ SoldBy(g[1], Now)
      /\ Now.count = count /\ Now.pc = pc /\ Now.finished = finished /\ Now.sold = sold
  BY <1>1, TrailSold DEF Now, Stamp
<1>3. count \in Ledger /\ finished \in [Users -> Nat] /\ sold \in [Users -> Ledger]
  BY <1>2, StampParts
<1>4. /\ UNCHANGED <<waited, visitedPos, wire, visionVars, sessionQueue, loopVars>>
      /\ UNCHANGED <<mode, posVars, eventQueue>>
  BY DEF Checkout, vars
<1>5. /\ Follows /\ InDebit = {} /\ InDebit' = {c} /\ truePaid'[c] = count
      /\ ~(unassigned'.age <= Window)
  BY <1>3, <1>4, FollowsDone
<1>6. /\ finished' = [finished EXCEPT !["CUSTOMER"] = finished["CUSTOMER"] + 1]
      /\ sold' = [sold EXCEPT !["CUSTOMER"] = [i \in Items |-> sold["CUSTOMER"][i] + count[i]]]
  <2>1. POS!Finish /\ user = "CUSTOMER"
    BY DEF PressDone, POS!Finish, Serving
  <2> QED
    BY <2>1 DEF POS!Finish, POS!Items, Items
<1>7. /\ finished'["CUSTOMER"] = finished["CUSTOMER"] + 1
      /\ \A i \in Items : sold'["CUSTOMER"][i] = sold["CUSTOMER"][i] + count[i]
  BY <1>3, <1>6 DEF Users
<1>8. Handled(g[1], committed) = finished["CUSTOMER"]
  BY <1>5 DEF Trading, Even, InTransit
<1>9. \A i \in Items : Due(g[1], committed, i) = sold["CUSTOMER"][i]
  BY <1>2, <1>8, AllDue
<1>10. Even(g[1], committed, finished'["CUSTOMER"], sold'["CUSTOMER"], InDebit', unassigned', truePaid')
  BY <1>5, <1>7, <1>8, <1>9 DEF Even, InTransit
<1>11. PICK k : Trail(k, uart', Now') /\ k[1] = h[1]
  BY <1>1, CheckoutSells DEF Trails, Timely
<1>12. Trails(g, eventQueue', x, k, uart', Now')
  BY <1>1, <1>4, <1>11 DEF Trails
<1> QED
  BY <1>4, <1>5, <1>10, <1>12, TradeOn

(* Every step preserves the invariant. *)
LEMMA MatchingStep == Timely /\ Matching /\ [FusionNext]_fusionVars => Matching'
<1> SUFFICES ASSUME Timely, Matching, [FusionNext]_fusionVars PROVE Matching'
  OBVIOUS
<1>1. Crediting' /\ EveryPaymentTold
  BY CreditStep DEF Matching, Timely
<1>2. Setting /\ Serving /\ resets \in Nat /\ lost \in Nat
  BY DEF Matching, Crediting, Setting
<1>3. PICK L : Line(L)
  BY DEF Matching
<1>4. PICK g, x, h : Trading(g, x, h)
  BY DEF Matching
<1>5. Trails(g, eventQueue, x, h, uart, Now)
  BY <1>4 DEF Trading
<1> DEFINE Trades == \E d, z, e : Trading(d, z, e)'
           Away == UNCHANGED <<storeVars, wire, sessionQueue, visionVars, bookVars, pendingExits,
                               verdicts>>
           Still == UNCHANGED <<mode, posVars, finished, sold, truePaid, paidByCustomer, verdicts,
                                unassigned>>
<1>6. Serving'
  <2>1. CASE UNCHANGED <<pc, user>>
    BY <1>2, <2>1 DEF Serving
  <2>2. CASE Checkout
    BY <1>2, <2>2 DEF Checkout, Scanning, PressDone, POS!SelectUser, POS!AddScan, POS!Cancel,
                      POS!Finish, POS!Summarise, POS!ResetSession, Serving
  <2>3. CASE UNCHANGED fusionVars
    BY <2>1, <2>3 DEF fusionVars, sessionVars, firmwareVars
  <2> QED
    BY <2>1, <2>2, <2>3 DEF FusionNext, LoopStep, Approach, Leave, SerialRead, LoseCheckoutLine,
       LoseLine, ReceiveTransition, LoseTransition, ConsoleReset, TakeSession, SessionsDrained,
       JudgeExit, HandlePosEvent, HandlePick, HandleReset, NoEvent, Tick, sessionVars, firmwareVars
<1>24. lost' \in Nat
  BY <1>2 DEF FusionNext, LoopStep, fusionVars, faultVars, Approach, Leave, Checkout,
     SerialRead, LoseCheckoutLine, ReceiveTransition, LoseTransition, ConsoleReset, TakeSession,
     SessionsDrained, JudgeExit, HandlePosEvent, HandlePick, HandleReset, NoEvent, Tick
<1>7. SUFFICES Follows /\ Trades
  BY <1>1, <1>6, <1>24 DEF Matching, Follows
<1>8. ASSUME Away, loop' \in {loop, "sessions", AfterSessions(pendingExits), "dead"} PROVE Follows
  BY <1>2, <1>3, <1>8, FollowsQuiet
<1>9. ASSUME Still, NEW f, NEW y, NEW k, Trails(f, eventQueue', y, k, uart', Now'), f[1] = g[1]
      PROVE  Trades
  BY <1>4, <1>9, TradeQuiet
<1>10. Still /\ UNCHANGED <<eventQueue, uart, Now>> => Trades
  BY <1>5, <1>9
<1>11. CASE UNCHANGED fusionVars
  <2>1. Away /\ loop' = loop /\ Still /\ UNCHANGED <<eventQueue, uart, Now>>
    BY <1>11 DEF fusionVars, sessionVars, vars, firmwareVars, Now, loopVars, outcomeVars, storeVars,
                 bookVars
  <2> QED
    BY <1>8, <1>10, <2>1
<1>12. ASSUME NEW c \in Customers, Approach(c) \/ Leave(c) PROVE Follows /\ Trades
  <2>1. Still /\ UNCHANGED <<eventQueue, uart, Now>>
    BY <1>12 DEF Approach, Leave, sessionVars, vars, firmwareVars, Now, loopVars, outcomeVars, bookVars
  <2> QED
    BY <1>2, <1>3, <1>10, <1>12, <2>1, FollowsApproach, FollowsLeave
<1>13. CASE Checkout
  <2>1. CASE \E c \in AtKiosk : stage[c] = "kiosk" /\ PressDone(c)
    BY <1>2, <1>3, <1>4, <1>13, <2>1, MatchingDone
  <2>2. CASE (Scanning \/ POS!Summarise) /\ UNCHANGED <<stage, truePaid>>
    <3>1. Away /\ loop' = loop /\ Still /\ eventQueue' = eventQueue
      BY <1>13, <2>2 DEF Checkout, Scanning, POS!SelectUser, POS!AddScan, POS!Cancel, POS!Summarise,
                         vars, loopVars, outcomeVars, storeVars, bookVars
    <3>2. PICK k : Trail(k, uart', Now') /\ k[1] = h[1]
      BY <1>1, <1>5, <1>13, CheckoutSells DEF Trails
    <3>3. Trails(g, eventQueue', x, k, uart', Now')
      BY <1>5, <3>1, <3>2 DEF Trails
    <3> QED
      BY <1>8, <1>9, <3>1, <3>3
  <2> QED
    BY <1>13, <2>1, <2>2 DEF Checkout
<1>14. CASE SerialRead
  <2>1. /\ Away /\ loop' = loop /\ Still /\ UNCHANGED Now /\ uart # <<>> /\ uart' = Tail(uart)
        /\ eventQueue' = Append(eventQueue, Head(uart))
    BY <1>14 DEF SerialRead, vars, firmwareVars, Now, loopVars, outcomeVars, storeVars, bookVars
  <2>2. /\ Trails(Append(g, h[2]), eventQueue', h[2], Tail(h), uart', Now')
        /\ Append(g, h[2])[1] = g[1]
    BY <1>5, <2>1, LineRead
  <2> QED
    BY <1>8, <1>9, <2>1, <2>2
<1>15. CASE LoseCheckoutLine
  <2>1. /\ Away /\ loop' = loop /\ Still /\ UNCHANGED <<Now, eventQueue>> /\ uart # <<>>
        /\ uart' = Tail(uart) /\ Head(uart).kind \in Lossy
        /\ Lossy \subseteq {"COUNT", "PAY_DONE", "SUMMARY"}
    BY <1>1, <1>15 DEF LoseCheckoutLine, LoseLine, EveryPaymentTold, vars, firmwareVars, Now, loopVars,
                       outcomeVars, storeVars, bookVars
  <2>2. Trails(g, eventQueue', x, Tail(h), uart', Now')
    BY <1>5, <2>1, LineLost
  <2> QED
    BY <1>8, <1>9, <2>1, <2>2
<1>16. CASE ReceiveTransition
  <2>1. Follows
    BY <1>2, <1>3, <1>16, FollowsReceive
  <2>2. Still /\ UNCHANGED <<Now, uart>>
    BY <1>16 DEF ReceiveTransition, sessionVars, vars, firmwareVars, Now, loopVars, outcomeVars,
                 storeVars, bookVars
  <2>3. CASE eventQueue' = eventQueue
    BY <1>10, <2>1, <2>2, <2>3
  <2>4. CASE \E previous, current : eventQueue' = eventQueue \o Vision!PickDeltas(previous, current)
    <3>1. PICK P, p : /\ p \in Seq(P) /\ eventQueue' = eventQueue \o p
                      /\ \A e \in P : e.kind = "REMOVE_CANDIDATE"
      BY <2>4, PicksOnly
    <3>2. PICK f : Trail(f, eventQueue', x) /\ f[1] = g[1]
      BY <1>5, <3>1, TrailKeeps DEF Trails
    <3>3. Trails(f, eventQueue', x, h, uart', Now')
      BY <1>5, <2>2, <3>2 DEF Trails
    <3> QED
      BY <1>9, <2>1, <2>2, <3>2, <3>3
  <2>5. Vision!ProcessTransition(Head(wire))
    BY <1>16 DEF ReceiveTransition
  <2> QED
    BY <2>3, <2>4, <2>5 DEF Vision!ProcessTransition
<1>17. CASE TakeSession
  <2>1. /\ UNCHANGED <<mode, posVars, finished, sold, truePaid, verdicts, eventQueue, uart, Now>>
        /\ sessionQueue # <<>>
    BY <1>17 DEF TakeSession, sessionVars, vars, firmwareVars, Now, outcomeVars, storeVars
  <2>2. CASE Head(sessionQueue).kind = "POS" /\ CustomerPos(Head(sessionQueue).customer)
    <3>1. /\ Follows /\ (~InTransit(InDebit', unassigned') <=> ~InTransit(InDebit, unassigned))
          /\ InTransit(InDebit, unassigned) => InDebit' = InDebit
      BY <1>2, <1>3, <1>17, <2>2, FollowsPos DEF InTransit
    <3>2. Even(g[1], committed, finished'["CUSTOMER"], sold'["CUSTOMER"], InDebit', unassigned',
               truePaid')
      BY <1>4, <2>1, <3>1 DEF Trading, Even
    <3> QED
      BY <1>4, <1>5, <2>1, <3>1, <3>2, TradeOn
  <2>3. CASE Head(sessionQueue).kind = "EXIT" /\ CustomerExit(Head(sessionQueue))
    <3>1. Still
      BY <2>1, <2>3 DEF CustomerExit, bookVars
    <3> QED
      BY <1>2, <1>3, <1>10, <1>17, <2>1, <2>3, <3>1, FollowsExit
  <2> QED
    BY <1>17, <2>2, <2>3 DEF TakeSession
<1>18. CASE SessionsDrained \/ NoEvent
  <2>1. /\ Away /\ loop' \in {loop, "sessions", AfterSessions(pendingExits), "dead"}
        /\ Still /\ UNCHANGED <<eventQueue, uart, Now>>
    BY <1>18 DEF SessionsDrained, NoEvent, NextRound, sessionVars, vars, firmwareVars, Now, outcomeVars,
                 storeVars, bookVars
  <2> QED
    BY <1>8, <1>10, <2>1
<1>19. CASE JudgeExit
  <2>1. UNCHANGED <<mode, posVars, finished, sold, truePaid, eventQueue, uart, Now>>
    BY <1>19 DEF JudgeExit, firmwareVars, Now, storeVars
  <2>2. Follows /\ InDebit' = InDebit /\ unassigned' = unassigned
    BY <1>2, <1>3, <1>19, FollowsJudge
  <2>3. Even(g[1], committed, finished'["CUSTOMER"], sold'["CUSTOMER"], InDebit', unassigned', truePaid')
    BY <1>4, <2>1, <2>2 DEF Trading
  <2> QED
    BY <1>4, <1>5, <2>1, <2>2, <2>3, TradeOn
<1>20. CASE HandlePosEvent
  <2>1. CASE PaymentEdge
    BY <1>2, <1>3, <1>4, <1>20, <2>1, FollowsPayment
  <2>2. CASE ~PaymentEdge
    <3>1. Away /\ loop' \in {"sessions", "dead"}
      BY <1>20, <2>2 DEF HandlePosEvent, NextRound, CreditPayment, outcomeVars
    <3> QED
      BY <1>4, <1>8, <1>20, <2>2, <3>1, TradeNoPayment
  <2> QED
    BY <2>1, <2>2
<1>21. CASE HandlePick
  <2>1. Away /\ loop' \in {"sessions", "dead"}
    BY <1>21 DEF HandlePick, NextRound, outcomeVars
  <2> QED
    BY <1>4, <1>8, <1>21, <2>1, TradePick
<1>22. CASE Tick
  BY <1>2, <1>3, <1>4, <1>22, FollowsTick
<1>23. ~LoseTransition /\ ~ConsoleReset /\ ~HandleReset
  <2>1. ~ConsoleReset
    BY <1>1, <1>2 DEF ConsoleReset, EveryPaymentTold
  <2>2. ASSUME HandleReset PROVE FALSE
    <3>1. eventQueue # <<>> /\ Head(eventQueue).kind = "SYSTEM_RESET"
      BY <2>2 DEF HandleReset, NextEvent
    <3>2. Leads(g[1], Head(eventQueue), g[2])
      BY <1>5, <3>1, EventTaken
    <3> QED
      BY <3>1, <3>2 DEF Leads, Sells, Prints
  <2>3. ~LoseTransition
    BY <1>2 DEF LoseTransition, Timely
  <2> QED
    BY <2>1, <2>2, <2>3
<1> HIDE DEF Trades
<1> QED
  BY <1>11, <1>12, <1>13, <1>14, <1>15, <1>16, <1>17, <1>18, <1>19, <1>20, <1>21, <1>22, <1>23
     DEF FusionNext, LoopStep

(* The codes are right: although PAY_DONE, its second line, Vision's       *)
(* messages and the end of the grace race each other, every exit gets the  *)
(* code of what the customer paid and of whether the customer was at the   *)
(* kiosk, for any number of customers, products and repeated messages.     *)
THEOREM VerdictsAreRight ==
    ASSUME Timely
    PROVE  FusionSpec => []VerdictIsRight
<1>1. Matching => VerdictIsRight
  <2> SUFFICES ASSUME Matching PROVE VerdictIsRight
    OBVIOUS
  <2>1. PICK L : Line(L)
    BY DEF Matching
  <2>2. DOMAIN verdicts = 1..Len(verdicts)
    BY LenProperties DEF Matching, Crediting, Queues
  <2> QED
    BY <2>1, <2>2 DEF Line, Money, VerdictIsRight
<1>2. FusionInit => Matching
  BY MatchingInit
<1>3. Matching /\ [FusionNext]_fusionVars => Matching'
  BY MatchingStep
<1> QED
  BY <1>1, <1>2, <1>3, PTL DEF FusionSpec
=============================================================================
