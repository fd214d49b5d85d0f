----------------------------- MODULE TrayProofs -----------------------------
(***************************************************************************)
(* Proofs about TrayAudioSession: a payment is warned about once at most,  *)
(* TRAY_COMPLETE is said of a settled reading only, an honest customer is  *)
(* never warned about, and the smoothed counts follow the trays, for any   *)
(* number of products, any window of frames, any timing with a settle      *)
(* time, and any number of payments, resets, lost pushes and restarts.     *)
(***************************************************************************)
EXTENDS TrayAudioSession, TLAPS, WellFoundedInduction, SequenceTheorems,
        FiniteSetTheorems

(* Once a warning is out, the session is closed until the next command. *)
WarnedMeansClosed ==
    warnings = 0 \/ (warnings = 1 /\ (resultAnnounced \/ expected = None))

(* A reading that has been steady for a tick is what lay on the AFTER tray *)
(* when that tick ended.                                                   *)
SteadyMeansSettled ==
    /\ steady \in Nat
    /\ steady # 0 => signature = afterAtTick
    /\ framed => signature = readAfter

LEMMA WarnedStep == WarnedMeansClosed /\ [Next]_vars => WarnedMeansClosed'
<1> SUFFICES ASSUME WarnedMeansClosed, [Next]_vars PROVE WarnedMeansClosed'
  OBVIOUS
<1> USE DEF WarnedMeansClosed
<1>1. CASE UNCHANGED <<warnings, resultAnnounced, expected>>
  BY <1>1
<1>2. CASE Customer
  BY <1>1, <1>2 DEF Customer, Place, Lift, Lay, Pocket, Bag, Pay, Leave,
     AtTrays, sessionVars
<1>3. CASE PushReset
  BY <1>1, <1>3 DEF PushReset, sessionVars
<1>4. ASSUME NEW i \in Items, Stabilise(i) PROVE WarnedMeansClosed'
  BY <1>1, <1>4 DEF Stabilise, sessionVars
<1>5. CASE HandleCommand
  BY <1>5 DEF HandleCommand
<1>6. CASE Restart
  BY <1>6 DEF Restart, Reset
<1>7. CASE Frame
  <2>1. CASE expected = None \/ resultAnnounced
    BY <1>7, <2>1 DEF Frame, Update
  <2>2. CASE expected # None /\ ~resultAnnounced
    <3>1. warnings = 0 /\ Judge
      BY <1>7, <2>2 DEF Frame, Update
    <3>2. QED
      BY <1>7, <3>1 DEF Frame, Update, Judge
  <2>3. QED
    BY <2>1, <2>2
<1>8. CASE Tick
  BY <1>1, <1>8 DEF Tick, sessionVars
<1>9. CASE UNCHANGED vars
  BY <1>1, <1>9 DEF vars, sessionVars
<1>10. QED
  BY <1>2, <1>3, <1>4, <1>5, <1>6, <1>7, <1>8, <1>9 DEF Next, CameraLoop

(* A payment is warned about at most once. *)
THEOREM OneWarningEach == Spec => []OneWarning
<1>1. Init => WarnedMeansClosed
  BY DEF Init, WarnedMeansClosed
<1>2. WarnedMeansClosed => OneWarning
  BY DEF WarnedMeansClosed, OneWarning
<1>3. QED
  BY <1>1, <1>2, WarnedStep, PTL DEF Spec

-----------------------------------------------------------------------------

LEMMA SteadyStep == SteadyMeansSettled /\ [Next]_vars => SteadyMeansSettled'
<1> SUFFICES ASSUME SteadyMeansSettled, [Next]_vars PROVE SteadyMeansSettled'
  OBVIOUS
<1> USE DEF SteadyMeansSettled
<1>1. CASE UNCHANGED <<steady, signature, afterAtTick, framed, readAfter>>
  BY <1>1
<1>2. CASE Customer
  BY <1>1, <1>2 DEF Customer, Place, Lift, Lay, Pocket, Bag, Pay, Leave,
     AtTrays, readVars, ageVars
<1>3. CASE PushReset
  BY <1>1, <1>3 DEF PushReset, readVars, ageVars
<1>4. ASSUME NEW i \in Items, Stabilise(i) PROVE SteadyMeansSettled'
  BY <1>4 DEF Stabilise, ageVars
<1>5. CASE HandleCommand
  BY <1>5 DEF HandleCommand, Reset, PaymentConfirmed, ageVars
<1>6. CASE Restart
  BY <1>6 DEF Restart, Reset
<1>7. CASE Frame
  BY <1>7 DEF Frame, Update, SteadyNow, readVars
<1>8. CASE Tick
  BY <1>8, TimingAssumption DEF Tick, Older, readVars
<1>9. CASE UNCHANGED vars
  BY <1>1, <1>9 DEF vars, readVars, ageVars
<1>10. QED
  BY <1>2, <1>3, <1>4, <1>5, <1>6, <1>7, <1>8, <1>9 DEF Next, CameraLoop

(* No step but a frame announces TRAY_COMPLETE, and a frame only of a      *)
(* reading that has settled.                                               *)
LEMMA CompleteStep ==
    ASSUME SteadyMeansSettled, [Next]_vars, result' = "TRAY_COMPLETE",
           result # "TRAY_COMPLETE"
    PROVE  afterAtTick = expected
<1>1. Frame
  <2>1. CASE UNCHANGED result
    BY <2>1
  <2>2. CASE Customer
    BY <2>1, <2>2 DEF Customer, Place, Lift, Lay, Pocket, Bag, Pay, Leave,
     AtTrays, sessionVars
  <2>3. CASE PushReset
    BY <2>1, <2>3 DEF PushReset, sessionVars
  <2>4. ASSUME NEW i \in Items, Stabilise(i) PROVE FALSE
    BY <2>1, <2>4 DEF Stabilise, sessionVars
  <2>5. CASE HandleCommand
    BY <2>1, <2>5 DEF HandleCommand, Reset, PaymentConfirmed, sessionVars
  <2>6. CASE Restart
    BY <2>6 DEF Restart, Reset
  <2>7. CASE Tick
    BY <2>1, <2>7 DEF Tick, sessionVars
  <2>8. CASE UNCHANGED vars
    BY <2>1, <2>8 DEF vars, sessionVars
  <2>9. QED
    BY <2>2, <2>3, <2>4, <2>5, <2>6, <2>7, <2>8 DEF Next, CameraLoop
<1>2. Judge
  BY <1>1 DEF Frame, Update
<1>3. Verdict = "TRAY_COMPLETE"
  BY <1>2 DEF Judge
<1>4. ~(SteadyNow < Settle) /\ readAfter = expected
  BY <1>3 DEF Verdict
<1>5. readAfter = signature /\ steady # 0
  BY <1>4, TimingAssumption DEF SteadyNow, SteadyMeansSettled
<1>6. QED
  BY <1>4, <1>5 DEF SteadyMeansSettled

(* TRAY_COMPLETE is announced only of a payment that lay on the AFTER tray *)
(* when the last tick ended.                                               *)
THEOREM CompleteWasThere == Spec => CompleteWasOnTray
<1>1. Init => SteadyMeansSettled
  BY DEF Init, SteadyMeansSettled
<1>2. SteadyMeansSettled /\ [Next]_vars
        => [result' = "TRAY_COMPLETE" /\ result # "TRAY_COMPLETE" => afterAtTick = expected]_vars
  BY CompleteStep
<1>3. QED
  BY <1>1, <1>2, SteadyStep, PTL DEF Spec, CompleteWasOnTray

-----------------------------------------------------------------------------
(* Totals.  Sums(counts)[n] adds the counts of the first n products.       *)

Counts == [Items -> Nat]

Sums(counts) ==
    CHOOSE sum : sum = [i \in 0..NItems |-> IF i = 0 THEN 0 ELSE sum[i - 1] + counts[i]]

LEMMA TotalIsSums == ASSUME NEW counts PROVE Total(counts) = Sums(counts)[NItems]
  BY DEF Total, Sums

(* A set of numbers without a least one is empty. *)
LEMMA LeastOne ==
    ASSUME NEW T \in SUBSET Nat, NEW n \in T
    PROVE  \E m \in T : \A k \in T : m <= k
<1>1. PICK m \in T : \A k \in T : ~(<<k, m>> \in OpToRel(<, Nat))
  BY NatLessThanWellFounded, WFMin
<1>2. \A k \in T : ~(k < m)
  BY <1>1, Zenon DEF OpToRel
<1> QED
  BY <1>2

(* The partial sums of the counts up to n. *)
PartialSums(counts, n) ==
    {f \in [0..n -> Nat] : f[0] = 0 /\ \A i \in 1..n : f[i] = f[i - 1] + counts[i]}

LEMMA PartialSumsExist ==
    ASSUME NEW counts \in Counts, NEW n \in 0..NItems
    PROVE  PartialSums(counts, n) # {}
<1> DEFINE T == {k \in 0..NItems : PartialSums(counts, k) = {}}
<1>1. SUFFICES T = {}
  OBVIOUS
<1>2. SUFFICES ASSUME NEW k \in T PROVE FALSE
  OBVIOUS
<1> HIDE DEF T
<1>3. PICK m \in T : \A j \in T : m <= j
  <2>1. T \in SUBSET Nat
    BY ItemsAssumption DEF T
  <2> QED
    BY <2>1, LeastOne
<1> USE DEF T
<1>4. m \in 0..NItems /\ m \in Nat /\ PartialSums(counts, m) = {}
  BY ItemsAssumption
<1>5. CASE m = 0
  <2>1. [i \in 0..0 |-> 0] \in PartialSums(counts, 0)
    BY DEF PartialSums
  <2> QED
    BY <1>4, <1>5, <2>1
<1>6. CASE m # 0
  <2>1. m - 1 \in 0..NItems /\ m - 1 \in Nat /\ m - 1 \notin T /\ m \in Items
    BY <1>3, <1>4, <1>6, ItemsAssumption DEF Items
  <2>2. PICK f : f \in PartialSums(counts, m - 1)
    BY <2>1
  <2>3. /\ f \in [0..(m - 1) -> Nat] /\ f[0] = 0 /\ counts[m] \in Nat
        /\ \A i \in 1..(m - 1) : f[i] = f[i - 1] + counts[i]
    BY <2>1, <2>2 DEF PartialSums, Counts
  <2> DEFINE h == [i \in 0..m |-> IF i = m THEN f[m - 1] + counts[m] ELSE f[i]]
  <2>4. h \in [0..m -> Nat] /\ h[0] = 0
    BY <1>4, <1>6, <2>1, <2>3
  <2>5. \A i \in 1..m : h[i] = h[i - 1] + counts[i]
    BY <1>4, <1>6, <2>1, <2>3
  <2> QED
    BY <1>4, <2>4, <2>5 DEF PartialSums
<1> QED
  BY <1>4, <1>5, <1>6

LEMMA SumsAdd ==
    ASSUME NEW counts \in Counts
    PROVE  /\ Sums(counts)[0] = 0
           /\ \A i \in Items : Sums(counts)[i] = Sums(counts)[i - 1] + counts[i]
<1> DEFINE Def(sum) == [i \in 0..NItems |-> IF i = 0 THEN 0 ELSE sum[i - 1] + counts[i]]
<1>1. PICK f : f \in PartialSums(counts, NItems)
  BY PartialSumsExist, ItemsAssumption
<1>2. f = Def(f)
  <2>1. f \in [0..NItems -> Nat] /\ f[0] = 0 /\ \A i \in 1..NItems : f[i] = f[i - 1] + counts[i]
    BY <1>1 DEF PartialSums
  <2> QED
    BY <2>1, ItemsAssumption
<1> DEFINE s == Sums(counts)
<1>3. s = Def(s)
  BY <1>2 DEF Sums
<1> HIDE DEF s
<1>4. s = [i \in 0..NItems |-> IF i = 0 THEN 0 ELSE s[i - 1] + counts[i]]
  BY <1>3
<1>5. s[0] = 0
  BY <1>4, ItemsAssumption
<1>6. ASSUME NEW i \in Items PROVE s[i] = s[i - 1] + counts[i]
  <2>1. i \in 0..NItems /\ i # 0
    BY ItemsAssumption DEF Items
  <2> QED
    BY <1>4, <2>1
<1> QED
  BY <1>5, <1>6 DEF s

(* A tray that lacks a product of another has the lower total. *)
LEMMA LessTotal ==
    ASSUME NEW c \in Counts, NEW d \in Counts, \A i \in Items : c[i] <= d[i],
           NEW j \in Items, c[j] < d[j]
    PROVE  Total(c) \in Nat /\ Total(d) \in Nat /\ Total(c) < Total(d)
<1> DEFINE s == Sums(c)
           t == Sums(d)
           Less(k) == s[k] \in Nat /\ t[k] \in Nat /\ s[k] <= t[k] /\ (j <= k => s[k] < t[k])
           T == {k \in 0..NItems : ~Less(k)}
<1>1. /\ s[0] = 0 /\ \A i \in Items : s[i] = s[i - 1] + c[i]
      /\ t[0] = 0 /\ \A i \in Items : t[i] = t[i - 1] + d[i]
  BY SumsAdd
<1> HIDE DEF s, t
<1>2. ASSUME NEW n \in T PROVE FALSE
  <2> HIDE DEF T
  <2>1. PICK m \in T : \A k \in T : m <= k
    <3>1. T \in SUBSET Nat
      BY ItemsAssumption DEF T
    <3> QED
      BY <3>1, LeastOne
  <2> USE DEF T
  <2>2. m \in 0..NItems /\ ~Less(m) /\ j \in 1..NItems
    BY DEF Items
  <2>3. m # 0
    BY <1>1, <2>2
  <2>4. m \in Items /\ m - 1 \in 0..NItems
    BY <2>2, <2>3, ItemsAssumption DEF Items
  <2>5. m - 1 \notin T
    BY <2>1, <2>2, <2>4, ItemsAssumption
  <2>6. Less(m - 1)
    BY <2>4, <2>5
  <2>7. /\ s[m] = s[m - 1] + c[m] /\ t[m] = t[m - 1] + d[m]
        /\ c[m] \in Nat /\ d[m] \in Nat /\ c[m] <= d[m] /\ (m = j => c[m] < d[m])
    BY <1>1, <2>4 DEF Counts
  <2>8. j <= m => j <= m - 1 \/ m = j
    BY <2>2, ItemsAssumption
  <2> HIDE DEF T
  <2>9. Less(m)
    BY <2>6, <2>7, <2>8
  <2> QED
    BY <2>2, <2>9
<1>3. Less(NItems) /\ j <= NItems
  BY <1>2, ItemsAssumption DEF Items
<1> QED
  BY <1>3, TotalIsSums DEF s, t

-----------------------------------------------------------------------------
(* The queue of commands.  Of the payments in it the last one counts.      *)

IsPayment(c) == c.command = "PAYMENT_CONFIRMED"
ResetCommand == [command |-> "SYSTEM_RESET"]
PaymentCommand(counts) == [command |-> "PAYMENT_CONFIRMED", expected |-> counts]
Pushed == {ResetCommand} \union {PaymentCommand(counts) : counts \in Counts}

LastPayment(queue, n) ==
    IsPayment(queue[n]) /\ \A k \in 1..Len(queue) : k > n => ~IsPayment(queue[k])
NoPayment(queue) == \A n \in 1..Len(queue) : ~IsPayment(queue[n])
EndsWith(queue, paid) ==
    \A n \in 1..Len(queue) : LastPayment(queue, n) => queue[n].expected = paid

LEMMA HeadHandled ==
    ASSUME NEW queue \in Seq(Pushed), queue # <<>>, NEW paid, EndsWith(queue, paid)
    PROVE  /\ EndsWith(Tail(queue), paid)
           /\ NoPayment(Tail(queue)) /\ IsPayment(Head(queue)) => Head(queue).expected = paid
           /\ NoPayment(Tail(queue)) /\ ~IsPayment(Head(queue)) => NoPayment(queue)
<1> DEFINE rest == Tail(queue)
<1>1. /\ Len(queue) \in Nat \ {0} /\ Head(queue) = queue[1] /\ Len(rest) = Len(queue) - 1
      /\ \A n \in 1..Len(rest) : rest[n] = queue[n + 1] /\ n + 1 \in 1..Len(queue)
      /\ \A k \in 1..Len(queue) : k = 1 \/ (k - 1 \in 1..Len(rest) /\ queue[k] = rest[k - 1])
  <2>1. Len(queue) \in Nat \ {0} /\ Head(queue) = queue[1] /\ Len(rest) = Len(queue) - 1
    OBVIOUS
  <2>2. \A n \in 1..Len(rest) : rest[n] = queue[n + 1] /\ n + 1 \in 1..Len(queue)
    BY <2>1
  <2>3. ASSUME NEW k \in 1..Len(queue), k # 1
        PROVE  k - 1 \in 1..Len(rest) /\ queue[k] = rest[k - 1]
    <3>1. k - 1 \in 1..Len(rest) /\ (k - 1) + 1 = k
      BY <2>1, <2>3
    <3> QED
      BY <2>2, <3>1
  <2> QED
    BY <2>1, <2>2, <2>3
<1> HIDE DEF rest
<1>2. ASSUME NEW n \in 1..Len(rest), LastPayment(rest, n) PROVE rest[n].expected = paid
  <2>1. n + 1 \in 1..Len(queue) /\ rest[n] = queue[n + 1]
    BY <1>1
  <2>2. ASSUME NEW k \in 1..Len(queue), k > n + 1 PROVE ~IsPayment(queue[k])
    <3>1. k - 1 \in 1..Len(rest) /\ k - 1 > n /\ queue[k] = rest[k - 1]
      BY <1>1, <2>2
    <3> QED
      BY <1>2, <3>1 DEF LastPayment
  <2>3. LastPayment(queue, n + 1)
    BY <1>2, <2>1, <2>2 DEF LastPayment
  <2> QED
    BY <2>1, <2>3 DEF EndsWith
<1>3. ASSUME NoPayment(rest), IsPayment(Head(queue)) PROVE Head(queue).expected = paid
  <2>1. LastPayment(queue, 1)
    BY <1>1, <1>3 DEF NoPayment, LastPayment
  <2> QED
    BY <1>1, <2>1 DEF EndsWith
<1>4. ASSUME NoPayment(rest), ~IsPayment(Head(queue)) PROVE NoPayment(queue)
  BY <1>1, <1>4 DEF NoPayment
<1> QED
  BY <1>2, <1>3, <1>4 DEF EndsWith, rest

LEMMA PrefixLost ==
    ASSUME NEW queue \in Seq(Pushed), NEW paid, EndsWith(queue, paid), NEW m \in 0..Len(queue)
    PROVE  /\ SubSeq(queue, m + 1, Len(queue)) \in Seq(Pushed)
           /\ EndsWith(SubSeq(queue, m + 1, Len(queue)), paid)
<1> DEFINE rest == SubSeq(queue, m + 1, Len(queue))
<1>1. /\ Len(queue) \in Nat /\ rest \in Seq(Pushed) /\ Len(rest) = Len(queue) - m
      /\ \A n \in 1..Len(rest) : rest[n] = queue[n + m]
  <2>1. Len(queue) \in Nat /\ m \in Nat
    OBVIOUS
  <2>2. rest \in Seq(Pushed)
    BY <2>1
  <2>3. Len(rest) = Len(queue) - m
    BY <2>1
  <2>4. ASSUME NEW n \in 1..Len(rest) PROVE rest[n] = queue[n + m]
    <3>1. n \in 1..(Len(queue) - m) /\ (m + 1) + n - 1 = n + m
      BY <2>1, <2>3
    <3> QED
      BY <2>1, <3>1
  <2> QED
    BY <2>1, <2>2, <2>3, <2>4
<1> HIDE DEF rest
<1>2. ASSUME NEW n \in 1..Len(rest), LastPayment(rest, n) PROVE rest[n].expected = paid
  <2>1. n + m \in 1..Len(queue) /\ rest[n] = queue[n + m]
    BY <1>1
  <2>2. ASSUME NEW k \in 1..Len(queue), k > n + m PROVE ~IsPayment(queue[k])
    <3>1. k - m \in 1..Len(rest) /\ k - m > n /\ (k - m) + m = k
      BY <1>1, <2>2
    <3>2. rest[k - m] = queue[k]
      BY <1>1, <3>1
    <3> QED
      BY <1>2, <3>1, <3>2 DEF LastPayment
  <2>3. LastPayment(queue, n + m)
    BY <1>2, <2>1, <2>2 DEF LastPayment
  <2> QED
    BY <2>1, <2>3 DEF EndsWith
<1> QED
  BY <1>1, <1>2 DEF EndsWith, rest

LEMMA CommandPushed ==
    ASSUME NEW queue \in Seq(Pushed), NEW c \in Pushed, NEW paid
    PROVE  /\ Append(queue, c) \in Seq(Pushed)
           /\ IsPayment(c) /\ c.expected = paid
                => EndsWith(Append(queue, c), paid) /\ ~NoPayment(Append(queue, c))
           /\ ~IsPayment(c) /\ EndsWith(queue, paid) => EndsWith(Append(queue, c), paid)
           /\ ~IsPayment(c) /\ NoPayment(Append(queue, c)) => NoPayment(queue)
<1> DEFINE longer == Append(queue, c)
<1>1. /\ Len(queue) \in Nat /\ longer \in Seq(Pushed) /\ Len(longer) = Len(queue) + 1
      /\ longer[Len(queue) + 1] = c /\ \A n \in 1..Len(queue) : longer[n] = queue[n]
  OBVIOUS
<1> HIDE DEF longer
<1>2. \A n \in 1..Len(longer) : n \in 1..Len(queue) \/ n = Len(queue) + 1
  BY <1>1
<1>3. Len(queue) + 1 \in 1..Len(longer) /\ \A n \in 1..Len(queue) : n \in 1..Len(longer)
  BY <1>1
<1>4. ASSUME IsPayment(c), c.expected = paid
      PROVE  EndsWith(longer, paid) /\ ~NoPayment(longer)
  <2>1. ASSUME NEW n \in 1..Len(longer), LastPayment(longer, n) PROVE n = Len(queue) + 1
    <3>1. SUFFICES ASSUME n \in 1..Len(queue) PROVE FALSE
      BY <1>2
    <3>2. Len(queue) + 1 > n
      BY <1>1, <3>1
    <3> QED
      BY <1>1, <1>3, <1>4, <2>1, <3>2 DEF LastPayment
  <2> QED
    BY <1>1, <1>3, <1>4, <2>1 DEF EndsWith, NoPayment
<1>5. ASSUME ~IsPayment(c), EndsWith(queue, paid) PROVE EndsWith(longer, paid)
  <2>1. ASSUME NEW n \in 1..Len(longer), LastPayment(longer, n) PROVE longer[n].expected = paid
    <3>1. n \in 1..Len(queue) /\ longer[n] = queue[n]
      BY <1>1, <1>2, <1>5, <2>1 DEF LastPayment
    <3>2. LastPayment(queue, n)
      BY <1>1, <1>3, <2>1, <3>1 DEF LastPayment
    <3> QED
      BY <1>5, <3>1, <3>2 DEF EndsWith
  <2> QED
    BY <2>1 DEF EndsWith
<1>6. ASSUME NoPayment(longer) PROVE NoPayment(queue)
  BY <1>1, <1>3, <1>6 DEF NoPayment
<1> QED
  BY <1>1, <1>4, <1>5, <1>6 DEF longer

-----------------------------------------------------------------------------
(* An honest customer.  The lot is what the customer paid for; the trays   *)
(* and the hand hold no more of it.  What is still queued and what the     *)
(* session expects are tied together by it: the payment the session waits  *)
(* with, once the queue is empty, is the lot.                              *)

Waiting == expected # None /\ ~resultAnnounced

TraysHold ==
    /\ onBefore \in Counts /\ onAfter \in Counts /\ inHand \in Counts /\ lot \in Counts
    /\ phase = "placing" => inHand = Zero /\ onAfter = Zero
    /\ phase = "moving" => \A i \in Items : onBefore[i] + inHand[i] + onAfter[i] <= lot[i]
    /\ phase \in {"placing", "moving"} /\ commands \in Seq(Pushed)

LotIsPaid(queue, paid, waiting, payment) ==
    /\ paid # Zero
    /\ EndsWith(queue, paid)
    /\ NoPayment(queue) /\ waiting => payment = paid

(* A frame has seen the tray the readings show. *)
EmptyNoticed == framed /\ Waiting /\ readBefore # Zero => empty = Never

(* The session has seen the BEFORE tray empty for no longer than it is.    *)
EmptyTimed ==
    /\ idle \in 0..Timeout /\ (empty = Never \/ empty \in 0..Timeout)
    /\ honest /\ phase = "moving" /\ Waiting /\ NoPayment(commands)
          => empty = Never \/ empty <= idle

(* A steady reading is of a tray of the lot, or of a part of it before the *)
(* timeout.                                                                *)
Plausible(reading, payment, age) ==
    \/ reading = Zero
    \/ reading = payment
    \/ Total(reading) # Total(payment) /\ age < Timeout

HonestSteady == honest /\ Waiting /\ steady # 0 => Plausible(signature, expected, empty)

HonestLot ==
    honest /\ phase = "moving" => LotIsPaid(commands, lot, Waiting, expected)

Honesty ==
    /\ TraysHold /\ HonestLot /\ SteadyMeansSettled /\ EmptyNoticed /\ EmptyTimed
    /\ HonestSteady /\ HonestNeverAccused

(* Whoever is honest has been honest. *)
LEMMA HonestBefore == [Next]_vars /\ honest' => honest
<1> SUFFICES ASSUME [Next]_vars, honest' PROVE honest
  OBVIOUS
<1>1. CASE Customer
  BY <1>1 DEF Customer, Place, Lift, Lay, Pocket, Bag, Pay, PushPayment, Leave, customerVars
<1>2. CASE Tick
  BY <1>2 DEF Tick
<1> QED
  BY <1>1, <1>2 DEF Next, CameraLoop, PushReset, Stabilise, HandleCommand, Restart, Frame, vars,
     customerVars

LEMMA PartOfLot ==
    ASSUME NEW c \in Counts, NEW d \in Counts, \A i \in Items : c[i] <= d[i], c # d
    PROVE  Total(c) # Total(d)
<1>1. PICK j \in Items : c[j] # d[j]
  BY DEF Counts
<1>2. c[j] < d[j]
  BY <1>1 DEF Counts
<1>3. Total(c) \in Nat /\ Total(d) \in Nat /\ Total(c) < Total(d)
  BY <1>2, LessTotal
<1> QED
  BY <1>3

(* One product more, or one product fewer. *)
LEMMA CountsMove ==
    ASSUME NEW c \in Counts, NEW i \in Items
    PROVE  /\ More(c, i) \in Counts
           /\ c[i] > 0 => Fewer(c, i) \in Counts
           /\ \A k \in Items : /\ More(c, i)[k] = IF k = i THEN c[k] + 1 ELSE c[k]
                              /\ Fewer(c, i)[k] = IF k = i THEN c[k] - 1 ELSE c[k]
  BY DEF Counts, More, Fewer

(* The customer's moves keep the products within the lot. *)
LEMMA MovesKeep ==
    ASSUME onBefore \in Counts, onAfter \in Counts, inHand \in Counts, NEW bound \in Counts,
           \A k \in Items : onBefore[k] + inHand[k] + onAfter[k] <= bound[k],
           NEW i \in Items, Lift(i) \/ Lay(i) \/ Pocket(i) \/ Bag(i)
    PROVE  /\ onBefore' \in Counts /\ onAfter' \in Counts /\ inHand' \in Counts
           /\ \A k \in Items : onBefore'[k] + inHand'[k] + onAfter'[k] <= bound[k]
<1>1. \A k \in Items : onBefore[k] \in Nat /\ onAfter[k] \in Nat /\ inHand[k] \in Nat
                       /\ bound[k] \in Nat
  BY DEF Counts
<1>2. CASE Lift(i)
  <2>1. /\ onBefore' = Fewer(onBefore, i) /\ inHand' = More(inHand, i)
        /\ onAfter' = onAfter /\ onBefore[i] > 0
    BY <1>2 DEF Lift
  <2>2. /\ onBefore' \in Counts /\ onAfter' \in Counts /\ inHand' \in Counts
        /\ \A k \in Items : /\ onBefore'[k] = IF k = i THEN onBefore[k] - 1 ELSE onBefore[k]
                           /\ inHand'[k] = IF k = i THEN inHand[k] + 1 ELSE inHand[k]
    BY <2>1, CountsMove
  <2>3. ASSUME NEW k \in Items PROVE onBefore'[k] + inHand'[k] + onAfter'[k] <= bound[k]
    BY <1>1, <2>1, <2>2
  <2> QED
    BY <2>2, <2>3
<1>3. CASE Lay(i)
  <2>1. /\ inHand' = Fewer(inHand, i) /\ onAfter' = More(onAfter, i)
        /\ onBefore' = onBefore /\ inHand[i] > 0
    BY <1>3 DEF Lay
  <2>2. /\ onBefore' \in Counts /\ onAfter' \in Counts /\ inHand' \in Counts
        /\ \A k \in Items : /\ inHand'[k] = IF k = i THEN inHand[k] - 1 ELSE inHand[k]
                           /\ onAfter'[k] = IF k = i THEN onAfter[k] + 1 ELSE onAfter[k]
    BY <2>1, CountsMove
  <2>3. ASSUME NEW k \in Items PROVE onBefore'[k] + inHand'[k] + onAfter'[k] <= bound[k]
    BY <1>1, <2>1, <2>2
  <2> QED
    BY <2>2, <2>3
<1>4. CASE Pocket(i)
  <2>1. /\ inHand' = Fewer(inHand, i) /\ inHand[i] > 0
        /\ onBefore' = onBefore /\ onAfter' = onAfter
    BY <1>4 DEF Pocket
  <2>2. /\ onBefore' \in Counts /\ onAfter' \in Counts /\ inHand' \in Counts
        /\ \A k \in Items : inHand'[k] = IF k = i THEN inHand[k] - 1 ELSE inHand[k]
    BY <2>1, CountsMove
  <2>3. ASSUME NEW k \in Items PROVE onBefore'[k] + inHand'[k] + onAfter'[k] <= bound[k]
    BY <1>1, <2>1, <2>2
  <2> QED
    BY <2>2, <2>3
<1>5. CASE Bag(i)
  <2>1. /\ onAfter' = Fewer(onAfter, i) /\ onAfter[i] > 0
        /\ onBefore' = onBefore /\ inHand' = inHand
    BY <1>5 DEF Bag
  <2>2. /\ onBefore' \in Counts /\ onAfter' \in Counts /\ inHand' \in Counts
        /\ \A k \in Items : onAfter'[k] = IF k = i THEN onAfter[k] - 1 ELSE onAfter[k]
    BY <2>1, CountsMove
  <2>3. ASSUME NEW k \in Items PROVE onBefore'[k] + inHand'[k] + onAfter'[k] <= bound[k]
    BY <1>1, <2>1, <2>2
  <2> QED
    BY <2>2, <2>3
<1> QED
  BY <1>2, <1>3, <1>4, <1>5

LEMMA TraysStep == ASSUME Honesty, [Next]_vars PROVE TraysHold'
<1> USE DEF TraysHold
<1>1. /\ onBefore \in Counts /\ onAfter \in Counts /\ inHand \in Counts /\ lot \in Counts
      /\ commands \in Seq(Pushed) /\ Zero' = Zero /\ Zero \in Counts
  BY DEF Honesty, Zero, Counts, Items
<1>2. \A counts \in Payments \union {onBefore} : PaymentCommand(counts) \in Pushed
  BY <1>1, PaymentsAssumption DEF Pushed, Counts, Items
<1>3. ResetCommand \in Pushed
  BY DEF Pushed
<1>4. ASSUME NEW i \in Items, Place(i) PROVE TraysHold'
  <2>1. /\ UNCHANGED <<onAfter, inHand, lot, phase, commands>> /\ phase = "placing"
        /\ onBefore' = More(onBefore, i)
    BY <1>4 DEF Place, customerVars
  <2> QED
    BY <1>1, <2>1, CountsMove DEF Honesty
<1>5. CASE Pay
  <2>1. PICK counts \in Payments \union {onBefore} : PushPayment(counts)
    BY <1>5 DEF Pay
  <2>2. commands' \in Seq(Pushed)
    BY <1>1, <1>2, <2>1, CommandPushed DEF PushPayment, PaymentCommand
  <2>3. /\ UNCHANGED <<onBefore, onAfter, inHand>> /\ phase' = "moving" /\ lot' = onBefore
        /\ inHand = Zero /\ onAfter = Zero
    BY <1>5 DEF Honesty, Pay
  <2>4. \A i \in Items : onBefore[i] + Zero[i] + Zero[i] <= onBefore[i]
    BY <1>1 DEF Counts, Zero
  <2> QED
    BY <1>1, <2>2, <2>3, <2>4
<1>6. CASE Leave
  BY <1>1, <1>6 DEF Honesty, Leave
<1>12. ASSUME NEW i \in Items, Lift(i) \/ Lay(i) \/ Pocket(i) \/ Bag(i) PROVE TraysHold'
  <2>1. UNCHANGED <<lot, phase, commands>>
    BY <1>12 DEF Lift, Lay, Pocket, Bag, customerVars
  <2>2. phase = "moving"
    <3>1. CASE Lay(i) \/ Pocket(i)
      BY <3>1 DEF Lay, Pocket, Honesty, Zero
    <3> QED
      BY <1>12, <3>1 DEF Lift, Bag
  <2>3. \A k \in Items : onBefore[k] + inHand[k] + onAfter[k] <= lot[k]
    BY <2>2 DEF Honesty
  <2>4. /\ onBefore' \in Counts /\ onAfter' \in Counts /\ inHand' \in Counts
        /\ \A k \in Items : onBefore'[k] + inHand'[k] + onAfter'[k] <= lot[k]
    BY <1>1, <1>12, <2>3, MovesKeep
  <2> QED
    BY <1>1, <2>1, <2>2, <2>4
<1>7. CASE PushReset
  BY <1>1, <1>3, <1>7, CommandPushed
     DEF Honesty, PushReset, ResetCommand, trayVars, customerVars
<1>8. ASSUME NEW i \in Items, Stabilise(i) PROVE TraysHold'
  BY <1>1, <1>8 DEF Honesty, Stabilise, trayVars, customerVars
<1>9. CASE HandleCommand
  BY <1>1, <1>9 DEF Honesty, HandleCommand, trayVars, customerVars
<1>10. CASE Restart
  <2>1. PICK n \in 0..Len(commands) : commands' = SubSeq(commands, n + 1, Len(commands))
    BY <1>10 DEF Restart
  <2>2. commands' \in Seq(Pushed)
    BY <1>1, <2>1
  <2> QED
    BY <1>1, <1>10, <2>2 DEF Honesty, Restart, trayVars, customerVars
<1>11. CASE Frame \/ Tick \/ UNCHANGED vars
  BY <1>1, <1>11 DEF Honesty, Frame, Tick, vars, trayVars, customerVars
<1> QED
  BY <1>4, <1>5, <1>6, <1>7, <1>8, <1>9, <1>10, <1>11, <1>12 DEF Next, CameraLoop, Customer

LEMMA LotStep == ASSUME Honesty, [Next]_vars PROVE HonestLot'
<1> SUFFICES ASSUME honest', phase' = "moving" PROVE LotIsPaid(commands', lot', Waiting', expected')
  BY DEF HonestLot
<1>1. /\ onBefore \in Counts /\ commands \in Seq(Pushed) /\ Zero' = Zero /\ honest
  BY HonestBefore DEF Honesty, TraysHold, Zero, Items
<1>2. ResetCommand \in Pushed /\ PaymentCommand(onBefore) \in Pushed
  BY <1>1 DEF Pushed
<1>3. ASSUME phase = "moving" PROVE LotIsPaid(commands, lot, Waiting, expected)
  BY <1>1, <1>3 DEF Honesty, HonestLot
<1>5. CASE phase = "moving" /\ lot' = lot /\ commands' = commands
           /\ (Waiting' => Waiting) /\ expected' = expected
  BY <1>1, <1>3, <1>5 DEF LotIsPaid
<1>6. ASSUME NEW i \in Items, Lift(i) \/ Lay(i) \/ Pocket(i) \/ Bag(i)
      PROVE  LotIsPaid(commands', lot', Waiting', expected')
  BY <1>5, <1>6 DEF Lift, Lay, Pocket, Bag, AtTrays, customerVars, sessionVars, Waiting
<1>7. CASE Pay
  <2>1. PICK counts \in Payments \union {onBefore} : PushPayment(counts)
    BY <1>7 DEF Pay
  <2>3. onBefore # Zero /\ counts = onBefore /\ lot' = onBefore
    BY <1>7, <2>1 DEF Pay, PushPayment
  <2>4. CASE commands' = Append(commands, PaymentCommand(onBefore))
    <3>1. EndsWith(commands', onBefore) /\ ~NoPayment(commands')
      BY <1>1, <1>2, <2>4, CommandPushed DEF IsPayment, PaymentCommand
    <3> QED
      BY <1>1, <2>3, <3>1 DEF LotIsPaid
  <2>5. CASE commands' = commands /\ ~Unjudged
    <3>1. commands' = <<>> /\ ~Waiting'
      BY <1>7, <2>5 DEF Unjudged, Waiting, Pay, AtTrays, sessionVars
    <3>2. EndsWith(commands', onBefore)
      BY <3>1 DEF EndsWith
    <3> QED
      BY <1>1, <2>3, <3>1, <3>2 DEF LotIsPaid
  <2> QED
    BY <2>1, <2>3, <2>4, <2>5 DEF PushPayment, PaymentCommand
<1>8. CASE PushReset
  <2>1. phase = "moving" /\ lot' = lot /\ Waiting' = Waiting /\ expected' = expected
    BY <1>8 DEF PushReset, trayVars, sessionVars, customerVars, Waiting
  <2>2. EndsWith(commands', lot) /\ (NoPayment(commands') => NoPayment(commands))
    <3>1. commands' = commands \/ commands' = Append(commands, ResetCommand)
      BY <1>8 DEF PushReset, ResetCommand
    <3>2. ~IsPayment(ResetCommand)
      BY DEF IsPayment, ResetCommand
    <3> QED
      BY <1>1, <1>2, <1>3, <2>1, <3>1, <3>2, CommandPushed DEF LotIsPaid
  <2> QED
    BY <1>1, <1>3, <2>1, <2>2 DEF LotIsPaid
<1>9. ASSUME NEW i \in Items, Stabilise(i) PROVE LotIsPaid(commands', lot', Waiting', expected')
  BY <1>5, <1>9 DEF Stabilise, trayVars, sessionVars, customerVars, Waiting
<1>10. CASE HandleCommand
  <2>1. phase = "moving" /\ lot' = lot /\ commands # <<>> /\ commands' = Tail(commands)
    BY <1>10 DEF HandleCommand, trayVars, customerVars
  <2> DEFINE c == Head(commands)
  <2>2. /\ EndsWith(commands', lot)
        /\ NoPayment(commands') /\ IsPayment(c) => c.expected = lot
        /\ NoPayment(commands') /\ ~IsPayment(c) => NoPayment(commands)
    BY <1>1, <1>3, <2>1, HeadHandled DEF LotIsPaid
  <2>3. CASE c.command = "SYSTEM_RESET" /\ Reset
    <3>1. ~Waiting'
      BY <2>3 DEF Reset, Waiting
    <3> QED
      BY <1>1, <1>3, <2>1, <2>2, <3>1 DEF LotIsPaid
  <2>4. CASE IsPayment(c) /\ PaymentConfirmed(c.expected)
    <3>1. NoPayment(commands') => expected' = lot
      BY <1>3, <2>1, <2>2, <2>4 DEF PaymentConfirmed, LotIsPaid
    <3> QED
      BY <1>1, <1>3, <2>1, <2>2, <3>1 DEF LotIsPaid
  <2> QED
    BY <1>10, <2>3, <2>4 DEF HandleCommand, IsPayment
<1>11. CASE Restart
  <2>1. phase = "moving" /\ lot' = lot /\ ~Waiting'
    BY <1>11 DEF Restart, Reset, trayVars, customerVars, Waiting
  <2>2. PICK n \in 0..Len(commands) : commands' = SubSeq(commands, n + 1, Len(commands))
    BY <1>11 DEF Restart
  <2>3. EndsWith(commands', lot)
    BY <1>1, <1>3, <2>1, <2>2, PrefixLost DEF LotIsPaid
  <2> QED
    BY <1>1, <1>3, <2>1, <2>3 DEF LotIsPaid
<1>12. CASE Frame
  BY <1>5, <1>12 DEF Frame, Update, Judge, trayVars, customerVars, Waiting
<1>13. CASE Tick
  BY <1>5, <1>13 DEF Tick, trayVars, sessionVars, Waiting
<1>14. CASE UNCHANGED vars
  BY <1>5, <1>14 DEF vars, trayVars, sessionVars, customerVars, Waiting
<1>15. ASSUME NEW i \in Items, Place(i) PROVE FALSE
  BY <1>15 DEF Place
<1>16. ~Leave
  BY DEF Leave
<1> QED
  BY <1>6, <1>7, <1>8, <1>9, <1>10, <1>11, <1>12, <1>13, <1>14, <1>15, <1>16
     DEF Next, CameraLoop, Customer

LEMMA EmptyStep == ASSUME Honesty, [Next]_vars PROVE EmptyNoticed'
<1>1. Zero' = Zero
  BY DEF Zero, Items
<1>2. CASE /\ UNCHANGED <<readVars, sessionVars, ageVars>>
           /\ framed' => framed
  BY <1>1, <1>2 DEF Honesty, EmptyNoticed, Waiting, readVars, sessionVars, ageVars
<1>3. CASE framed' = FALSE
  BY <1>3 DEF EmptyNoticed
<1>4. CASE Customer
  BY <1>2, <1>4 DEF Customer, Place, Lift, Lay, Pocket, Bag, Pay, Leave,
     AtTrays
<1>5. CASE PushReset \/ UNCHANGED vars
  BY <1>2, <1>5 DEF PushReset, vars
<1>6. CASE Frame
  <2>1. ASSUME Waiting', readBefore # Zero PROVE empty' = Never
    BY <1>6, <2>1 DEF Frame, Update, Judge, EmptyNow, Waiting
  <2> QED
    BY <1>1, <1>6, <2>1 DEF Frame, EmptyNoticed, readVars
<1> QED
  BY <1>3, <1>4, <1>5, <1>6 DEF Next, CameraLoop, Stabilise, HandleCommand, Restart, Tick

(* The age of the empty BEFORE tray is set anew with every payment, and    *)
(* both ages grow with the ticks.                                          *)
LEMMA TimedStep == ASSUME Honesty, [Next]_vars PROVE EmptyTimed'
<1> DEFINE Order == empty = Never \/ empty <= idle
<1>1. /\ idle \in 0..Timeout /\ (empty = Never \/ empty \in 0..Timeout) /\ Timeout \in Nat \ {0}
      /\ honest /\ phase = "moving" /\ Waiting /\ NoPayment(commands) => Order
      /\ Never' = Never /\ Never = -1 /\ commands \in Seq(Pushed)
  BY TimingAssumption DEF Honesty, EmptyTimed, TraysHold, Never
<1>2. honest' => honest
  BY HonestBefore
<1>3. CASE /\ UNCHANGED <<idle, empty>>
           /\ phase' = "moving" /\ Waiting' /\ NoPayment(commands')
                => phase = "moving" /\ Waiting /\ NoPayment(commands)
  BY <1>1, <1>2, <1>3 DEF EmptyTimed
<1>4. CASE UNCHANGED idle /\ empty' \in {Never, 0}
  BY <1>1, <1>4 DEF EmptyTimed
<1>5. ASSUME NEW i \in Items, Place(i) \/ Lift(i) \/ Lay(i) \/ Pocket(i) \/ Bag(i)
      PROVE  EmptyTimed'
  BY <1>3, <1>5 DEF Place, Lift, Lay, Pocket, Bag, AtTrays, customerVars, sessionVars, ageVars,
     Waiting
<1>6. CASE Pay
  <2>1. PICK counts \in Payments \union {onBefore} : PushPayment(counts)
    BY <1>6 DEF Pay
  <2>2. idle' = 0 /\ UNCHANGED <<empty, expected, resultAnnounced>>
    BY <1>6 DEF Pay, AtTrays, sessionVars, ageVars
  <2>3. ~(honest' /\ Waiting' /\ NoPayment(commands'))
    <3>1. CASE commands' = Append(commands, PaymentCommand(counts))
      <4>1. PaymentCommand(counts) \in Pushed
        <5>1. counts \in Counts
          BY PaymentsAssumption DEF Honesty, TraysHold, Counts, Items
        <5> QED
          BY <5>1 DEF Pushed
      <4>2. ~NoPayment(commands')
        <5>1. /\ IsPayment(PaymentCommand(counts))
              /\ PaymentCommand(counts).expected = counts
          BY DEF IsPayment, PaymentCommand
        <5> QED
          BY <1>1, <3>1, <4>1, <5>1, CommandPushed
      <4> QED
        BY <4>2
    <3>2. CASE honest' = (honest /\ counts = onBefore /\ ~Unjudged)
      BY <2>2, <3>2 DEF Unjudged, Waiting
    <3> QED
      BY <2>1, <3>1, <3>2 DEF PushPayment, PaymentCommand
  <2> QED
    BY <1>1, <2>2, <2>3 DEF EmptyTimed
<1>7. CASE Leave
  BY <1>1, <1>7 DEF Leave, AtTrays, ageVars, EmptyTimed
<1>8. CASE PushReset
  <2>1. UNCHANGED <<idle, empty, phase>> /\ Waiting' = Waiting
    BY <1>8 DEF PushReset, trayVars, customerVars, sessionVars, ageVars, Waiting
  <2>2. NoPayment(commands') => NoPayment(commands)
    <3>1. commands' = commands \/ commands' = Append(commands, ResetCommand)
      BY <1>8 DEF PushReset, ResetCommand
    <3>2. ResetCommand \in Pushed /\ ~IsPayment(ResetCommand)
      BY DEF Pushed, IsPayment, ResetCommand
    <3> QED
      BY <1>1, <3>1, <3>2, CommandPushed
  <2> QED
    BY <1>3, <2>1, <2>2
<1>9. ASSUME NEW i \in Items, Stabilise(i) PROVE EmptyTimed'
  BY <1>3, <1>9 DEF Stabilise, trayVars, customerVars, sessionVars, ageVars, Waiting
<1>10. CASE HandleCommand
  <2> DEFINE c == Head(commands)
  <2>1. commands # <<>> /\ commands' = Tail(commands) /\ UNCHANGED <<idle, phase>>
    BY <1>10 DEF HandleCommand, trayVars, customerVars
  <2>2. CASE c.command = "SYSTEM_RESET" /\ Reset
    BY <1>4, <2>1, <2>2 DEF Reset
  <2>3. CASE IsPayment(c) /\ PaymentConfirmed(c.expected)
    <3>1. CASE empty' = Never
      BY <1>4, <2>1, <3>1
    <3>2. CASE c.expected = Zero /\ UNCHANGED <<sessionVars, ageVars>>
      <4>1. ~(honest /\ phase = "moving" /\ NoPayment(commands'))
        <5>1. ASSUME honest, phase = "moving", NoPayment(commands') PROVE FALSE
          <6>1. LotIsPaid(commands, lot, Waiting, expected)
            BY <5>1 DEF Honesty, HonestLot
          <6>2. c.expected = lot /\ lot # Zero
            BY <1>1, <2>1, <2>3, <5>1, <6>1, HeadHandled DEF LotIsPaid
          <6> QED
            BY <3>2, <6>2
        <5> QED
          BY <5>1
      <4> QED
        BY <1>1, <1>2, <2>1, <3>2, <4>1 DEF EmptyTimed, ageVars
    <3> QED
      BY <2>3, <3>1, <3>2 DEF PaymentConfirmed
  <2> QED
    BY <1>10, <2>2, <2>3 DEF HandleCommand, IsPayment
<1>11. CASE Restart
  BY <1>4, <1>11 DEF Restart, Reset, customerVars
<1>12. CASE Frame
  <2>1. UNCHANGED <<idle, phase, commands>> /\ (Waiting' => Waiting)
    BY <1>12 DEF Frame, Update, Judge, trayVars, customerVars, Waiting
  <2>2. empty' \in {Never, 0} \/ UNCHANGED empty
    BY <1>12 DEF Frame, Update, Judge, EmptyNow
  <2> QED
    BY <1>3, <1>4, <2>1, <2>2
<1>13. CASE Tick
  <2>1. /\ UNCHANGED <<phase, commands>> /\ Waiting' = Waiting /\ framed
        /\ readBefore = onBefore /\ idle' = IdleNow
        /\ empty' = IF empty = Never THEN Never ELSE Older(empty)
    BY <1>13 DEF Tick, trayVars, sessionVars, Waiting
  <2>2. Older(idle) \in 0..Timeout
    BY <1>1 DEF Older
  <2>3. empty # Never => Older(empty) \in 0..Timeout /\ (empty <= idle => Older(empty) <= Older(idle))
    BY <1>1 DEF Older
  <2>4. IdleNow \in 0..Timeout
    BY <1>1, <2>2 DEF IdleNow
  <2>5. ASSUME phase = "moving", Waiting, empty # Never PROVE IdleNow = Older(idle)
    BY <2>1, <2>5 DEF Honesty, EmptyNoticed, IdleNow
  <2> QED
    BY <1>1, <1>2, <2>1, <2>2, <2>3, <2>4, <2>5 DEF EmptyTimed
<1>14. CASE UNCHANGED vars
  BY <1>3, <1>14 DEF vars, trayVars, customerVars, sessionVars, ageVars, Waiting
<1> QED
  BY <1>5, <1>6, <1>7, <1>8, <1>9, <1>10, <1>11, <1>12, <1>13, <1>14 DEF Next, CameraLoop, Customer

LEMMA HonestSteadyStep == ASSUME Honesty, [Next]_vars PROVE HonestSteady'
<1> SUFFICES ASSUME honest', Waiting', steady' # 0 PROVE Plausible(signature, expected, empty)'
  BY DEF HonestSteady
<1>1. honest /\ Zero' = Zero
  <2>1. honest' => honest
    BY HonestBefore
  <2> QED
    BY <2>1 DEF Zero, Items
<1>2. ASSUME Waiting, steady # 0 PROVE Plausible(signature, expected, empty)
  BY <1>1, <1>2 DEF Honesty, HonestSteady
<1>3. CASE UNCHANGED <<sessionVars, ageVars>>
  BY <1>1, <1>2, <1>3 DEF Plausible, Total, Items, Waiting, sessionVars, ageVars
<1>4. CASE Customer
  BY <1>3, <1>4 DEF Customer, Place, Lift, Lay, Pocket, Bag, Pay, Leave,
     AtTrays
<1>5. CASE PushReset \/ UNCHANGED vars
  BY <1>3, <1>5 DEF PushReset, vars
<1>6. ASSUME NEW i \in Items, Stabilise(i) PROVE Plausible(signature, expected, empty)'
  BY <1>3, <1>6 DEF Stabilise
<1>7. CASE HandleCommand
  BY <1>3, <1>7 DEF HandleCommand, Reset, PaymentConfirmed
<1>8. ~Restart
  BY DEF Restart, Reset, Waiting
<1>9. CASE Frame
  <2>1. /\ Waiting /\ expected' = expected /\ signature' = readAfter
        /\ steady' = SteadyNow /\ empty' = EmptyNow
    BY <1>9 DEF Frame, Update, Judge, Waiting
  <2>2. readAfter = signature /\ steady # 0
    BY <2>1 DEF SteadyNow
  <2>3. Plausible(signature, expected, empty)
    BY <1>2, <2>1, <2>2
  <2>4. empty < Timeout => empty' < Timeout
    BY <2>1, TimingAssumption DEF EmptyNow, Never
  <2> QED
    BY <1>1, <2>1, <2>2, <2>3, <2>4 DEF Plausible, Total, Items
<1>10. CASE Tick
  <2>1. /\ Waiting /\ expected' = expected /\ signature' = signature /\ framed
        /\ commands = <<>> /\ readBefore = onBefore /\ readAfter = onAfter
        /\ empty' = IF empty = Never THEN Never ELSE Older(empty)
    BY <1>10 DEF Tick, sessionVars, Waiting
  <2>2. signature = onAfter
    BY <2>1 DEF Honesty, SteadyMeansSettled
  <2>3. CASE phase = "placing"
    BY <1>1, <2>1, <2>2, <2>3 DEF Honesty, TraysHold, Plausible
  <2>4. CASE phase = "moving"
    <3>1. expected = lot
      BY <1>1, <2>1, <2>4 DEF Honesty, HonestLot, LotIsPaid, NoPayment
    <3>2. /\ onAfter \in Counts /\ lot \in Counts /\ onBefore \in Counts /\ inHand \in Counts
          /\ \A i \in Items : onBefore[i] + inHand[i] + onAfter[i] <= lot[i]
      BY <2>4 DEF Honesty, TraysHold
    <3>3. CASE onAfter \in {Zero, lot}
      BY <1>1, <2>1, <2>2, <3>1, <3>3 DEF Plausible
    <3>4. CASE onAfter \notin {Zero, lot}
      <4>1. Total(signature) # Total(expected)
        <5>1. \A i \in Items : onAfter[i] <= lot[i]
          BY <3>2 DEF Counts
        <5> QED
          BY <2>2, <3>1, <3>2, <3>4, <5>1, PartOfLot
      <4>2. empty' < Timeout
        <5>1. /\ idle \in 0..Timeout /\ (empty = Never \/ empty \in 0..Timeout)
              /\ empty = Never \/ empty <= idle
              /\ Timeout \in Nat \ {0}
          BY <1>1, <2>1, <2>4, TimingAssumption DEF Honesty, EmptyTimed, NoPayment
        <5>2. CASE empty = Never
          BY <2>1, <5>1, <5>2 DEF Never
        <5>3. CASE empty # Never
          <6>1. onBefore = Zero
            BY <2>1, <5>3 DEF Honesty, EmptyNoticed
          <6>2. IdleNow = Older(idle)
            BY <2>4, <6>1 DEF IdleNow
          <6>3. ~Late
            BY <1>10 DEF Tick
          <6>4. Older(idle) # Timeout
            BY <2>1, <3>4, <6>2, <6>3 DEF Late, Waiting
          <6> QED
            BY <2>1, <5>1, <5>3, <6>4 DEF Older
        <5> QED
          BY <5>2, <5>3
      <4> QED
        BY <1>1, <2>1, <4>1, <4>2 DEF Plausible, Total, Items
    <3> QED
      BY <3>3, <3>4
  <2> QED
    BY <2>3, <2>4 DEF Honesty, TraysHold
<1> QED
  BY <1>4, <1>5, <1>6, <1>7, <1>8, <1>9, <1>10 DEF Next, CameraLoop

(* A plausible reading is never a mismatch. *)
LEMMA NoFalseMismatch == ASSUME Honesty, honest, Waiting PROVE Verdict # "TRAY_MISMATCH"
<1> SUFFICES ASSUME Verdict = "TRAY_MISMATCH" PROVE FALSE
  OBVIOUS
<1>1. /\ readBefore = Zero /\ readAfter # Zero /\ ~(SteadyNow < Settle)
      /\ \/ Total(readAfter) = Total(expected) /\ readAfter # expected
         \/ Total(readAfter) # Total(expected) /\ EmptyNow >= Timeout
  BY DEF Verdict
<1>2. readAfter = signature /\ steady # 0
  BY <1>1, TimingAssumption DEF SteadyNow
<1>3. Plausible(signature, expected, empty)
  BY <1>2 DEF Honesty, HonestSteady
<1>4. Total(readAfter) # Total(expected) /\ empty < Timeout
  BY <1>1, <1>2, <1>3 DEF Plausible
<1>5. EmptyNow = 0 \/ (EmptyNow = empty /\ empty \in 0..Timeout)
  BY <1>1 DEF EmptyNow, Honesty, EmptyTimed
<1>6. ~(EmptyNow >= Timeout)
  BY <1>4, <1>5, TimingAssumption
<1> QED
  BY <1>1, <1>4, <1>6

LEMMA AccusationStep == ASSUME Honesty, [Next]_vars PROVE HonestNeverAccused'
<1> SUFFICES ASSUME honest' PROVE result' # "TRAY_MISMATCH"
  BY DEF HonestNeverAccused
<1>1. honest
  BY HonestBefore
<1>2. result # "TRAY_MISMATCH"
  BY <1>1 DEF Honesty, HonestNeverAccused
<1>3. CASE UNCHANGED result
  BY <1>2, <1>3
<1>4. CASE Customer
  BY <1>3, <1>4 DEF Customer, Place, Lift, Lay, Pocket, Bag, Pay, Leave,
     AtTrays, sessionVars
<1>5. CASE PushReset \/ Tick \/ UNCHANGED vars
  BY <1>3, <1>5 DEF PushReset, Tick, vars, sessionVars
<1>6. ASSUME NEW i \in Items, Stabilise(i) PROVE result' # "TRAY_MISMATCH"
  BY <1>3, <1>6 DEF Stabilise, sessionVars
<1>7. CASE HandleCommand
  BY <1>3, <1>7 DEF HandleCommand, Reset, PaymentConfirmed, sessionVars
<1>8. CASE Restart
  BY <1>8 DEF Restart, Reset
<1>9. CASE Frame
  <2>1. CASE Waiting
    BY <1>1, <1>2, <1>9, <2>1, NoFalseMismatch DEF Frame, Update, Judge, Waiting
  <2>2. CASE ~Waiting
    BY <1>2, <1>9, <2>2 DEF Frame, Update, Waiting
  <2> QED
    BY <2>1, <2>2
<1> QED
  BY <1>4, <1>5, <1>6, <1>7, <1>8, <1>9 DEF Next, CameraLoop

LEMMA HonestyInit == Init => Honesty
<1> SUFFICES ASSUME Init PROVE Honesty
  OBVIOUS
<1>1. Zero \in Counts
  BY DEF Zero, Counts
<1>2. TraysHold
  BY <1>1 DEF Init, TraysHold
<1> QED
  BY <1>2, TimingAssumption DEF Init, Honesty, HonestLot, SteadyMeansSettled, EmptyNoticed,
     EmptyTimed, HonestSteady, HonestNeverAccused, Waiting

(* Whoever pays for what lies on the tray, transfers all of it and has     *)
(* either the whole lot or nothing on AFTER when the timeout is over is    *)
(* never warned about: not while the readings of the two trays follow at   *)
(* their own pace, nor while a product is in the hand, nor when the        *)
(* payment is late, is overtaken by a reset, or is lost while no earlier   *)
(* one waits, nor when the program restarts.                               *)
THEOREM HonestCustomer == Spec => []HonestNeverAccused
<1>1. Honesty /\ [Next]_vars => Honesty'
  BY TraysStep, LotStep, SteadyStep, EmptyStep, TimedStep, HonestSteadyStep, AccusationStep
     DEF Honesty
<1>2. Honesty => HonestNeverAccused
  BY DEF Honesty
<1>3. QED
  BY <1>1, <1>2, HonestyInit, PTL DEF Spec

-----------------------------------------------------------------------------
(* The camera.  A count that fills half of a window is not outnumbered by  *)
(* any other count in it, and as the latest of the window it wins a tie.   *)

(* The instance counts as this module does. *)
LEMMA SameSize == \A S : Camera!Cardinality(S) = Cardinality(S)
  BY DEF Camera!Cardinality, Cardinality

LEMMA HalfIsMode ==
    ASSUME NEW n \in Nat \ {0}, NEW w \in [1..n -> 0..MaxOnTray], Len(w) = n,
           2 * Cardinality(Camera!Latest(w)) >= n
    PROVE  w[n] \in Camera!Modes(w)
<1> DEFINE L == Camera!Latest(w)
           F(k) == Camera!Frames(w, w[k])
<1>1. n \in 1..n /\ DOMAIN w = 1..n
  OBVIOUS
<1>2. IsFiniteSet(1..n) /\ Cardinality(1..n) = n
  BY FS_Interval
<1>3. \A k \in 1..n : F(k) \in SUBSET (1..n) /\ F(k) = {m \in 1..n : w[m] = w[k]}
  BY <1>1 DEF Camera!Frames
<1>4. L \in SUBSET F(n)
  <2>1. L = {m \in 1..n : \A k \in m..n : w[k] = w[n]}
    BY <1>1 DEF Camera!Latest
  <2>2. ASSUME NEW m \in L PROVE m \in F(n)
    <3>1. m \in 1..n /\ m \in m..n /\ \A k \in m..n : w[k] = w[n]
      BY <2>1, <2>2
    <3> QED
      BY <1>1, <1>3, <3>1
  <2> QED
    BY <2>2
<1>5. 2 * Cardinality(L) >= n
  OBVIOUS
<1> HIDE DEF L, F
<1>6. /\ IsFiniteSet(L) /\ Cardinality(L) \in Nat
      /\ Cardinality(F(n)) \in Nat /\ Cardinality(L) <= Cardinality(F(n))
  <2>1. IsFiniteSet(F(n))
    BY <1>1, <1>2, <1>3, FS_Subset
  <2> QED
    BY <1>4, <2>1, FS_Subset, FS_CardinalityType
<1>7. ASSUME NEW k \in 1..n PROVE Cardinality(F(k)) <= Cardinality(F(n))
  <2>1. CASE w[k] = w[n]
    <3>1. F(k) = F(n)
      BY <2>1 DEF F
    <3> QED
      BY <1>6, <3>1
  <2>2. CASE w[k] # w[n]
    <3>1. F(k) \cap L = {} /\ F(k) \cup L \in SUBSET (1..n)
      BY <1>1, <1>3, <1>4, <2>2
    <3>2. IsFiniteSet(F(k)) /\ Cardinality(F(k)) \in Nat
      BY <1>2, <1>3, FS_Subset, FS_CardinalityType
    <3>3. Cardinality(F(k) \cup L) = Cardinality(F(k)) + Cardinality(L) - 0
      BY <1>6, <3>1, <3>2, FS_Union, FS_EmptySet
    <3>4. Cardinality(F(k) \cup L) <= n
      BY <1>2, <3>1, FS_Subset
    <3> QED
      BY <1>5, <1>6, <3>2, <3>3, <3>4
  <2> QED
    BY <2>1, <2>2
<1>8. \A k \in DOMAIN w :
        Camera!Cardinality(Camera!Frames(w, w[k])) <= Camera!Cardinality(Camera!Frames(w, w[n]))
  BY <1>1, <1>7, SameSize DEF F
<1> DEFINE Size(k) == Camera!Cardinality(Camera!Frames(w, w[k]))
           Most == {m \in DOMAIN w : \A k \in DOMAIN w : Size(k) <= Size(m)}
<1>9. n \in Most
  BY <1>1, <1>8
<1>10. Camera!Modes(w) = {w[m] : m \in Most}
  BY ONLY DEF Camera!Modes
<1> HIDE DEF Most
<1> QED
  BY <1>9, <1>10

(* The smoothing, for every window of frames and every count of a tray. *)
LEMMA ReadingFollows == ASSUME NEW count \in 0..MaxOnTray PROVE Camera!Follows[count]
<1> SUFFICES ASSUME NEW w \in Camera!Windows, w[Len(w)] = count,
                    2 * Cardinality(Camera!Latest(w)) >= Len(w)
             PROVE  Camera!Reading(w) = count
  BY SameSize DEF Camera!Follows
<1>1. PICK n \in 1..StableFrames : w \in [1..n -> 0..MaxOnTray]
  BY DEF Camera!Windows
<1>2. n \in Nat \ {0}
  BY <1>1, FramesAssumption
<1>3. Len(w) = n
  BY <1>1, <1>2
<1> DEFINE Chosen(m) == /\ w[m] \in Camera!Modes(w)
                        /\ \A k \in (m + 1)..Len(w) : w[k] \notin Camera!Modes(w)
<1>4. w[n] \in Camera!Modes(w)
  BY <1>1, <1>2, <1>3, HalfIsMode
<1>5. n \in DOMAIN w /\ Chosen(n)
  BY <1>1, <1>2, <1>3, <1>4
<1>6. ASSUME NEW m \in DOMAIN w, Chosen(m) PROVE m = n
  <2>1. m \in 1..n
    BY <1>1
  <2>2. CASE m < n
    <3>1. n \in (m + 1)..Len(w)
      BY <1>2, <1>3, <2>1, <2>2
    <3> QED
      BY <1>4, <1>6, <3>1
  <2> QED
    BY <1>2, <2>1, <2>2
<1>7. Camera!Reading(w) = w[CHOOSE m \in DOMAIN w : Chosen(m)]
  BY DEF Camera!Reading
<1> HIDE DEF Chosen
<1>8. (CHOOSE m \in DOMAIN w : Chosen(m)) = n
  BY <1>5, <1>6
<1> QED
  BY <1>3, <1>7, <1>8

(* No tray ever holds more of a product than customers may place, so each  *)
(* count is one the camera's windows speak of.                             *)
TraysBounded ==
    /\ onBefore \in Counts /\ onAfter \in Counts /\ inHand \in Counts
    /\ phase = "placing" => inHand = Zero /\ onAfter = Zero
    /\ phase \in {"placing", "moving"} /\ payments \in Nat
    /\ \A i \in Items : onBefore[i] + inHand[i] + onAfter[i] <= MaxOnTray

LEMMA PartOfTotal ==
    ASSUME NEW c \in Counts, NEW j \in Items
    PROVE  Total(c) \in Nat /\ c[j] <= Total(c)
<1> DEFINE s == Sums(c)
           Covers(k) == s[k] \in Nat /\ (j <= k => c[j] <= s[k])
           T == {k \in 0..NItems : ~Covers(k)}
<1>1. s[0] = 0 /\ \A i \in Items : s[i] = s[i - 1] + c[i]
  BY SumsAdd
<1> HIDE DEF s
<1>2. ASSUME NEW n \in T PROVE FALSE
  <2> HIDE DEF T
  <2>1. PICK m \in T : \A k \in T : m <= k
    <3>1. T \in SUBSET Nat
      BY ItemsAssumption DEF T
    <3> QED
      BY <3>1, LeastOne
  <2> USE DEF T
  <2>2. m \in 0..NItems /\ ~Covers(m) /\ j \in 1..NItems
    BY DEF Items
  <2>3. m # 0
    BY <1>1, <2>2
  <2>4. m \in Items /\ m - 1 \in 0..NItems
    BY <2>2, <2>3, ItemsAssumption DEF Items
  <2>5. m - 1 \notin T
    BY <2>1, <2>2, <2>4, ItemsAssumption
  <2>6. Covers(m - 1)
    BY <2>4, <2>5
  <2>7. s[m] = s[m - 1] + c[m] /\ c[m] \in Nat /\ c[j] \in Nat
    BY <1>1, <2>4 DEF Counts
  <2>8. j <= m => j <= m - 1 \/ m = j
    BY <2>2, ItemsAssumption
  <2> HIDE DEF T
  <2>9. Covers(m)
    BY <2>6, <2>7, <2>8
  <2> QED
    BY <2>2, <2>9
<1>3. Covers(NItems) /\ j <= NItems
  BY <1>2, ItemsAssumption DEF Items
<1> QED
  BY <1>3, TotalIsSums DEF s

LEMMA TraysBoundedStep == TraysBounded /\ [Next]_vars => TraysBounded'
<1> SUFFICES ASSUME TraysBounded, [Next]_vars PROVE TraysBounded'
  OBVIOUS
<1> USE DEF TraysBounded
<1>1. \A i \in Items : onBefore[i] \in Nat /\ onAfter[i] \in Nat /\ inHand[i] \in Nat
  BY DEF Counts
<1>2. Zero' = Zero /\ Items' = Items /\ Counts' = Counts
  BY DEF Zero, Items, Counts
<1>3. CASE UNCHANGED trayVars /\ payments' \in Nat
  BY <1>2, <1>3 DEF trayVars
<1>4. ASSUME NEW i \in Items, Place(i) PROVE TraysBounded'
  <2>1. /\ onBefore' = More(onBefore, i) /\ onAfter = Zero /\ inHand = Zero
        /\ UNCHANGED <<onAfter, inHand, phase, payments>>
        /\ Total(onBefore) + payments < MaxOnTray
    BY <1>4 DEF Place, countVars
  <2>2. onBefore[i] + 1 <= MaxOnTray
    BY <1>1, <2>1, PartOfTotal, FramesAssumption
  <2>3. \A j \in Items : onBefore'[j] + inHand'[j] + onAfter'[j] <= MaxOnTray
    <3>1. ASSUME NEW j \in Items PROVE onBefore'[j] + inHand'[j] + onAfter'[j] <= MaxOnTray
      <4>1. onBefore'[j] = IF j = i THEN onBefore[i] + 1 ELSE onBefore[j]
        BY <2>1, CountsMove
      <4>2. inHand'[j] = inHand[j] /\ onAfter'[j] = onAfter[j] /\ inHand[j] = 0 /\ onAfter[j] = 0
        BY <2>1 DEF Zero
      <4> QED
        BY <1>1, <2>2, <4>1, <4>2
    <3> QED
      BY <3>1
  <2> QED
    BY <1>2, <2>1, <2>3, CountsMove
<1>5. ASSUME NEW i \in Items, Lift(i) \/ Lay(i) \/ Pocket(i) \/ Bag(i) PROVE TraysBounded'
  <2> DEFINE bound == [k \in Items |-> MaxOnTray]
  <2>1. UNCHANGED <<phase, payments>> /\ phase = "moving"
    <3>1. CASE Lay(i) \/ Pocket(i)
      BY <3>1 DEF Lay, Pocket, countVars, Zero
    <3> QED
      BY <1>5, <3>1 DEF Lift, Bag, countVars
  <2>2. bound \in Counts /\ \A k \in Items : bound[k] = MaxOnTray
    BY FramesAssumption DEF Counts
  <2> HIDE DEF bound
  <2>3. /\ onBefore' \in Counts /\ onAfter' \in Counts /\ inHand' \in Counts
        /\ \A k \in Items : onBefore'[k] + inHand'[k] + onAfter'[k] <= bound[k]
    BY <1>5, <2>2, MovesKeep
  <2> QED
    BY <1>2, <2>1, <2>2, <2>3
<1>7. CASE Pay
  BY <1>2, <1>7 DEF Pay
<1>8. CASE Leave
  BY <1>2, <1>8 DEF Leave, countVars
<1>9. CASE UNCHANGED trayVars /\ UNCHANGED payments
  BY <1>3, <1>9
<1>10. CASE PushReset \/ HandleCommand \/ Restart \/ Frame \/ Tick \/ UNCHANGED vars
  BY <1>9, <1>10
     DEF PushReset, HandleCommand, Restart, Frame, Tick, vars, countVars
<1>11. ASSUME NEW i \in Items, Stabilise(i) PROVE TraysBounded'
  BY <1>9, <1>11 DEF Stabilise, countVars
<1> QED
  BY <1>4, <1>5, <1>7, <1>8, <1>10, <1>11 DEF Next, CameraLoop, Customer

(* Whatever lies on a tray, its count is read once it fills half of the    *)
(* window, whatever the frames before showed.                              *)
THEOREM ReadingsFollow == Spec => []ReadingsFollowTrays
<1>1. Init => TraysBounded
  <2>1. \A i \in Items : Zero[i] + Zero[i] + Zero[i] <= MaxOnTray
    BY FramesAssumption DEF Zero
  <2>2. Zero \in Counts
    BY DEF Zero, Counts
  <2> QED
    BY <2>1, <2>2 DEF Init, TraysBounded
<1>2. TraysBounded => ReadingsFollowTrays
  <2> SUFFICES ASSUME TraysBounded, NEW i \in Items
               PROVE  Camera!Follows[onBefore[i]] /\ Camera!Follows[onAfter[i]]
    BY DEF ReadingsFollowTrays
  <2>1. /\ onBefore[i] \in Nat /\ onAfter[i] \in Nat /\ inHand[i] \in Nat
        /\ onBefore[i] + inHand[i] + onAfter[i] <= MaxOnTray
    BY DEF TraysBounded, Counts
  <2>2. onBefore[i] \in 0..MaxOnTray /\ onAfter[i] \in 0..MaxOnTray
    BY <2>1, FramesAssumption
  <2> QED
    BY <2>2, ReadingFollows
<1>3. QED
  BY <1>1, <1>2, TraysBoundedStep, PTL DEF Spec
=============================================================================
