-------------------------- MODULE PosSessionProofs --------------------------
(***************************************************************************)
(* Proofs about PosSession, for any number of products, sessions, scans    *)
(* and lines waiting: what fusion_pc books of the sales of the checkout.   *)
(*                                                                         *)
(* fusion_pc is behind the checkout by the lines that wait.  The proofs    *)
(* follow the checkout's past: a stamp is what the checkout's state was    *)
(* when a line had been printed, and the invariants relate fusion_pc with  *)
(* the stamp of the last line handled.                                     *)
(***************************************************************************)
EXTENDS PosSession, StateManagerProofs, SequenceTheorems

Users == {"CUSTOMER", "RIDER"}

(* In a stamp, pc is also "boot" before the first line, and "closing"      *)
(* between the line that ends a session and the START of the next one;     *)
(* told says that COUNT has reported the scans so far.                     *)
Stages == {"boot", "closing", "select", "product", "summary"}
Records ==
    [pc : Stages, user : Users \union {"NONE"}, count : Ledger, scanned : [Users -> Ledger],
     sold : [Users -> Ledger], finished : [Users -> Nat], told : BOOLEAN]

Stamps ==
    {a \in Records :
        /\ a.user \in Users <=> a.pc \in {"product", "summary"}
        /\ a.pc \notin {"product", "summary"} => a.count = Zero}

Stamp(p, u, c, all, done, f) ==
    [pc |-> p, user |-> u, count |-> c, scanned |-> all, sold |-> done, finished |-> f,
     told |-> TRUE]

Now == Stamp(pc, user, count, scanned, sold, finished)

(* A session has ended: its line is printed, START is not. *)
Ended(a) == Stamp("closing", "NONE", Zero, a.scanned, a.sold, a.finished)
Started(a) == Stamp("select", a.user, a.count, a.scanned, a.sold, a.finished)
Chosen(a, u) == Stamp("product", u, a.count, a.scanned, a.sold, a.finished)
Scanned(a, i) ==
    [pc |-> a.pc, user |-> a.user, count |-> [a.count EXCEPT ![i] = (a.count[i] + 1) % 256],
     scanned |-> [a.scanned EXCEPT ![a.user] = Add(a.scanned[a.user], i, 1)],
     sold |-> a.sold, finished |-> a.finished, told |-> FALSE]
Counted(a) == Stamp(a.pc, a.user, a.count, a.scanned, a.sold, a.finished)
Paid(a) ==
    Stamp("summary", a.user, a.count, a.scanned,
          [a.sold EXCEPT ![a.user] = [i \in Items |-> a.sold[a.user][i] + a.count[i]]],
          [a.finished EXCEPT ![a.user] = a.finished[a.user] + 1])

(* The checkout prints a line and gets from stamp a to stamp b. *)
Prints(a, line, b) ==
    \/ line.kind = "BOOT" /\ (a.pc = "boot" \/ PowerCuts # 0) /\ b = Ended(a)
    \/ line.kind = "SESSION_RESET" /\ a.pc = "product" /\ b = Ended(a)
    \/ /\ line.kind = "SUMMARY" /\ a.pc = "summary" /\ b = Ended(a)
       /\ line.user = a.user /\ line.counts = a.count
    \/ line.kind = "START" /\ a.pc = "closing" /\ b = Started(a)
    \/ line.kind = "USER" /\ a.pc = "select" /\ line.user \in Users /\ b = Chosen(a, line.user)
    \/ line.kind = "PAY" /\ a.pc = "product" /\ line.item \in Items /\ b = Scanned(a, line.item)
    \/ line.kind = "COUNT" /\ a.pc = "product" /\ b = Counted(a)
    \/ line.kind = "PAY_DONE" /\ a.pc = "product" /\ b = Paid(a)

Grows(a, b) ==
    /\ a.finished["CUSTOMER"] <= b.finished["CUSTOMER"]
    /\ \A i \in Items : a.scanned["CUSTOMER"][i] <= b.scanned["CUSTOMER"][i]

(* The stamps g lead through the lines q to the stamp now. *)
Past(g, q, now) ==
    /\ g \in Seq(Stamps) /\ Len(g) = Len(q) + 1 /\ g[Len(g)] = now
    /\ \E L : q \in Seq(L)
    /\ \A n \in 1..Len(q) : Prints(g[n], q[n], g[n + 1])
    /\ \A n \in 1..Len(g) : Grows(g[n], now)

-----------------------------------------------------------------------------
(* The past grows by the lines printed and shrinks by the lines handled.   *)

LEMMA CountedParts ==
    ASSUME NEW a \in Stamps
    PROVE  /\ Counted(a) \in Stamps /\ Counted(a).told
           /\ Counted(a).pc = a.pc /\ Counted(a).user = a.user /\ Counted(a).count = a.count
           /\ Counted(a).scanned = a.scanned /\ Counted(a).sold = a.sold
           /\ Counted(a).finished = a.finished
  BY DEF Counted, Stamp, Stamps, Records

LEMMA PrintsStamp ==
    ASSUME NEW a \in Stamps, NEW line, NEW b, Prints(a, line, b)
    PROVE  b \in Stamps /\ Grows(a, b)
<1>1. Zero \in Ledger /\ \A u \in Users : a.scanned[u] \in Ledger /\ a.sold[u] \in Ledger
  BY DEF Stamps, Records, Zero, Ledger
<1>2. \A n \in Nat : (n + 1) % 256 \in Nat
  OBVIOUS
<1>3. a \in Records
  BY DEF Stamps
<1> USE DEF Stamp
<1>4. CASE b = Ended(a)
  <2>1. /\ b \in Records /\ b.pc = "closing" /\ b.user = "NONE" /\ b.count = Zero
        /\ b.scanned = a.scanned /\ b.finished = a.finished
    BY <1>1, <1>3, <1>4 DEF Ended, Records, Stages
  <2>2. b \in Stamps
    BY <2>1 DEF Stamps, Users
  <2> QED
    BY <1>1, <1>3, <2>1, <2>2 DEF Grows, Records, Users, Ledger
<1>5. CASE a.pc = "closing" /\ b = Started(a)
  BY <1>3, <1>5 DEF Started, Stamps, Records, Grows, Users, Ledger, Stages
<1>6. CASE a.pc = "select" /\ line.user \in Users /\ b = Chosen(a, line.user)
  <2>1. /\ b \in Records /\ b.pc = "product" /\ b.user \in Users
        /\ b.scanned = a.scanned /\ b.finished = a.finished
    BY <1>3, <1>6 DEF Chosen, Records, Stages
  <2>2. b \in Stamps
    BY <2>1 DEF Stamps
  <2> QED
    BY <1>1, <1>3, <2>1, <2>2 DEF Grows, Records, Users, Ledger
<1>7. CASE b = Counted(a)
  BY <1>3, <1>7, CountedParts DEF Stamps, Records, Grows, Users, Ledger
<1>8. CASE a.pc = "product" /\ line.item \in Items /\ b = Scanned(a, line.item)
  <2>1. a.user \in Users
    BY <1>8 DEF Stamps
  <2>2. [a.count EXCEPT ![line.item] = (a.count[line.item] + 1) % 256] \in Ledger
    BY <1>2, <1>3, <1>8 DEF Records, Ledger
  <2>3. Add(a.scanned[a.user], line.item, 1) \in Ledger
    BY <1>1, <1>8, <2>1, LedgerFacts
  <2>4. /\ b.pc = a.pc /\ b.user = a.user /\ b.finished = a.finished
        /\ b.scanned = [a.scanned EXCEPT ![a.user] = Add(a.scanned[a.user], line.item, 1)]
    BY <1>8 DEF Scanned
  <2>5. b \in Records
    BY <1>3, <1>8, <2>1, <2>2, <2>3 DEF Scanned, Records
  <2>6. b \in Stamps
    BY <1>8, <2>1, <2>4, <2>5 DEF Stamps
  <2>7. \A i \in Items : a.scanned[a.user][i] <= Add(a.scanned[a.user], line.item, 1)[i]
    BY <1>1, <1>8, <2>1 DEF Ledger, Add
  <2>8. \A i \in Items : a.scanned["CUSTOMER"][i] <= a.scanned["CUSTOMER"][i]
    BY <1>1 DEF Ledger, Users
  <2>9. \A i \in Items : a.scanned["CUSTOMER"][i] <= b.scanned["CUSTOMER"][i]
    BY <1>3, <2>4, <2>7, <2>8 DEF Records, Users
  <2> QED
    BY <1>3, <2>4, <2>6, <2>9 DEF Grows, Records, Users
<1>9. CASE a.pc = "product" /\ b = Paid(a)
  <2>1. a.user \in Users
    BY <1>9 DEF Stamps
  <2>2. [i \in Items |-> a.sold[a.user][i] + a.count[i]] \in Ledger
    BY <1>1, <1>3, <2>1 DEF Records, Ledger
  <2>3. [a.finished EXCEPT ![a.user] = a.finished[a.user] + 1] \in [Users -> Nat]
    BY <1>3, <2>1 DEF Records
  <2>4. /\ b.user = a.user /\ b.pc = "summary" /\ b.scanned = a.scanned
        /\ b.finished = [a.finished EXCEPT ![a.user] = a.finished[a.user] + 1]
    BY <1>9 DEF Paid
  <2>5. b \in Records
    BY <1>3, <1>9, <2>1, <2>2, <2>3 DEF Paid, Records, Stages
  <2>6. a.finished["CUSTOMER"] <= b.finished["CUSTOMER"]
    BY <1>3, <2>1, <2>4 DEF Records, Users
  <2> QED
    BY <1>1, <2>1, <2>4, <2>5, <2>6 DEF Stamps, Grows, Users, Ledger
<1> QED
  BY <1>4, <1>5, <1>6, <1>7, <1>8, <1>9 DEF Prints

LEMMA GrowsOn ==
    ASSUME NEW a \in Stamps, NEW b \in Stamps, NEW c \in Stamps, Grows(a, b), Grows(b, c)
    PROVE  Grows(a, c)
  BY DEF Grows, Stamps, Records, Users, Ledger

LEMMA PastGrows ==
    ASSUME NEW g, NEW q, NEW now, Past(g, q, now), NEW line, NEW b, Prints(now, line, b)
    PROVE  Past(Append(g, b), Append(q, line), b) /\ Append(g, b)[1] = g[1]
<1>1. PICK L : q \in Seq(L)
  BY DEF Past
<1>2. g \in Seq(Stamps) /\ Len(q) \in Nat /\ Len(g) = Len(q) + 1 /\ now \in Stamps
  BY <1>1 DEF Past
<1>3. b \in Stamps /\ Grows(now, b)
  BY <1>2, PrintsStamp
<1> DEFINE h == Append(g, b)
           r == Append(q, line)
<1>4. /\ h \in Seq(Stamps) /\ Len(h) = Len(g) + 1 /\ h[Len(g) + 1] = b
      /\ \A n \in 1..Len(g) : h[n] = g[n]
  BY <1>2, <1>3
<1>5. r \in Seq(L \union {line}) /\ Len(r) = Len(q) + 1 /\ r[Len(q) + 1] = line
      /\ \A n \in 1..Len(q) : r[n] = q[n]
  <2>1. q \in Seq(L \union {line})
    BY <1>1, SeqMonotonic
  <2> QED
    BY <2>1
<1> HIDE DEF h, r
<1>6. \A n \in 1..Len(r) : Prints(h[n], r[n], h[n + 1])
  <2> TAKE n \in 1..Len(r)
  <2>1. CASE n \in 1..Len(q)
    <3>1. h[n] = g[n] /\ h[n + 1] = g[n + 1] /\ r[n] = q[n]
      BY <1>2, <1>4, <1>5, <2>1
    <3> QED
      BY <2>1, <3>1 DEF Past
  <2>2. CASE n = Len(q) + 1
    <3>1. h[n] = now /\ h[n + 1] = b /\ r[n] = line
      BY <1>2, <1>4, <1>5, <2>2 DEF Past
    <3> QED
      BY <3>1
  <2> QED
    BY <1>2, <1>5, <2>1, <2>2
<1>7. \A n \in 1..Len(h) : Grows(h[n], b)
  <2> TAKE n \in 1..Len(h)
  <2>1. CASE n \in 1..Len(g)
    <3>1. h[n] = g[n] /\ g[n] \in Stamps /\ Grows(g[n], now)
      BY <1>2, <1>4, <2>1 DEF Past
    <3> QED
      BY <1>2, <1>3, <3>1, GrowsOn
  <2>2. CASE n = Len(g) + 1
    <3>1. h[n] = b
      BY <1>4, <2>2
    <3> QED
      BY <1>3, <3>1 DEF Grows, Stamps, Records, Users, Ledger
  <2> QED
    BY <1>2, <1>4, <2>1, <2>2
<1>8. Past(h, r, b)
  BY <1>2, <1>4, <1>5, <1>6, <1>7 DEF Past
<1>9. h[1] = g[1]
  BY <1>2, <1>4
<1> QED
  BY <1>8, <1>9 DEF h, r

LEMMA PastShrinks ==
    ASSUME NEW g, NEW q, NEW now, Past(g, q, now), q # <<>>
    PROVE  /\ Past(Tail(g), Tail(q), now) /\ Tail(g)[1] = g[2]
           /\ Prints(g[1], Head(q), g[2]) /\ g[1] \in Stamps /\ g[2] \in Stamps
<1>1. PICK L : q \in Seq(L)
  BY DEF Past
<1>2. /\ g \in Seq(Stamps) /\ Len(q) \in Nat \ {0} /\ Len(g) = Len(q) + 1
      /\ Head(q) = q[1]
  BY <1>1 DEF Past
<1> DEFINE h == Tail(g)
           r == Tail(q)
<1>3. /\ h \in Seq(Stamps) /\ Len(h) = Len(g) - 1
      /\ \A n \in 1..Len(h) : h[n] = g[n + 1]
  BY <1>2
<1>4. /\ r \in Seq(L) /\ Len(r) = Len(q) - 1
      /\ \A n \in 1..Len(r) : r[n] = q[n + 1]
  BY <1>1, <1>2
<1> HIDE DEF h, r
<1>5. \A n \in 1..Len(r) : Prints(h[n], r[n], h[n + 1])
  <2> TAKE n \in 1..Len(r)
  <2>1. n + 1 \in 1..Len(q) /\ h[n] = g[n + 1] /\ h[n + 1] = g[n + 2] /\ r[n] = q[n + 1]
    BY <1>2, <1>3, <1>4
  <2>2. Prints(g[n + 1], q[n + 1], g[(n + 1) + 1]) /\ (n + 1) + 1 = n + 2
    BY <2>1 DEF Past
  <2> QED
    BY <2>1, <2>2
<1>6. \A n \in 1..Len(h) : Grows(h[n], now)
  <2> TAKE n \in 1..Len(h)
  <2>1. n + 1 \in 1..Len(g) /\ h[n] = g[n + 1]
    BY <1>2, <1>3
  <2> QED
    BY <2>1 DEF Past
<1>7. h[Len(h)] = now /\ h[1] = g[2] /\ Len(h) = Len(r) + 1
  BY <1>2, <1>3, <1>4 DEF Past
<1>8. Past(h, r, now)
  BY <1>3, <1>4, <1>5, <1>6, <1>7 DEF Past
<1>9. 1 \in 1..Len(q) /\ 1 + 1 = 2
  BY <1>2
<1>10. Prints(g[1], q[1], g[2])
  BY <1>9 DEF Past
<1> QED
  BY <1>2, <1>7, <1>8, <1>10 DEF h, r
-----------------------------------------------------------------------------
(* Every step of the checkout prints lines.                                *)

LEMMA OneLine ==
    ASSUME NEW g, Past(g, uart, Now), NEW line, Prints(Now, line, Now'),
           uart' = uart \o <<line>>
    PROVE  \E h : Past(h, uart', Now') /\ h[1] = g[1]
<1>1. PICK L : uart \in Seq(L)
  BY DEF Past
<1>2. uart' = Append(uart, line)
  BY <1>1
<1>3. /\ Past(Append(g, Now'), Append(uart, line), Now')
      /\ Append(g, Now')[1] = g[1]
  BY PastGrows
<1> QED
  BY ONLY <1>2, <1>3

LEMMA TwoLines ==
    ASSUME NEW g, Past(g, uart, Now), NEW line, NEW b, NEW next,
           Prints(Now, line, b), Prints(b, next, Now'), uart' = uart \o <<line, next>>
    PROVE  \E h : Past(h, uart', Now') /\ h[1] = g[1]
<1>1. PICK L : uart \in Seq(L)
  BY DEF Past
<1>2. uart' = Append(Append(uart, line), next)
  BY <1>1
<1>3. Past(Append(g, b), Append(uart, line), b) /\ Append(g, b)[1] = g[1]
  BY PastGrows
<1>4. /\ Past(Append(Append(g, b), Now'), Append(Append(uart, line), next), Now')
      /\ Append(Append(g, b), Now')[1] = Append(g, b)[1]
  BY ONLY <1>3, Prints(b, next, Now'), PastGrows
<1> QED
  BY ONLY <1>2, <1>3, <1>4

LEMMA SessionEnds ==
    ASSUME NEW g, Past(g, uart, Now), NEW line, Prints(Now, line, Ended(Now)),
           POS!ResetSession(<<line>>), UNCHANGED <<finished, sold, scanned>>
    PROVE  \E h : Past(h, uart', Now') /\ h[1] = g[1]
<1> DEFINE next == POS!Plain("START")
<1>1. uart' = uart \o <<line, next>>
  BY DEF POS!ResetSession, POS!Emit
<1>2. Now' = Started(Ended(Now))
  BY DEF POS!ResetSession, Now, Started, Ended, Stamp, POS!Zero, Zero, POS!Items, Items
<1>3. Prints(Ended(Now), next, Now')
  BY <1>2 DEF Prints, Ended, Stamp, POS!Plain, POS!Line
<1> QED
  BY <1>1, <1>3, TwoLines

LEMMA FirmwareStep ==
    ASSUME NEW g, Past(g, uart, Now), cuts \in Nat, POS!Next
    PROVE  \E h : Past(h, uart', Now') /\ h[1] = g[1]
<1> USE DEF POS!Emit, POS!Line, POS!Plain
<1>1. Now \in Stamps
  BY DEF Past
<1>2. /\ Now.pc = pc /\ Now.user = user /\ Now.count = count
      /\ Now.scanned = scanned /\ Now.sold = sold /\ Now.finished = finished
  BY DEF Now, Stamp
<1>3. ASSUME NEW u \in POS!Users, POS!SelectUser(u) PROVE \E h : Past(h, uart', Now') /\ h[1] = g[1]
  <2> DEFINE line == POS!Line("USER", u, 0, POS!Zero)
  <2>1. Now' = Chosen(Now, u)
    BY <1>2, <1>3 DEF POS!SelectUser, Now, Chosen, Stamp
  <2>2. Prints(Now, line, Now')
    BY <1>2, <1>3, <2>1 DEF Prints, POS!SelectUser, POS!Users, Users
  <2> QED
    BY <1>3, <2>2, OneLine DEF POS!SelectUser
<1>4. ASSUME NEW i \in POS!Items, POS!AddScan(i) PROVE \E h : Past(h, uart', Now') /\ h[1] = g[1]
  <2> DEFINE line == POS!Line("PAY", "NONE", i, POS!Zero)
             next == POS!Line("COUNT", "NONE", 0, count')
  <2>1. pc = "product" /\ user \in Users /\ scanned \in [Users -> Ledger]
    BY <1>1, <1>2, <1>4 DEF Stamps, Records, POS!AddScan
  <2>2. scanned' = [scanned EXCEPT ![user] = Add(scanned[user], i, 1)]
    BY <1>4, <2>1 DEF POS!AddScan, Add
  <2>3. count' = [count EXCEPT ![i] = (count[i] + 1) % 256]
    BY <1>4 DEF POS!AddScan, POS!CountLimit
  <2>4. Now' = Counted(Scanned(Now, i))
    BY <1>2, <1>4, <2>2, <2>3 DEF POS!AddScan, Now, Counted, Scanned, Stamp
  <2>5. Prints(Now, line, Scanned(Now, i))
    BY <1>2, <1>4, <2>1 DEF Prints, POS!Items, Items
  <2>6. Scanned(Now, i).pc = "product"
    BY <1>2, <2>1 DEF Scanned
  <2>7. Prints(Scanned(Now, i), next, Now')
    BY <2>4, <2>6 DEF Prints
  <2> QED
    BY <1>4, <2>5, <2>7, TwoLines DEF POS!AddScan
<1>5. CASE POS!Cancel
  <2>1. Prints(Now, POS!Plain("SESSION_RESET"), Ended(Now))
    BY <1>2, <1>5 DEF POS!Cancel, Prints
  <2> QED
    BY <1>5, <2>1, SessionEnds DEF POS!Cancel
<1>6. CASE POS!Finish
  <2> DEFINE line == POS!Plain("PAY_DONE")
  <2>1. user \in Users /\ sold \in [Users -> Ledger] /\ finished \in [Users -> Nat]
    BY <1>1, <1>2, <1>6 DEF Stamps, Records, POS!Finish
  <2>2. sold' = [sold EXCEPT ![user] = [i \in Items |-> sold[user][i] + count[i]]]
    BY <1>6, <2>1 DEF POS!Finish, POS!Items, Items
  <2>3. Now' = Paid(Now)
    BY <1>2, <1>6, <2>2 DEF POS!Finish, Now, Paid, Stamp
  <2>4. Prints(Now, line, Now')
    BY <1>2, <1>6, <2>3 DEF Prints, POS!Finish
  <2> QED
    BY <1>6, <2>4, OneLine DEF POS!Finish
<1>7. CASE POS!Summarise
  <2>1. Prints(Now, POS!Line("SUMMARY", user, 0, count), Ended(Now))
    BY <1>2, <1>7 DEF POS!Summarise, Prints
  <2> QED
    BY <1>7, <2>1, SessionEnds DEF POS!Summarise
<1>8. CASE POS!PowerCycle
  <2>1. PowerCuts # 0
    BY <1>8 DEF POS!PowerCycle
  <2>2. Prints(Now, POS!Plain("BOOT"), Ended(Now))
    BY <2>1 DEF Prints
  <2> QED
    BY <1>8, <2>2, SessionEnds DEF POS!PowerCycle
<1> QED
  BY <1>3, <1>4, <1>5, <1>6, <1>7, <1>8 DEF POS!Next

(* Before the first line the checkout has not booted. *)
Boot == Stamp("boot", "NONE", Zero, [u \in Users |-> Zero], [u \in Users |-> Zero],
              [u \in Users |-> 0])

LEMMA PastInit ==
    ASSUME POS!Init
    PROVE  \E g : Past(g, uart, Now) /\ g[1] = Boot
<1> DEFINE a == Boot
           b == Ended(Boot)
           g == <<a, b, Now>>
<1>1. Zero = POS!Zero /\ Users = POS!Users /\ Zero \in Ledger
  BY LedgerFacts DEF Zero, POS!Zero, Items, POS!Items, Users, POS!Users
<1>2. uart = <<POS!Plain("BOOT"), POS!Plain("START")>>
  BY DEF POS!Init
<1>3. a \in Records /\ a.pc = "boot" /\ a.user = "NONE" /\ a.count = Zero
  BY <1>1 DEF Boot, Stamp, Records, Stages
<1>4. a \in Stamps
  BY <1>3 DEF Stamps, Users
<1>5. Prints(a, uart[1], b)
  BY <1>2, <1>3 DEF Prints, POS!Plain, POS!Line
<1>6. b \in Stamps /\ Grows(a, b)
  BY <1>4, <1>5, PrintsStamp
<1>7. Now = Started(b)
  BY <1>1 DEF POS!Init, Now, Started, Ended, Boot, Stamp
<1>8. Prints(b, uart[2], Now)
  BY <1>2, <1>7 DEF Prints, Ended, Boot, Stamp, POS!Plain, POS!Line
<1>9. Now \in Stamps /\ Grows(b, Now)
  BY <1>6, <1>8, PrintsStamp
<1>10. Grows(a, Now) /\ Grows(Now, Now)
  BY <1>4, <1>6, <1>9, GrowsOn DEF Grows, Stamps, Records, Users, Ledger
<1> HIDE DEF a, b
<1>11. /\ g \in Seq(Stamps) /\ Len(g) = 3 /\ g[1] = a /\ g[2] = b /\ g[3] = Now
       /\ 1..3 = {1, 2, 3}
  BY <1>4, <1>6, <1>9
<1>12. uart \in Seq({uart[1], uart[2]}) /\ Len(uart) = 2 /\ 1..2 = {1, 2}
  BY <1>2
<1>13. \A n \in 1..Len(uart) : Prints(g[n], uart[n], g[n + 1])
  <2> TAKE n \in 1..Len(uart)
  <2>1. CASE n = 1
    <3>1. n + 1 = 2
      BY <2>1
    <3> QED
      BY <1>5, <1>11, <2>1, <3>1
  <2>2. CASE n = 2
    <3>1. n + 1 = 3
      BY <2>2
    <3> QED
      BY <1>8, <1>11, <2>2, <3>1
  <2> QED
    BY <1>12, <2>1, <2>2
<1>14. \A n \in 1..Len(g) : Grows(g[n], Now)
  BY <1>6, <1>9, <1>10, <1>11
<1>15. Past(g, uart, Now)
  BY <1>11, <1>12, <1>13, <1>14 DEF Past
<1> QED
  BY <1>11, <1>15 DEF a

-----------------------------------------------------------------------------
(* Under any faults but the loss of a USER line: orders entered at any     *)
(* moment, power losses, and the loss of any other line.  (Without its     *)
(* USER line the scans of a rider are booked as a customer's.)             *)

(* What the ledger shows is within what the checkout had scanned, and a    *)
(* summary that is still to come, which replaces the scans of the session  *)
(* by the counters, keeps it so.                                           *)
LedgerWithin(a, paid, session) ==
    /\ paid \in Ledger /\ session \in Ledger
    /\ \A i \in Items : paid[i] <= a.scanned["CUSTOMER"][i]
    /\ a.user = "CUSTOMER" =>
           \A i \in Items : paid[i] + a.count[i] <= a.scanned["CUSTOMER"][i] + session[i]

(* A finished session is one batch, once its completion has been handled.  *)
BatchesWithin(a, batches, done) ==
    /\ batches \in Nat /\ batches <= a.finished["CUSTOMER"]
    /\ a.pc = "summary" /\ a.user = "CUSTOMER" /\ ~done => batches < a.finished["CUSTOMER"]

(* fusion_pc is in customer mode only for scans of customers. *)
ModeWithin(a, m) == m \in Modes /\ (m = "CUSTOMER" => a.user # "RIDER")

BooksWithin(a) ==
    /\ LedgerWithin(a, paidItems, posSessionItems)
    /\ BatchesWithin(a, paymentBatches, committed)
    /\ ModeWithin(a, mode)

LEMMA WithinLost ==
    ASSUME NEW a \in Stamps, NEW b \in Stamps, NEW line, Prints(a, line, b),
           line.kind # "USER", BooksWithin(a)
    PROVE  BooksWithin(b)
<1>0. Grows(a, b)
  BY PrintsStamp
<1>1. a.user \in Users \union {"NONE"} /\ b.user \in {a.user, "NONE"}
  BY DEF Prints, Stamps, Records, Ended, Started, Scanned, Counted, Paid, Stamp
<1>2. a.scanned["CUSTOMER"] \in Ledger /\ b.scanned["CUSTOMER"] \in Ledger
      /\ a.count \in Ledger /\ b.count \in Ledger
      /\ a.finished["CUSTOMER"] \in Nat /\ b.finished["CUSTOMER"] \in Nat
  BY DEF Stamps, Records, Users
<1>3. ASSUME b.user = "CUSTOMER"
      PROVE  \A i \in Items : b.count[i] - a.count[i]
                                 <= b.scanned["CUSTOMER"][i] - a.scanned["CUSTOMER"][i]
  <2>1. a.user = "CUSTOMER"
    BY <1>1, <1>3 DEF Users
  <2>2. CASE b.count = a.count
    BY <1>0, <1>2, <2>2 DEF Grows, Ledger
  <2>3. CASE line.item \in Items /\ b = Scanned(a, line.item)
    <3>1. b.scanned["CUSTOMER"] = Add(a.scanned["CUSTOMER"], line.item, 1)
      BY <2>1, <2>3 DEF Scanned, Stamp, Stamps, Records, Users
    <3>2. b.count = [a.count EXCEPT ![line.item] = (a.count[line.item] + 1) % 256]
      BY <2>3 DEF Scanned, Stamp
    <3>3. \A n \in Nat : (n + 1) % 256 <= n + 1
      OBVIOUS
    <3>4. ASSUME NEW i \in Items
          PROVE  b.count[i] - a.count[i] <= b.scanned["CUSTOMER"][i] - a.scanned["CUSTOMER"][i]
      <4>1. CASE i = line.item
        <5>1. b.count[i] = (a.count[i] + 1) % 256 /\ a.count[i] \in Nat
          BY <1>2, <3>2, <4>1 DEF Ledger
        <5>2. b.scanned["CUSTOMER"][i] = a.scanned["CUSTOMER"][i] + 1
          BY <1>2, <3>1, <4>1 DEF Ledger, Add
        <5>3. b.count[i] <= a.count[i] + 1
          BY <3>3, <5>1
        <5> QED
          BY <1>2, <5>2, <5>3 DEF Ledger
      <4>2. CASE i # line.item
        BY <1>2, <3>1, <3>2, <4>2 DEF Ledger, Add
      <4> QED
        BY <4>1, <4>2
    <3> QED
      BY <3>4
  <2> QED
    BY <1>3, <2>2, <2>3 DEF Prints, Ended, Started, Counted, Paid, Stamp
<1>4. LedgerWithin(b, paidItems, posSessionItems)
  <2>1. \A i \in Items : paidItems[i] <= b.scanned["CUSTOMER"][i]
    BY <1>0, <1>2 DEF BooksWithin, LedgerWithin, Grows, Ledger
  <2>2. ASSUME b.user = "CUSTOMER", NEW i \in Items
        PROVE  paidItems[i] + b.count[i] <= b.scanned["CUSTOMER"][i] + posSessionItems[i]
    <3>1. paidItems[i] + a.count[i] <= a.scanned["CUSTOMER"][i] + posSessionItems[i]
      BY <1>1, <2>2 DEF BooksWithin, LedgerWithin, Users
    <3>2. b.count[i] - a.count[i] <= b.scanned["CUSTOMER"][i] - a.scanned["CUSTOMER"][i]
      BY <1>3, <2>2
    <3> QED
      BY <1>2, <3>1, <3>2 DEF BooksWithin, LedgerWithin, Ledger
  <2> QED
    BY <2>1, <2>2 DEF BooksWithin, LedgerWithin
<1>5. BatchesWithin(b, paymentBatches, committed)
  <2>1. ASSUME b.pc = "summary", b.user = "CUSTOMER"
        PROVE  a.finished["CUSTOMER"] < b.finished["CUSTOMER"]
    <3>1. b = Paid(a) /\ a.user = "CUSTOMER"
      BY <2>1 DEF Prints, Stamps, Ended, Started, Scanned, Counted, Paid, Stamp
    <3> QED
      BY <1>2, <3>1 DEF Paid, Stamp, Stamps, Records, Users
  <2> QED
    BY <1>0, <1>2, <2>1 DEF BooksWithin, BatchesWithin, Grows
<1>6. ModeWithin(b, mode)
  BY <1>1 DEF BooksWithin, ModeWithin, Users
<1> QED
  BY <1>4, <1>5, <1>6 DEF BooksWithin

(* The checkout is between two sessions, or about to be. *)
LEMMA WithinBetween ==
    ASSUME NEW a \in Stamps, NEW b \in Stamps, Grows(a, b), BooksWithin(a),
           b.pc # "summary", b.user = "NONE",
           paidItems' \in Ledger, posSessionItems' \in Ledger,
           \A i \in Items : paidItems'[i] <= b.scanned["CUSTOMER"][i],
           paymentBatches' \in Nat, paymentBatches' <= b.finished["CUSTOMER"], mode' \in Modes
    PROVE  BooksWithin(b)'
  BY DEF BooksWithin, LedgerWithin, BatchesWithin, ModeWithin

LEMMA WithinRolledBack ==
    ASSUME NEW a \in Stamps, NEW b \in Stamps, Grows(a, b), BooksWithin(a), RollbackAndReset,
           b.pc # "summary", b.user = "NONE"
    PROVE  BooksWithin(b)'
<1>1. posSessionItems' = Zero' /\ UNCHANGED <<mode, paymentBatches>>
  BY DEF RollbackAndReset, ResetPos, Zero, Items
<1>2. posSessionItems' \in Ledger
  BY <1>1, LedgerFacts DEF Zero, Items
<1>3. paidItems' \in Ledger /\ \A i \in Items : paidItems'[i] <= paidItems[i]
  <2>1. paidItems \in Ledger /\ posSessionItems \in Ledger
    BY DEF BooksWithin, LedgerWithin
  <2>2. TakeBack(paidItems) \in Ledger
    BY <2>1, LedgerFacts
  <2>3. \A i \in Items : TakeBack(paidItems)[i] <= paidItems[i] /\ paidItems[i] <= paidItems[i]
    BY <2>1 DEF TakeBack, NonNegative, Ledger
  <2>4. paidItems' = TakeBack(paidItems) \/ paidItems' = paidItems
    BY DEF RollbackAndReset, Rollback
  <2> QED
    BY <2>1, <2>2, <2>3, <2>4
<1>4. \A i \in Items : paidItems'[i] <= b.scanned["CUSTOMER"][i]
  <2>1. \A i \in Items : paidItems[i] <= b.scanned["CUSTOMER"][i]
    BY DEF BooksWithin, LedgerWithin, Grows, Ledger, Stamps, Records, Users
  <2> QED
    BY <1>3, <2>1 DEF BooksWithin, LedgerWithin, Ledger, Stamps, Records, Users
<1>5. paymentBatches \in Nat /\ paymentBatches <= b.finished["CUSTOMER"]
  BY DEF BooksWithin, BatchesWithin, Grows, Stamps, Records, Users
<1>6. mode \in Modes
  BY DEF BooksWithin, ModeWithin
<1> QED
  BY <1>1, <1>2, <1>3, <1>4, <1>5, <1>6, WithinBetween

LEMMA WithinHandled ==
    ASSUME NEW a \in Stamps, NEW b \in Stamps, NEW line, Prints(a, line, b), Handle(line),
           BooksWithin(a)
    PROVE  BooksWithin(b)'
<1>0. Grows(a, b)
  BY PrintsStamp
<1>1. /\ a.scanned["CUSTOMER"] \in Ledger /\ b.scanned["CUSTOMER"] \in Ledger
      /\ a.count \in Ledger /\ a.finished["CUSTOMER"] \in Nat
      /\ b.finished["CUSTOMER"] \in Nat
  BY DEF Stamps, Records, Users
<1>2. /\ paidItems \in Ledger /\ posSessionItems \in Ledger /\ paymentBatches \in Nat
      /\ mode \in Modes /\ paymentBatches <= a.finished["CUSTOMER"]
      /\ \A i \in Items : paidItems[i] <= a.scanned["CUSTOMER"][i]
  BY DEF BooksWithin, LedgerWithin, BatchesWithin, ModeWithin
<1>3. CASE line.kind = "BOOT"
  <2>1. b = Ended(a) /\ PosBoot
    BY <1>3 DEF Prints, Handle
  <2>2. /\ b.pc # "summary" /\ b.user = "NONE" /\ b.scanned = a.scanned
        /\ b.finished = a.finished
    BY <2>1 DEF Ended, Stamp
  <2>3. posSessionItems' = Zero /\ UNCHANGED <<mode, paidItems, paymentBatches>>
    BY <2>1 DEF PosBoot, ResetPos, customerVars
  <2> QED
    BY <1>0, <1>2, <2>2, <2>3, LedgerFacts, WithinBetween
<1>4. CASE line.kind = "START"
  <2>1. a.pc = "closing" /\ b = Started(a) /\ RollbackAndReset
    BY <1>4 DEF Prints, Handle, PosSessionStart
  <2>2. b.pc # "summary" /\ b.user = "NONE"
    BY <2>1 DEF Stamps, Records, Started, Stamp, Users
  <2> QED
    BY <1>0, <2>1, <2>2, WithinRolledBack
<1>5. CASE line.kind = "SESSION_RESET"
  <2>1. b = Ended(a) /\ RollbackAndReset
    BY <1>5 DEF Prints, Handle, PosReset
  <2>2. b.pc # "summary" /\ b.user = "NONE"
    BY <2>1 DEF Ended, Stamp
  <2> QED
    BY <1>0, <2>1, <2>2, WithinRolledBack
<1>6. CASE line.kind = "USER"
  <2>1. /\ a.pc = "select" /\ line.user \in Users /\ b = Chosen(a, line.user)
        /\ SelectMode(line.user)
    BY <1>6 DEF Prints, Handle
  <2>2. /\ b.pc = "product" /\ b.user = line.user /\ b.count = Zero
        /\ b.scanned = a.scanned /\ b.finished = a.finished
    BY <2>1 DEF Stamps, Chosen, Stamp
  <2>3. mode' = line.user /\ UNCHANGED <<paidItems, posSessionItems, paymentBatches>>
    BY <2>1 DEF SelectMode, customerVars, posVars
  <2>4. LedgerWithin(b, paidItems, posSessionItems)
    BY <1>1, <1>2, <2>2 DEF LedgerWithin, Ledger, Zero
  <2>5. ModeWithin(b, mode') /\ \A done : BatchesWithin(b, paymentBatches, done)
    BY <1>2, <2>1, <2>2, <2>3 DEF ModeWithin, BatchesWithin, Modes, Users
  <2> QED
    BY <2>3, <2>4, <2>5 DEF BooksWithin
<1>7. CASE line.kind = "PAY"
  <2> DEFINE i == line.item
  <2>1. i \in Items /\ a.pc = "product" /\ b = Scanned(a, i) /\ Pay(i)
    BY <1>7 DEF Prints, Handle
  <2>2. a.user \in Users /\ b.pc = "product" /\ b.user = a.user /\ b.finished = a.finished
    BY <2>1 DEF Stamps, Scanned, Stamp
  <2>3. /\ mode' = mode /\ UNCHANGED <<paymentBatches, committed>>
        /\ posSessionItems' = Add(posSessionItems, i, 1)
        /\ paidItems' = IF mode = "CUSTOMER" THEN Add(paidItems, i, 1) ELSE paidItems
    BY <2>1 DEF Pay
  <2>4. posSessionItems' \in Ledger /\ paidItems' \in Ledger
    BY <1>2, <2>1, <2>3, LedgerFacts
  <2>5. mode = "CUSTOMER" => a.user = "CUSTOMER"
    BY <2>2 DEF BooksWithin, ModeWithin, Users
  <2>6. a.user = "CUSTOMER" => b.scanned["CUSTOMER"] = Add(a.scanned["CUSTOMER"], i, 1)
    BY <2>1 DEF Scanned, Stamp, Stamps, Records, Users
  <2>7. \A j \in Items : paidItems'[j] <= b.scanned["CUSTOMER"][j]
    <3>1. CASE mode = "CUSTOMER"
      BY <1>1, <1>2, <2>1, <2>3, <2>5, <2>6, <3>1 DEF Add, Ledger
    <3>2. CASE mode # "CUSTOMER"
      BY <1>0, <1>1, <1>2, <2>3, <3>2 DEF Grows, Ledger
    <3> QED
      BY <3>1, <3>2
  <2>8. ASSUME a.user = "CUSTOMER", NEW j \in Items
        PROVE  paidItems'[j] + b.count[j] <= b.scanned["CUSTOMER"][j] + posSessionItems'[j]
    <3>1. \A n \in Nat : (n + 1) % 256 \in Nat /\ (n + 1) % 256 <= n + 1
      OBVIOUS
    <3>2. b.count = [a.count EXCEPT ![i] = (a.count[i] + 1) % 256]
      BY <2>1 DEF Scanned, Stamp
    <3>3. b.count[j] \in Nat /\ b.count[j] <= a.count[j] + (IF j = i THEN 1 ELSE 0)
      BY <1>1, <3>1, <3>2 DEF Ledger
    <3>4. paidItems'[j] \in Nat /\ paidItems'[j] <= paidItems[j] + (IF j = i THEN 1 ELSE 0)
      BY <1>2, <2>1, <2>3, <2>4 DEF Add, Ledger
    <3>5. /\ posSessionItems'[j] = posSessionItems[j] + (IF j = i THEN 1 ELSE 0)
          /\ b.scanned["CUSTOMER"][j] = a.scanned["CUSTOMER"][j] + (IF j = i THEN 1 ELSE 0)
      BY <1>1, <1>2, <2>1, <2>3, <2>6, <2>8 DEF Add, Ledger
    <3>6. paidItems[j] + a.count[j] <= a.scanned["CUSTOMER"][j] + posSessionItems[j]
      BY <2>8 DEF BooksWithin, LedgerWithin
    <3> QED
      BY <1>1, <1>2, <3>3, <3>4, <3>5, <3>6 DEF Ledger
  <2>9. LedgerWithin(b, paidItems', posSessionItems')
    BY <2>2, <2>4, <2>7, <2>8 DEF LedgerWithin
  <2>10. BatchesWithin(b, paymentBatches', committed') /\ ModeWithin(b, mode')
    BY <2>2, <2>3 DEF BooksWithin, BatchesWithin, ModeWithin
  <2> QED
    BY <2>9, <2>10 DEF BooksWithin
<1>8. CASE line.kind = "COUNT"
  <2>1. b = Counted(a) /\ PosCount(line.counts)
    BY <1>8 DEF Prints, Handle
  <2> QED
    BY <2>1, CountedParts
       DEF PosCount, customerVars, BooksWithin, LedgerWithin, BatchesWithin, ModeWithin
<1>9. CASE line.kind = "PAY_DONE"
  <2>1. a.pc = "product" /\ b = Paid(a) /\ PayDone
    BY <1>9 DEF Prints, Handle
  <2>2. /\ a.user \in Users /\ b.user = a.user /\ b.scanned = a.scanned /\ b.count = a.count
        /\ b.finished = [a.finished EXCEPT ![a.user] = a.finished[a.user] + 1]
    BY <2>1 DEF Stamps, Paid, Stamp
  <2>3. /\ UNCHANGED <<mode, paidItems, posSessionItems>> /\ committed' = TRUE
        /\ paymentBatches' = paymentBatches + (IF ~committed /\ mode' = "CUSTOMER" THEN 1 ELSE 0)
    BY <2>1 DEF PayDone, Commit
  <2>4. mode = "CUSTOMER" => a.user = "CUSTOMER"
    BY <2>2 DEF BooksWithin, ModeWithin, Users
  <2>5. a.user = "CUSTOMER" => b.finished["CUSTOMER"] = a.finished["CUSTOMER"] + 1
    BY <2>2 DEF Stamps, Records, Users
  <2>6. BatchesWithin(b, paymentBatches', committed')
    BY <1>0, <1>1, <1>2, <2>3, <2>4, <2>5 DEF BatchesWithin, Grows
  <2>7. LedgerWithin(b, paidItems, posSessionItems) /\ ModeWithin(b, mode)
    BY <2>2 DEF BooksWithin, LedgerWithin, ModeWithin
  <2> QED
    BY <2>3, <2>6, <2>7 DEF BooksWithin
<1>10. CASE line.kind = "SUMMARY"
  <2>1. /\ a.pc = "summary" /\ b = Ended(a) /\ line.user = a.user /\ line.counts = a.count
        /\ PosDoneSummary(a.user, a.count)
    BY <1>10 DEF Prints, Handle
  <2>2. /\ a.user \in Users /\ b.pc # "summary" /\ b.user = "NONE" /\ b.scanned = a.scanned
        /\ b.finished = a.finished
    BY <2>1 DEF Stamps, Ended, Stamp
  <2>3. /\ mode' = a.user /\ posSessionItems' = a.count
        /\ paidItems' = IF mode' = "CUSTOMER" THEN Corrected(paidItems, a.count) ELSE paidItems
    BY <2>1 DEF PosDoneSummary, Reconcile
  <2>4. PICK force : Commit(force)
    BY <2>1 DEF PosDoneSummary
  <2>5. paymentBatches' = paymentBatches + (IF ~committed /\ mode' = "CUSTOMER" THEN 1 ELSE 0)
    BY <2>4 DEF Commit
  <2>6. paymentBatches' \in Nat /\ paymentBatches' <= b.finished["CUSTOMER"]
    BY <1>1, <1>2, <2>1, <2>2, <2>3, <2>5 DEF BooksWithin, BatchesWithin
  <2>7. paidItems' \in Ledger /\ posSessionItems' \in Ledger
    BY <1>1, <1>2, <2>3, LedgerFacts
  <2>8. ASSUME NEW i \in Items PROVE paidItems'[i] <= b.scanned["CUSTOMER"][i]
    <3>1. CASE a.user = "CUSTOMER"
      <4>1. paidItems[i] + a.count[i] <= a.scanned["CUSTOMER"][i] + posSessionItems[i]
        BY <3>1 DEF BooksWithin, LedgerWithin
      <4>2. paidItems'[i] = NonNegative(paidItems[i] + a.count[i] - posSessionItems[i])
        BY <2>3, <3>1 DEF Corrected
      <4> QED
        BY <1>1, <1>2, <2>2, <4>1, <4>2 DEF NonNegative, Ledger
    <3>2. CASE a.user # "CUSTOMER"
      BY <1>2, <2>2, <2>3, <3>2
    <3> QED
      BY <3>1, <3>2
  <2>9. mode' \in Modes
    BY <2>2, <2>3 DEF Modes, Users
  <2> QED
    BY <1>0, <2>2, <2>6, <2>7, <2>8, <2>9, WithinBetween
<1> QED
  BY <1>3, <1>4, <1>5, <1>6, <1>7, <1>8, <1>9, <1>10 DEF Handle

Behind == cuts \in Nat /\ \E g : Past(g, uart, Now) /\ BooksWithin(g[1])

LEMMA BehindInit == SessionInit => Behind
<1> SUFFICES ASSUME SessionInit PROVE Behind
  OBVIOUS
<1>1. PICK g : Past(g, uart, Now) /\ g[1] = Boot
  BY PastInit DEF SessionInit
<1>2. /\ Boot.scanned["CUSTOMER"] = Zero /\ Boot.finished["CUSTOMER"] = 0
      /\ Boot.user = "NONE" /\ Boot.pc = "boot"
  BY DEF Boot, Stamp, Users
<1>3. BooksWithin(Boot)
  BY <1>2, LedgerFacts
     DEF SessionInit, Init, BooksWithin, LedgerWithin, BatchesWithin, ModeWithin, Modes, Zero
<1>4. cuts \in Nat
  BY DEF SessionInit, POS!Init
<1> QED
  BY <1>1, <1>3, <1>4 DEF Behind

LEMMA CutsStep == cuts \in Nat /\ [SessionNext]_sessionVars => cuts' \in Nat
<1> SUFFICES ASSUME cuts \in Nat, [SessionNext]_sessionVars PROVE cuts' \in Nat
  OBVIOUS
<1>1. CASE POS!Next
  <2>1. cuts' = cuts \/ cuts' = cuts + 1
    BY <1>1, Zenon DEF POS!Next, POS!SelectUser, POS!AddScan, POS!Cancel, POS!Finish,
       POS!Summarise, POS!PowerCycle
  <2> QED
    BY <2>1
<1>2. CASE UNCHANGED cuts
  BY <1>2
<1> QED
  BY <1>1, <1>2 DEF SessionNext, Firmware, HandleLine, LoseLine, ConsoleOrder, sessionVars,
     firmwareVars

LEMMA BehindStep ==
    ASSUME "USER" \notin Lossy, Behind, [SessionNext]_sessionVars
    PROVE  Behind'
<1>1. PICK g : Past(g, uart, Now) /\ BooksWithin(g[1])
  BY DEF Behind
<1>2. cuts \in Nat /\ cuts' \in Nat
  BY CutsStep DEF Behind
<1>3. CASE Firmware
  <2>1. PICK h : Past(h, uart', Now') /\ h[1] = g[1]
    BY <1>1, <1>2, <1>3, FirmwareStep DEF Firmware
  <2>2. UNCHANGED <<mode, committed, paidItems, posSessionItems, paymentBatches>>
    BY <1>3 DEF Firmware, vars, customerVars, posVars
  <2>3. BooksWithin(h[1])'
    BY <1>1, <2>1, <2>2 DEF BooksWithin
  <2> QED
    BY <1>2, <2>1, <2>3 DEF Behind
<1>4. CASE HandleLine \/ LoseLine
  <2> DEFINE h == Tail(g)
             line == Head(uart)
  <2>1. uart # <<>> /\ uart' = Tail(uart) /\ Now' = Now
    BY <1>4 DEF HandleLine, LoseLine, firmwareVars, Now, Stamp
  <2>2. /\ Past(h, uart', Now') /\ h[1] = g[2]
        /\ Prints(g[1], line, g[2]) /\ g[1] \in Stamps /\ g[2] \in Stamps
    BY <1>1, <2>1, PastShrinks
  <2> HIDE DEF h, line
  <2>3. BooksWithin(g[2])'
    <3>1. CASE Handle(line)
      BY <1>1, <2>2, <3>1, WithinHandled
    <3>2. CASE LoseLine
      <4>1. line.kind # "USER"
        BY <3>2 DEF LoseLine, line
      <4>2. BooksWithin(g[2])
        BY <1>1, <2>2, <4>1, WithinLost
      <4>3. UNCHANGED <<mode, committed, paidItems, posSessionItems, paymentBatches>>
        BY <3>2 DEF LoseLine, vars, customerVars, posVars
      <4> QED
        BY <4>2, <4>3 DEF BooksWithin
    <3> QED
      BY <1>4, <3>1, <3>2 DEF HandleLine, line
  <2> QED
    BY <1>2, <2>2, <2>3 DEF Behind
<1>5. CASE ConsoleOrder
  <2>1. Past(g, uart', Now')
    BY <1>1, <1>5 DEF ConsoleOrder, firmwareVars, Now, Stamp
  <2>2. mode' = "RIDER" /\ UNCHANGED <<committed, paidItems, posSessionItems, paymentBatches>>
    BY <1>5 DEF ConsoleOrder, SetOrder, customerVars, posVars
  <2>3. BooksWithin(g[1])'
    BY <1>1, <2>2 DEF BooksWithin, ModeWithin, Modes
  <2> QED
    BY <1>2, <2>1, <2>3 DEF Behind
<1>6. CASE UNCHANGED sessionVars
  <2>1. /\ UNCHANGED <<mode, committed, paidItems, posSessionItems, paymentBatches>>
        /\ uart' = uart /\ Now' = Now
    BY <1>6 DEF sessionVars, vars, customerVars, posVars, firmwareVars, Now, Stamp
  <2>2. Past(g, uart', Now') /\ BooksWithin(g[1])'
    BY <1>1, <2>1 DEF BooksWithin
  <2> QED
    BY <1>2, <2>2 DEF Behind
<1> QED
  BY <1>3, <1>4, <1>5, <1>6 DEF SessionNext

LEMMA BehindMeans == Behind => NoSpuriousBatch /\ PaidWasScanned
<1> SUFFICES ASSUME Behind PROVE NoSpuriousBatch /\ PaidWasScanned
  OBVIOUS
<1>1. PICK g : Past(g, uart, Now) /\ BooksWithin(g[1])
  BY DEF Behind
<1>2. g \in Seq(Stamps) /\ 1 \in 1..Len(g) /\ g[Len(g)] = Now
  <2>1. PICK L : uart \in Seq(L)
    BY <1>1 DEF Past
  <2> QED
    BY <1>1, <2>1 DEF Past
<1>3. Grows(g[1], Now) /\ g[1] \in Stamps /\ Now \in Stamps
  BY <1>1, <1>2 DEF Past
<1>4. Now.scanned = scanned /\ Now.finished = finished
  BY DEF Now, Stamp
<1>5. paymentBatches <= finished["CUSTOMER"]
  BY <1>1, <1>3, <1>4 DEF BooksWithin, BatchesWithin, Grows, Stamps, Records, Users
<1>6. \A i \in Items : paidItems[i] <= scanned["CUSTOMER"][i]
  BY <1>1, <1>3, <1>4 DEF BooksWithin, LedgerWithin, Grows, Stamps, Records, Users, Ledger
<1> QED
  BY <1>5, <1>6 DEF NoSpuriousBatch, PaidWasScanned

(* Whatever lines but USER are lost, whenever the power fails and whatever *)
(* orders the console enters, fusion_pc never counts more batches than the *)
(* checkout has finished customer sessions (_commit, PAY_DONE and SUMMARY).*)
THEOREM NoBatchWithoutSession ==
    ASSUME "USER" \notin Lossy
    PROVE  SessionSpec => []NoSpuriousBatch
<1>1. Behind /\ [SessionNext]_sessionVars => Behind'
  BY BehindStep
<1> QED
  BY <1>1, BehindInit, BehindMeans, PTL DEF SessionSpec

(* Under the same faults the customers' ledger never shows a product more  *)
(* often than customers scanned it, corrections and take-backs included    *)
(* (_pos_pay, _reconcile, _rollback).                                      *)
THEOREM NothingPaidUnscanned ==
    ASSUME "USER" \notin Lossy
    PROVE  SessionSpec => []PaidWasScanned
<1>1. Behind /\ [SessionNext]_sessionVars => Behind'
  BY BehindStep
<1> QED
  BY <1>1, BehindInit, BehindMeans, PTL DEF SessionSpec

-----------------------------------------------------------------------------
(* With a checkout that keeps its power, no order in the middle of a       *)
(* session, and only progress lines lost, the books are exact.  (Each of   *)
(* the other faults makes them differ: a lost SUMMARY leaves lost scans    *)
(* uncorrected, a power loss after PAY_DONE the same.)                     *)
OnlyProgressLost ==
    Lossy \subseteq {"PAY", "COUNT", "PAY_DONE"} /\ Orders = {} /\ PowerCuts = 0

(* The ledger of user u: the sales, and in u's own session the scans that  *)
(* have arrived, until the summary replaces them by the counters.          *)
ExactLedger(a, u, ledger, session) ==
    /\ ledger \in Ledger
    /\ a.user # u => ledger = a.sold[u]
    /\ a.user = u /\ a.pc = "product" =>
           \A i \in Items : ledger[i] = a.sold[u][i] + session[i]
    /\ a.user = u /\ a.pc = "summary" =>
           \A i \in Items : ledger[i] + a.count[i] = a.sold[u][i] + session[i]

(* One batch per finished customer session, the one whose completion has   *)
(* not been handled yet excepted.                                          *)
ExactBatches(a, batches, done) ==
    /\ batches \in Nat
    /\ a.finished["CUSTOMER"] =
           batches + (IF a.pc = "summary" /\ a.user = "CUSTOMER" /\ ~done THEN 1 ELSE 0)

ExactSession(a, m, done, session) ==
    /\ m \in Modes /\ done \in BOOLEAN /\ session \in Ledger
    /\ a.pc \in {"boot", "select"} => ~done /\ session = Zero
    /\ a.pc = "closing" => done \/ session = Zero
    /\ a.pc = "product" => ~done
    /\ a.pc \in {"product", "summary"} => m = a.user

Exact(a) ==
    /\ ExactLedger(a, "CUSTOMER", paidItems, posSessionItems)
    /\ ExactLedger(a, "RIDER", riderCheckedItems, posSessionItems)
    /\ ExactBatches(a, paymentBatches, committed)
    /\ ExactSession(a, mode, committed, posSessionItems)

(* Taking the scans of the session back leaves the sales. *)
LEMMA TakeBackSession ==
    ASSUME NEW ledger \in Ledger, NEW sales \in Ledger, posSessionItems \in Ledger,
           \A i \in Items : ledger[i] = sales[i] + posSessionItems[i]
    PROVE  TakeBack(ledger) = sales
<1>1. \A i \in Items : NonNegative(ledger[i] - posSessionItems[i]) = sales[i]
  BY DEF Ledger, NonNegative
<1> QED
  BY <1>1 DEF TakeBack, Ledger

(* The summary puts the counters in the place of the scans that arrived. *)
LEMMA CorrectSession ==
    ASSUME NEW ledger \in Ledger, NEW sales \in Ledger, NEW counts \in Ledger,
           posSessionItems \in Ledger,
           \A i \in Items : ledger[i] + counts[i] = sales[i] + posSessionItems[i]
    PROVE  Corrected(ledger, counts) = sales
<1>1. ASSUME NEW i \in Items
      PROVE  NonNegative(ledger[i] + counts[i] - posSessionItems[i]) = sales[i]
  <2>1. ledger[i] \in Nat /\ counts[i] \in Nat /\ sales[i] \in Nat /\ posSessionItems[i] \in Nat
    BY DEF Ledger
  <2>2. ledger[i] + counts[i] = sales[i] + posSessionItems[i]
    OBVIOUS
  <2>3. ledger[i] + counts[i] - posSessionItems[i] = sales[i]
    BY <2>1, <2>2
  <2> QED
    BY <2>1, <2>3 DEF NonNegative
<1> QED
  BY <1>1 DEF Corrected, Ledger

LEMMA StampTypes ==
    ASSUME NEW a \in Stamps
    PROVE  /\ a.user \in Users \union {"NONE"} /\ a.count \in Ledger
           /\ \A u \in Users : a.sold[u] \in Ledger /\ a.finished[u] \in Nat
           /\ a.user \in Users <=> a.pc \in {"product", "summary"}
  BY DEF Stamps, Records

(* Finish() adds the counters to the sales of the user. *)
LEMMA PaidLedger ==
    ASSUME NEW a \in Stamps, a.pc = "product", NEW u \in Users, NEW ledger,
           NEW session \in Ledger, ExactLedger(a, u, ledger, session)
    PROVE  ExactLedger(Paid(a), u, ledger, session)
<1>1. /\ a.user \in Users /\ a.sold \in [Users -> Ledger] /\ a.count \in Ledger
      /\ a.sold[u] \in Ledger
  BY DEF Stamps, Records
<1> DEFINE b == Paid(a)
<1>2. /\ b.user = a.user /\ b.pc = "summary" /\ b.count = a.count
      /\ b.sold = [a.sold EXCEPT ![a.user] = [i \in Items |-> a.sold[a.user][i] + a.count[i]]]
  BY DEF Paid, Stamp
<1> HIDE DEF b
<1>3. CASE a.user = u
  <2>1. \A i \in Items : b.sold[u][i] = a.sold[u][i] + a.count[i]
    BY <1>1, <1>2, <1>3
  <2>2. \A i \in Items : ledger[i] + b.count[i] = b.sold[u][i] + session[i]
    BY <1>1, <1>2, <1>3, <2>1 DEF ExactLedger, Ledger
  <2> QED
    BY <1>2, <1>3, <2>2 DEF ExactLedger, b
<1>4. CASE a.user # u
  BY <1>1, <1>2, <1>4 DEF ExactLedger, b
<1> QED
  BY <1>3, <1>4

LEMMA ExactLost ==
    ASSUME NEW a \in Stamps, NEW b \in Stamps, NEW line, Prints(a, line, b),
           line.kind \in {"PAY", "COUNT", "PAY_DONE"}, Exact(a)
    PROVE  Exact(b)
<1>1. CASE line.kind = "PAY"
  <2>1. a.pc = "product" /\ b = Scanned(a, line.item)
    BY <1>1 DEF Prints
  <2>2. b.pc = a.pc /\ b.user = a.user /\ b.sold = a.sold /\ b.finished = a.finished
    BY <2>1 DEF Scanned, Stamp
  <2> QED
    BY <2>1, <2>2 DEF Exact, ExactLedger, ExactBatches, ExactSession
<1>2. CASE line.kind = "COUNT"
  <2>1. b = Counted(a)
    BY <1>2 DEF Prints
  <2> QED
    BY <2>1, CountedParts DEF Exact, ExactLedger, ExactBatches, ExactSession
<1>3. CASE line.kind = "PAY_DONE"
  <2>1. a.pc = "product" /\ b = Paid(a)
    BY <1>3 DEF Prints
  <2>2. /\ a.user \in Users /\ b.pc = "summary" /\ b.user = a.user
        /\ b.finished = [a.finished EXCEPT ![a.user] = a.finished[a.user] + 1]
    BY <2>1, StampTypes DEF Paid, Stamp
  <2>3. /\ ExactLedger(b, "CUSTOMER", paidItems, posSessionItems)
        /\ ExactLedger(b, "RIDER", riderCheckedItems, posSessionItems)
    BY <2>1, PaidLedger DEF Exact, ExactSession, Users
  <2>4. b.finished["CUSTOMER"] = a.finished["CUSTOMER"] + (IF a.user = "CUSTOMER" THEN 1 ELSE 0)
    BY <2>2 DEF Stamps, Records, Users
  <2>5. ExactBatches(b, paymentBatches, committed)
    BY <2>1, <2>2, <2>4 DEF Exact, ExactBatches, ExactSession
  <2>6. ExactSession(b, mode, committed, posSessionItems)
    BY <2>1, <2>2 DEF Exact, ExactSession
  <2> QED
    BY <2>3, <2>5, <2>6 DEF Exact
<1> QED
  BY <1>1, <1>2, <1>3

LEMMA ExactBetween ==
    ASSUME NEW a \in Stamps, NEW b \in Stamps, Exact(a),
           b.sold = a.sold, b.finished = a.finished, b.user = "NONE",
           paidItems' = a.sold["CUSTOMER"], riderCheckedItems' = a.sold["RIDER"],
           paymentBatches' = a.finished["CUSTOMER"],
           mode' \in Modes, committed' \in BOOLEAN, posSessionItems' \in Ledger,
           b.pc \in {"select", "closing"},
           b.pc = "select" => ~committed' /\ posSessionItems' = Zero,
           b.pc = "closing" => committed' \/ posSessionItems' = Zero
    PROVE  Exact(b)'
<1>1. \A u \in Users : a.sold[u] \in Ledger /\ a.finished[u] \in Nat
  BY StampTypes
<1>2. /\ ExactLedger(b, "CUSTOMER", paidItems', posSessionItems')
      /\ ExactLedger(b, "RIDER", riderCheckedItems', posSessionItems')
  BY <1>1 DEF ExactLedger, Users
<1>3. ExactBatches(b, paymentBatches', committed')
  BY <1>1 DEF ExactBatches, Users
<1>4. ExactSession(b, mode', committed', posSessionItems')
  BY DEF ExactSession
<1> QED
  BY <1>2, <1>3, <1>4 DEF Exact

LEMMA ExactHandled ==
    ASSUME PowerCuts = 0, NEW a \in Stamps, NEW b \in Stamps, NEW line,
           Prints(a, line, b), Handle(line), Exact(a)
    PROVE  Exact(b)'
<1>1. /\ a.user \in Users \union {"NONE"} /\ a.count \in Ledger
      /\ \A u \in Users : a.sold[u] \in Ledger /\ a.finished[u] \in Nat
      /\ a.user \in Users <=> a.pc \in {"product", "summary"}
  BY StampTypes
<1>2. /\ mode \in Modes /\ committed \in BOOLEAN /\ posSessionItems \in Ledger
      /\ paidItems \in Ledger /\ riderCheckedItems \in Ledger /\ paymentBatches \in Nat
  BY DEF Exact, ExactLedger, ExactBatches, ExactSession
<1>3. ASSUME a.user = "NONE"
      PROVE  /\ paidItems = a.sold["CUSTOMER"] /\ riderCheckedItems = a.sold["RIDER"]
             /\ paymentBatches = a.finished["CUSTOMER"]
  BY <1>2, <1>3 DEF Exact, ExactLedger, ExactBatches
<1>4. CASE line.kind = "BOOT"
  <2>1. a.pc = "boot" /\ b = Ended(a) /\ PosBoot
    BY <1>4 DEF Prints, Handle
  <2>2. b.user = "NONE" /\ b.pc = "closing" /\ b.sold = a.sold /\ b.finished = a.finished
    BY <2>1 DEF Ended, Stamp
  <2>3. /\ posSessionItems' = Zero /\ committed' = FALSE
        /\ UNCHANGED <<mode, paidItems, riderCheckedItems, paymentBatches>>
    BY <2>1 DEF PosBoot, ResetPos, customerVars, riderVars
  <2>4. a.user = "NONE"
    BY <1>1, <2>1
  <2> QED
    BY <1>2, <1>3, <2>2, <2>3, <2>4, LedgerFacts, ExactBetween
<1>5. CASE line.kind = "START"
  <2>1. a.pc = "closing" /\ b = Started(a) /\ RollbackAndReset
    BY <1>5 DEF Prints, Handle, PosSessionStart
  <2>2. a.user = "NONE"
    BY <1>1, <2>1
  <2>3. b.user = "NONE" /\ b.pc = "select" /\ b.sold = a.sold /\ b.finished = a.finished
    BY <2>1, <2>2 DEF Started, Stamp
  <2>4. posSessionItems' = Zero /\ committed' = FALSE /\ UNCHANGED <<mode, paymentBatches>>
    BY <2>1 DEF RollbackAndReset, ResetPos
  <2>5. committed \/ posSessionItems = Zero
    BY <2>1 DEF Exact, ExactSession
  <2>6. UNCHANGED <<paidItems, riderCheckedItems>>
    BY <1>2, <2>1, <2>5, TakeBackNothing DEF RollbackAndReset, Rollback
  <2> QED
    BY <1>2, <1>3, <2>2, <2>3, <2>4, <2>6, LedgerFacts, ExactBetween
<1>6. CASE line.kind = "SESSION_RESET"
  <2>1. a.pc = "product" /\ b = Ended(a) /\ RollbackAndReset
    BY <1>6 DEF Prints, Handle, PosReset
  <2>2. b.user = "NONE" /\ b.pc = "closing" /\ b.sold = a.sold /\ b.finished = a.finished
    BY <2>1 DEF Ended, Stamp
  <2>3. posSessionItems' = Zero /\ committed' = FALSE /\ UNCHANGED <<mode, paymentBatches>>
    BY <2>1 DEF RollbackAndReset, ResetPos
  <2>4. ~committed /\ mode = a.user
    BY <2>1 DEF Exact, ExactSession
  <2>5. paidItems' = a.sold["CUSTOMER"]
    <3>1. CASE mode = "CUSTOMER"
      BY <1>1, <1>2, <2>1, <2>4, <3>1, TakeBackSession
         DEF Exact, ExactLedger, RollbackAndReset, Rollback, Users
    <3>2. CASE mode # "CUSTOMER"
      BY <2>1, <2>4, <3>2 DEF Exact, ExactLedger, RollbackAndReset, Rollback
    <3> QED
      BY <3>1, <3>2
  <2>6. riderCheckedItems' = a.sold["RIDER"]
    <3>1. CASE mode = "RIDER"
      BY <1>1, <1>2, <2>1, <2>4, <3>1, TakeBackSession
         DEF Exact, ExactLedger, RollbackAndReset, Rollback, Users
    <3>2. CASE mode # "RIDER"
      BY <2>1, <2>4, <3>2 DEF Exact, ExactLedger, RollbackAndReset, Rollback
    <3> QED
      BY <3>1, <3>2
  <2>7. paymentBatches = a.finished["CUSTOMER"]
    BY <1>2, <2>1 DEF Exact, ExactBatches
  <2> QED
    BY <1>2, <2>2, <2>3, <2>5, <2>6, <2>7, LedgerFacts, ExactBetween
<1>7. CASE line.kind = "USER"
  <2>1. /\ a.pc = "select" /\ line.user \in Users /\ b = Chosen(a, line.user)
        /\ SelectMode(line.user)
    BY <1>7 DEF Prints, Handle
  <2>2. /\ b.pc = "product" /\ b.user = line.user /\ b.sold = a.sold
        /\ b.finished = a.finished
    BY <2>1 DEF Chosen, Stamp
  <2>3. /\ mode' = line.user
        /\ UNCHANGED <<paidItems, riderCheckedItems, posSessionItems, paymentBatches, committed>>
    BY <2>1 DEF SelectMode, customerVars, riderVars, posVars
  <2>4. a.user = "NONE" /\ posSessionItems = Zero /\ committed = FALSE
    BY <1>1, <2>1 DEF Exact, ExactSession
  <2>5. ASSUME NEW u \in Users, NEW ledger, ledger = a.sold[u]
        PROVE  ExactLedger(b, u, ledger, Zero)
    BY <1>1, <2>2, <2>5 DEF ExactLedger, Zero, Ledger
  <2>6. /\ ExactLedger(b, "CUSTOMER", paidItems, Zero)
        /\ ExactLedger(b, "RIDER", riderCheckedItems, Zero)
    BY <1>3, <2>4, <2>5 DEF Users
  <2>7. ExactBatches(b, paymentBatches, FALSE) /\ ExactSession(b, line.user, FALSE, Zero)
    BY <1>1, <1>2, <1>3, <2>1, <2>2, <2>4, LedgerFacts
       DEF ExactBatches, ExactSession, Modes, Users
  <2> QED
    BY <2>3, <2>4, <2>6, <2>7 DEF Exact
<1>8. CASE line.kind = "PAY"
  <2> DEFINE i == line.item
  <2>1. i \in Items /\ a.pc = "product" /\ b = Scanned(a, i) /\ Pay(i)
    BY <1>8 DEF Prints, Handle
  <2>2. b.pc = "product" /\ b.user = a.user /\ b.sold = a.sold /\ b.finished = a.finished
    BY <2>1 DEF Scanned, Stamp
  <2>3. /\ mode' = mode /\ UNCHANGED <<paymentBatches, committed>>
        /\ posSessionItems' = Add(posSessionItems, i, 1)
        /\ paidItems' = IF mode = "CUSTOMER" THEN Add(paidItems, i, 1) ELSE paidItems
        /\ riderCheckedItems' = IF mode = "RIDER" THEN Add(riderCheckedItems, i, 1)
                                ELSE riderCheckedItems
    BY <2>1 DEF Pay
  <2>4. posSessionItems' \in Ledger
    BY <1>2, <2>1, <2>3, LedgerFacts
  <2>5. mode = a.user
    BY <2>1 DEF Exact, ExactSession
  <2>6. ASSUME NEW u \in Users, NEW ledger \in Ledger,
               ExactLedger(a, u, ledger, posSessionItems)
        PROVE  ExactLedger(b, u, IF mode = u THEN Add(ledger, i, 1) ELSE ledger, posSessionItems')
    <3>1. CASE mode = u
      <4>1. \A j \in Items : ledger[j] = a.sold[u][j] + posSessionItems[j]
        BY <2>1, <2>5, <2>6, <3>1 DEF ExactLedger
      <4>2. \A j \in Items : Add(ledger, i, 1)[j] = a.sold[u][j] + posSessionItems'[j]
        BY <1>1, <1>2, <2>3, <4>1 DEF Add, Ledger
      <4>3. Add(ledger, i, 1) \in Ledger
        BY <2>1, LedgerFacts
      <4> QED
        BY <2>2, <2>5, <3>1, <4>2, <4>3 DEF ExactLedger
    <3>2. CASE mode # u
      BY <2>2, <2>5, <2>6, <3>2 DEF ExactLedger
    <3> QED
      BY <3>1, <3>2
  <2>7. /\ ExactLedger(b, "CUSTOMER", paidItems', posSessionItems')
        /\ ExactLedger(b, "RIDER", riderCheckedItems', posSessionItems')
    BY <1>2, <2>3, <2>6 DEF Exact, Users
  <2>8. /\ ExactBatches(b, paymentBatches', committed')
        /\ ExactSession(b, mode', committed', posSessionItems')
    BY <2>1, <2>2, <2>3, <2>4 DEF Exact, ExactBatches, ExactSession
  <2> QED
    BY <2>7, <2>8 DEF Exact
<1>9. CASE line.kind = "COUNT"
  <2>1. b = Counted(a) /\ PosCount(line.counts)
    BY <1>9 DEF Prints, Handle
  <2> QED
    BY <2>1, CountedParts
       DEF PosCount, customerVars, riderVars, Exact, ExactLedger, ExactBatches, ExactSession
<1>10. CASE line.kind = "PAY_DONE"
  <2>1. a.pc = "product" /\ b = Paid(a) /\ PayDone
    BY <1>10 DEF Prints, Handle
  <2>2. /\ a.user \in Users /\ b.pc = "summary" /\ b.user = a.user
        /\ b.finished = [a.finished EXCEPT ![a.user] = a.finished[a.user] + 1]
    BY <1>1, <2>1 DEF Paid, Stamp
  <2>3. /\ UNCHANGED <<mode, paidItems, riderCheckedItems, posSessionItems>> /\ committed' = TRUE
        /\ paymentBatches' = paymentBatches + (IF ~committed /\ mode' = "CUSTOMER" THEN 1 ELSE 0)
    BY <2>1 DEF PayDone, Commit, riderVars
  <2>4. ~committed /\ mode = a.user
    BY <2>1 DEF Exact, ExactSession
  <2>5. b.finished["CUSTOMER"] = a.finished["CUSTOMER"] + (IF a.user = "CUSTOMER" THEN 1 ELSE 0)
    BY <2>2 DEF Stamps, Records, Users
  <2>6. ExactBatches(b, paymentBatches', TRUE)
    BY <1>2, <2>1, <2>3, <2>4, <2>5 DEF Exact, ExactBatches
  <2>7. /\ ExactLedger(b, "CUSTOMER", paidItems, posSessionItems)
        /\ ExactLedger(b, "RIDER", riderCheckedItems, posSessionItems)
    BY <1>2, <2>1, PaidLedger DEF Exact, Users
  <2>8. ExactSession(b, mode, TRUE, posSessionItems)
    BY <2>2, <2>4 DEF Exact, ExactSession
  <2> QED
    BY <2>3, <2>6, <2>7, <2>8 DEF Exact
<1>11. CASE line.kind = "SUMMARY"
  <2>1. /\ a.pc = "summary" /\ b = Ended(a) /\ line.user = a.user /\ line.counts = a.count
        /\ PosDoneSummary(a.user, a.count)
    BY <1>11 DEF Prints, Handle
  <2>2. b.user = "NONE" /\ b.pc = "closing" /\ b.sold = a.sold /\ b.finished = a.finished
    BY <2>1 DEF Ended, Stamp
  <2>3. /\ mode' = a.user /\ posSessionItems' = a.count
        /\ paidItems' = IF mode' = "CUSTOMER" THEN Corrected(paidItems, a.count) ELSE paidItems
        /\ riderCheckedItems' = IF mode' = "RIDER" THEN Corrected(riderCheckedItems, a.count)
                                ELSE riderCheckedItems
    BY <2>1 DEF PosDoneSummary, Reconcile
  <2>4. PICK force : Commit(force)
    BY <2>1 DEF PosDoneSummary
  <2>5. /\ committed' = TRUE
        /\ paymentBatches' = paymentBatches + (IF ~committed /\ mode' = "CUSTOMER" THEN 1 ELSE 0)
    BY <2>4 DEF Commit
  <2>6. paymentBatches' = a.finished["CUSTOMER"]
    BY <1>2, <2>1, <2>3, <2>5 DEF Exact, ExactBatches
  <2>7. paidItems' = a.sold["CUSTOMER"]
    <3>1. CASE a.user = "CUSTOMER"
      BY <1>1, <1>2, <2>1, <2>3, <3>1, CorrectSession DEF Exact, ExactLedger, Users
    <3>2. CASE a.user # "CUSTOMER"
      BY <2>3, <3>2 DEF Exact, ExactLedger
    <3> QED
      BY <3>1, <3>2
  <2>8. riderCheckedItems' = a.sold["RIDER"]
    <3>1. CASE a.user = "RIDER"
      BY <1>1, <1>2, <2>1, <2>3, <3>1, CorrectSession DEF Exact, ExactLedger, Users
    <3>2. CASE a.user # "RIDER"
      BY <2>3, <3>2 DEF Exact, ExactLedger
    <3> QED
      BY <3>1, <3>2
  <2>9. mode' \in Modes
    BY <1>1, <2>1, <2>3 DEF Modes, Users
  <2> QED
    BY <1>1, <2>2, <2>3, <2>5, <2>6, <2>7, <2>8, <2>9, ExactBetween
<1> QED
  BY <1>4, <1>5, <1>6, <1>7, <1>8, <1>9, <1>10, <1>11 DEF Handle

InStep == cuts \in Nat /\ \E g : Past(g, uart, Now) /\ Exact(g[1])

LEMMA InStepInit == SessionInit => InStep
<1> SUFFICES ASSUME SessionInit PROVE InStep
  OBVIOUS
<1>1. PICK g : Past(g, uart, Now) /\ g[1] = Boot
  BY PastInit DEF SessionInit
<1>2. /\ Boot.sold["CUSTOMER"] = Zero /\ Boot.sold["RIDER"] = Zero
      /\ Boot.finished["CUSTOMER"] = 0 /\ Boot.user = "NONE" /\ Boot.pc = "boot"
  BY DEF Boot, Stamp, Users
<1>3. Exact(Boot)
  <2>1. /\ mode = "IDLE" /\ committed = FALSE /\ paymentBatches = 0
        /\ paidItems = Zero /\ riderCheckedItems = Zero /\ posSessionItems = Zero
    BY DEF SessionInit, Init
  <2>2. /\ ExactLedger(Boot, "CUSTOMER", Zero, Zero) /\ ExactLedger(Boot, "RIDER", Zero, Zero)
    BY <1>2, LedgerFacts DEF ExactLedger
  <2>3. ExactBatches(Boot, 0, FALSE) /\ ExactSession(Boot, "IDLE", FALSE, Zero)
    BY <1>2, LedgerFacts DEF ExactBatches, ExactSession, Modes
  <2> QED
    BY <2>1, <2>2, <2>3 DEF Exact
<1>4. cuts \in Nat
  BY DEF SessionInit, POS!Init
<1> QED
  BY <1>1, <1>3, <1>4 DEF InStep

LEMMA InStepStep ==
    ASSUME OnlyProgressLost, InStep, [SessionNext]_sessionVars
    PROVE  InStep'
<1>1. PICK g : Past(g, uart, Now) /\ Exact(g[1])
  BY DEF InStep
<1>2. cuts \in Nat /\ cuts' \in Nat
  BY CutsStep DEF InStep
<1> DEFINE Books == <<mode, committed, paidItems, riderCheckedItems, posSessionItems, paymentBatches>>
<1>3. CASE Firmware
  <2>1. PICK h : Past(h, uart', Now') /\ h[1] = g[1]
    BY <1>1, <1>2, <1>3, FirmwareStep DEF Firmware
  <2>2. UNCHANGED Books
    BY <1>3 DEF Firmware, vars, customerVars, riderVars, posVars
  <2>3. Exact(h[1])'
    BY <1>1, <2>1, <2>2 DEF Exact
  <2> QED
    BY <1>2, <2>1, <2>3 DEF InStep
<1>4. CASE HandleLine \/ LoseLine
  <2> DEFINE h == Tail(g)
             line == Head(uart)
  <2>1. uart # <<>> /\ uart' = Tail(uart) /\ Now' = Now
    BY <1>4 DEF HandleLine, LoseLine, firmwareVars, Now, Stamp
  <2>2. /\ Past(h, uart', Now') /\ h[1] = g[2]
        /\ Prints(g[1], line, g[2]) /\ g[1] \in Stamps /\ g[2] \in Stamps
    BY <1>1, <2>1, PastShrinks
  <2> HIDE DEF h, line
  <2>3. Exact(g[2])'
    <3>1. CASE Handle(line)
      BY <1>1, <2>2, <3>1, ExactHandled DEF OnlyProgressLost
    <3>2. CASE LoseLine
      <4>1. line.kind \in {"PAY", "COUNT", "PAY_DONE"}
        BY <3>2 DEF LoseLine, line, OnlyProgressLost
      <4>2. Exact(g[2])
        BY <1>1, <2>2, <4>1, ExactLost
      <4>3. UNCHANGED Books
        BY <3>2 DEF LoseLine, vars, customerVars, riderVars, posVars
      <4> QED
        BY <4>2, <4>3 DEF Exact
    <3> QED
      BY <1>4, <3>1, <3>2 DEF HandleLine, line
  <2> QED
    BY <1>2, <2>2, <2>3 DEF InStep
<1>5. ~ConsoleOrder
  BY DEF ConsoleOrder, OnlyProgressLost
<1>6. CASE UNCHANGED sessionVars
  <2>1. UNCHANGED Books /\ uart' = uart /\ Now' = Now
    BY <1>6 DEF sessionVars, vars, customerVars, riderVars, posVars, firmwareVars, Now, Stamp
  <2>2. Past(g, uart', Now') /\ Exact(g[1])'
    BY <1>1, <2>1 DEF Exact
  <2> QED
    BY <1>2, <2>2 DEF InStep
<1> QED
  BY <1>3, <1>4, <1>5, <1>6 DEF SessionNext

LEMMA InStepMeans == InStep => BooksMatchSales
<1> SUFFICES ASSUME InStep, Drained PROVE /\ paidItems = sold["CUSTOMER"]
                                         /\ riderCheckedItems = sold["RIDER"]
                                         /\ paymentBatches = finished["CUSTOMER"]
  BY DEF BooksMatchSales
<1>1. PICK g : Past(g, uart, Now) /\ Exact(g[1])
  BY DEF InStep
<1>2. g \in Seq(Stamps) /\ Len(g) = 1 /\ g[Len(g)] = Now
  BY <1>1 DEF Past, Drained
<1>3. g[1] = Now /\ Now \in Stamps
  BY <1>2
<1>4. /\ Now.pc = "select" /\ Now.user = user /\ Now.sold = sold
      /\ Now.finished = finished
  BY DEF Drained, Now, Stamp
<1>5. user = "NONE"
  BY <1>3, <1>4, StampTypes DEF Users
<1> QED
  BY <1>1, <1>3, <1>4, <1>5 DEF Exact, ExactLedger, ExactBatches

(* Whatever progress lines are lost: between two sessions, with every line *)
(* handled, the ledgers are the sales of the checkout and the batches its  *)
(* finished customer sessions (_pos_pay, _commit, _reconcile, _rollback).  *)
THEOREM BooksAreTheSales ==
    ASSUME OnlyProgressLost
    PROVE  SessionSpec => []BooksMatchSales
<1>1. InStep /\ [SessionNext]_sessionVars => InStep'
  BY InStepStep
<1> QED
  BY <1>1, InStepInit, InStepMeans, PTL DEF SessionSpec

-----------------------------------------------------------------------------
(* The same books as a cash register: what each handled line does to it.   *)

RegisterVars == <<Closed, Booked, IF Booked THEN posSessionItems ELSE Zero, paymentBatches>>

LEMMA RegisterStutters ==
    ASSUME UNCHANGED <<mode, committed, paidItems, posSessionItems, paymentBatches>>
    PROVE  UNCHANGED RegisterVars
  BY DEF RegisterVars, Closed, Booked, Zero, Items

(* Not booked before or after: only what is closed counts. *)
LEMMA RegisterIdles ==
    ASSUME ~Booked, ~Booked', UNCHANGED <<Closed, paymentBatches>>
    PROVE  UNCHANGED RegisterVars
<1>1. Zero' = Zero
  BY DEF Zero, Items
<1>2. Booked' = Booked
  BY DEF Booked
<1>3. UNCHANGED (IF Booked THEN posSessionItems ELSE Zero)
  BY <1>1
<1> QED
  BY <1>2, <1>3 DEF RegisterVars

LEMMA RegisterStep ==
    ASSUME PowerCuts = 0, NEW a \in Stamps, NEW b, NEW line,
           Prints(a, line, b), Handle(line), Exact(a)
    PROVE  Register!Next \/ UNCHANGED RegisterVars
<1>1. /\ a.user \in Users \union {"NONE"} /\ a.count \in Ledger
      /\ \A u \in Users : a.sold[u] \in Ledger /\ a.finished[u] \in Nat
      /\ a.user \in Users <=> a.pc \in {"product", "summary"}
  BY StampTypes
<1>2. /\ committed \in BOOLEAN /\ posSessionItems \in Ledger
      /\ paidItems \in Ledger /\ paymentBatches \in Nat
  BY DEF Exact, ExactLedger, ExactBatches, ExactSession
<1>3. /\ Register!Counts = Ledger /\ Register!Nothing = Zero
      /\ Zero' = Zero /\ \A i \in Items : Zero[i] = 0
  BY DEF Register!Counts, Register!Nothing, Ledger, Zero, Items
<1>4. CASE line.kind = "BOOT"
  <2>1. a.pc = "boot" /\ PosBoot
    BY <1>4 DEF Prints, Handle
  <2>2. /\ posSessionItems' = Zero /\ committed' = FALSE
        /\ UNCHANGED <<mode, paidItems, paymentBatches>>
    BY <2>1 DEF PosBoot, ResetPos, customerVars
  <2>3. posSessionItems = Zero /\ committed = FALSE
    BY <2>1 DEF Exact, ExactSession
  <2> QED
    BY <2>2, <2>3, RegisterStutters
<1>5. CASE line.kind = "START"
  <2>1. a.pc = "closing" /\ RollbackAndReset
    BY <1>5 DEF Prints, Handle, PosSessionStart
  <2>2. posSessionItems' = Zero /\ committed' = FALSE /\ UNCHANGED <<mode, paymentBatches>>
    BY <2>1 DEF RollbackAndReset, ResetPos
  <2>3. committed \/ posSessionItems = Zero
    BY <2>1 DEF Exact, ExactSession
  <2>4. paidItems' = paidItems
    BY <1>2, <2>1, <2>3, TakeBackNothing DEF RollbackAndReset, Rollback
  <2>5. ~Booked'
    BY <2>2 DEF Booked
  <2>6. CASE Booked
    <3>1. Closed' = [i \in Items |-> Closed[i] + posSessionItems[i]]
      <4>1. \A i \in Items : paidItems[i] - Zero[i] = (paidItems[i] - posSessionItems[i]) + posSessionItems[i]
        BY <1>2, <1>3 DEF Ledger
      <4>2. mode = "CUSTOMER" /\ mode' = "CUSTOMER"
        BY <2>2, <2>6 DEF Booked
      <4> QED
        BY <2>2, <2>4, <4>1, <4>2 DEF Closed, Items
    <3>2. Register!Close
      BY <1>3, <2>2, <2>5, <2>6, <3>1 DEF Register!Close
    <3> QED
      BY <3>2 DEF Register!Next
  <2>7. CASE ~Booked
    <3>1. mode # "CUSTOMER" \/ posSessionItems = Zero
      BY <2>3, <2>7 DEF Booked
    <3>2. Closed' = Closed
      BY <1>2, <2>2, <2>4, <3>1 DEF Closed, Items
    <3> QED
      BY <2>2, <2>5, <2>7, <3>2, RegisterIdles
  <2> QED
    BY <2>6, <2>7
<1>6. CASE line.kind = "SESSION_RESET"
  <2>1. a.pc = "product" /\ RollbackAndReset
    BY <1>6 DEF Prints, Handle, PosReset
  <2>2. posSessionItems' = Zero /\ committed' = FALSE /\ UNCHANGED <<mode, paymentBatches>>
    BY <2>1 DEF RollbackAndReset, ResetPos
  <2>3. ~committed /\ mode = a.user
    BY <2>1 DEF Exact, ExactSession
  <2>4. Closed' = Closed
    <3>1. CASE mode = "CUSTOMER"
      <4>1. \A i \in Items : paidItems[i] = a.sold["CUSTOMER"][i] + posSessionItems[i]
        BY <2>1, <2>3, <3>1 DEF Exact, ExactLedger
      <4>2. paidItems' = a.sold["CUSTOMER"]
        BY <1>1, <1>2, <2>1, <2>3, <3>1, <4>1, TakeBackSession
           DEF RollbackAndReset, Rollback, Users
      <4>3. \A i \in Items : a.sold["CUSTOMER"][i] - Zero[i] = paidItems[i] - posSessionItems[i]
        BY <1>1, <1>2, <1>3, <4>1 DEF Ledger, Users
      <4> QED
        BY <2>2, <3>1, <4>2, <4>3 DEF Closed, Items
    <3>2. CASE mode # "CUSTOMER"
      <4>1. paidItems' = paidItems
        BY <2>1, <3>2 DEF RollbackAndReset, Rollback
      <4> QED
        BY <2>2, <3>2, <4>1 DEF Closed, Items
    <3> QED
      BY <3>1, <3>2
  <2> QED
    BY <2>2, <2>3, <2>4, RegisterIdles DEF Booked
<1>7. CASE line.kind = "USER"
  <2>1. a.pc = "select" /\ SelectMode(line.user)
    BY <1>7 DEF Prints, Handle
  <2>2. UNCHANGED <<paidItems, posSessionItems, paymentBatches, committed>>
    BY <2>1 DEF SelectMode, customerVars, posVars
  <2>3. posSessionItems = Zero /\ committed = FALSE
    BY <2>1 DEF Exact, ExactSession
  <2>4. \A i \in Items : paidItems[i] - posSessionItems[i] = paidItems[i]
    BY <1>2, <1>3, <2>3 DEF Ledger
  <2>5. Closed' = Closed
    BY <2>2, <2>4 DEF Closed, Items
  <2> QED
    BY <2>2, <2>3, <2>5, RegisterIdles DEF Booked
<1>8. CASE line.kind = "PAY"
  <2> DEFINE i == line.item
  <2>1. i \in Items /\ a.pc = "product" /\ Pay(i)
    BY <1>8 DEF Prints, Handle
  <2>2. /\ mode' = mode /\ UNCHANGED <<paymentBatches, committed>>
        /\ posSessionItems' = Add(posSessionItems, i, 1)
        /\ paidItems' = IF mode = "CUSTOMER" THEN Add(paidItems, i, 1) ELSE paidItems
    BY <2>1 DEF Pay
  <2>3. ~committed
    BY <2>1 DEF Exact, ExactSession
  <2>4. \A j \in Items : Add(paidItems, i, 1)[j] - Add(posSessionItems, i, 1)[j]
                            = paidItems[j] - posSessionItems[j]
    BY <1>2 DEF Ledger, Add
  <2>5. Closed' = Closed
    <3>1. CASE mode = "CUSTOMER"
      BY <2>2, <2>4, <3>1 DEF Closed, Items
    <3>2. CASE mode # "CUSTOMER"
      BY <2>2, <3>2 DEF Closed, Items
    <3> QED
      BY <3>1, <3>2
  <2> QED
    BY <2>2, <2>3, <2>5, RegisterIdles DEF Booked
<1>9. CASE line.kind = "COUNT"
  <2>1. PosCount(line.counts)
    BY <1>9 DEF Handle
  <2> QED
    BY <2>1, RegisterStutters DEF PosCount, customerVars
<1>10. CASE line.kind = "PAY_DONE"
  <2>1. a.pc = "product" /\ PayDone
    BY <1>10 DEF Prints, Handle
  <2>2. /\ UNCHANGED <<mode, paidItems, posSessionItems>> /\ committed' = TRUE
        /\ paymentBatches' = paymentBatches + (IF ~committed /\ mode' = "CUSTOMER" THEN 1 ELSE 0)
    BY <2>1 DEF PayDone, Commit
  <2>3. ~committed
    BY <2>1 DEF Exact, ExactSession
  <2>4. Closed' = Closed
    BY <2>2 DEF Closed, Items
  <2>5. CASE mode = "CUSTOMER"
    <3>1. Register!Book
      BY <1>2, <1>3, <2>2, <2>3, <2>4, <2>5 DEF Register!Book, Booked
    <3> QED
      BY <3>1 DEF Register!Next
  <2>6. CASE mode # "CUSTOMER"
    <3>1. ~Booked /\ ~Booked' /\ paymentBatches' = paymentBatches
      BY <1>2, <2>2, <2>6 DEF Booked
    <3> QED
      BY <2>4, <3>1, RegisterIdles
  <2> QED
    BY <2>5, <2>6
<1>11. CASE line.kind = "SUMMARY"
  <2>1. a.pc = "summary" /\ PosDoneSummary(a.user, a.count)
    BY <1>11 DEF Prints, Handle
  <2>2. /\ mode' = a.user /\ posSessionItems' = a.count
        /\ paidItems' = IF mode' = "CUSTOMER" THEN Corrected(paidItems, a.count) ELSE paidItems
    BY <2>1 DEF PosDoneSummary, Reconcile
  <2>3. PICK force : Commit(force)
    BY <2>1 DEF PosDoneSummary
  <2>4. /\ committed' = TRUE
        /\ paymentBatches' = paymentBatches + (IF ~committed /\ mode' = "CUSTOMER" THEN 1 ELSE 0)
    BY <2>3 DEF Commit
  <2>5. mode = a.user
    BY <2>1 DEF Exact, ExactSession
  <2>6. CASE a.user = "CUSTOMER"
    <3>1. \A i \in Items : paidItems[i] + a.count[i] = a.sold["CUSTOMER"][i] + posSessionItems[i]
      BY <2>1, <2>6 DEF Exact, ExactLedger
    <3>2. paidItems' = a.sold["CUSTOMER"]
      BY <1>1, <1>2, <2>2, <2>6, <3>1, CorrectSession DEF Users
    <3>3. ASSUME NEW i \in Items
          PROVE  a.sold["CUSTOMER"][i] - a.count[i] = paidItems[i] - posSessionItems[i]
      <4>1. /\ a.sold["CUSTOMER"][i] \in Nat /\ a.count[i] \in Nat
            /\ paidItems[i] \in Nat /\ posSessionItems[i] \in Nat
        BY <1>1, <1>2 DEF Ledger, Users
      <4> QED
        BY <3>1, <4>1
    <3>4. Closed' = Closed
      BY <2>2, <2>5, <2>6, <3>2, <3>3 DEF Closed, Items
    <3>5. Booked' /\ (Booked <=> committed)
      BY <2>2, <2>4, <2>5, <2>6 DEF Booked
    <3>6. CASE committed
      <4>1. Register!Amend
        BY <1>1, <1>2, <1>3, <2>2, <2>4, <3>4, <3>5, <3>6 DEF Register!Amend
      <4> QED
        BY <4>1 DEF Register!Next
    <3>7. CASE ~committed
      <4>1. Register!Book
        BY <1>1, <1>3, <2>2, <2>4, <2>6, <3>4, <3>5, <3>7 DEF Register!Book
      <4> QED
        BY <4>1 DEF Register!Next
    <3> QED
      BY <3>6, <3>7
  <2>7. CASE a.user # "CUSTOMER"
    <3>1. ~Booked /\ ~Booked' /\ paymentBatches' = paymentBatches
      BY <1>2, <2>2, <2>4, <2>5, <2>7 DEF Booked
    <3>2. Closed' = Closed
      BY <2>2, <2>5, <2>7 DEF Closed, Items
    <3> QED
      BY <3>1, <3>2, RegisterIdles
  <2> QED
    BY <2>6, <2>7
<1> QED
  BY <1>4, <1>5, <1>6, <1>7, <1>8, <1>9, <1>10, <1>11 DEF Handle

LEMMA RegisterInit == SessionInit => Register!Init
<1> SUFFICES ASSUME SessionInit PROVE Register!Init
  OBVIOUS
<1>1. mode = "IDLE" /\ committed = FALSE /\ paidItems = Zero /\ paymentBatches = 0
  BY DEF SessionInit, Init
<1>2. Closed = Zero /\ ~Booked
  BY <1>1 DEF Closed, Booked, Zero
<1> QED
  BY <1>1, <1>2 DEF Register!Init, Register!Nothing, Zero

LEMMA RegisterFollows ==
    ASSUME OnlyProgressLost, InStep, [SessionNext]_sessionVars
    PROVE  Register!Next \/ UNCHANGED RegisterVars
<1>1. PICK g : Past(g, uart, Now) /\ Exact(g[1])
  BY DEF InStep
<1>2. CASE Firmware \/ LoseLine \/ UNCHANGED sessionVars
  BY <1>2, RegisterStutters DEF Firmware, LoseLine, sessionVars, vars, customerVars, posVars
<1>3. CASE HandleLine
  <2>1. uart # <<>> /\ Handle(Head(uart))
    BY <1>3 DEF HandleLine
  <2>2. Prints(g[1], Head(uart), g[2]) /\ g[1] \in Stamps
    BY <1>1, <2>1, PastShrinks
  <2> QED
    BY <1>1, <2>1, <2>2, RegisterStep DEF OnlyProgressLost
<1>4. ~ConsoleOrder
  BY DEF ConsoleOrder, OnlyProgressLost
<1> QED
  BY <1>2, <1>3, <1>4 DEF SessionNext

(* The books follow the abstract cash register: a session is booked whole  *)
(* when its completion is handled, amended by its own summary only, closed *)
(* by the next START, and never taken back (_commit, _reconcile, START).   *)
THEOREM BooksAreARegister ==
    ASSUME OnlyProgressLost
    PROVE  SessionSpec => ImplementsRegister
<1>1. InStep /\ [SessionNext]_sessionVars => InStep'
  BY InStepStep
<1>2. InStep /\ [SessionNext]_sessionVars => [Register!Next]_RegisterVars
  BY RegisterFollows
<1> QED
  BY <1>1, <1>2, InStepInit, RegisterInit, PTL
     DEF SessionSpec, ImplementsRegister, Register!Spec, RegisterVars
=============================================================================
