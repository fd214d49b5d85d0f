-------------------------- MODULE EmergencyProofs ---------------------------
(***************************************************************************)
(* Proofs about EmergencyDispatcher, for any customers, number of retries  *)
(* and number of jobs: types, that a delivered job was really accepted,    *)
(* that acceptances are bounded, and that jobs are handed on once each and *)
(* in order.                                                               *)
(***************************************************************************)
EXTENDS EmergencyDispatcher, FiniteSets, FiniteSetTheorems, SequenceTheorems, TLAPS

Working == pc \in {"send", "recv", "callback"}

(* The thread works on a job only, never on the pill. *)
Typed == TypeOK /\ (Working => job \in Jobs)

-----------------------------------------------------------------------------
(* Types. *)

LEMMA TypeInit == Init => Typed
<1> SUFFICES ASSUME Init PROVE Typed
  OBVIOUS
<1>1. submitted \in Seq(Customers) /\ Len(submitted) <= MaxJobs
  BY MaxJobsAssumption DEF Init
<1>2. jobs \in Seq(Jobs \union {Pill}) /\ outcomes \in Seq([job : Jobs, ok : BOOLEAN])
  BY DEF Init
<1>3. stopping \in BOOLEAN /\ delivered \in BOOLEAN
  BY Zenon DEF Init
<1>4. attempt \in 0..Retries /\ socket \in Nat /\ accepted \in [Jobs -> Nat]
  BY RetriesAssumption DEF Init
<1>5. job = NoJob /\ pc = "loop" /\ requests = {} /\ replies = {}
  BY Zenon DEF Init
<1>6. QED
  BY <1>1, <1>2, <1>3, <1>4, <1>5 DEF Typed, TypeOK, Working

LEMMA FailTypes ==
    ASSUME attempt \in 0..Retries, delivered \in BOOLEAN, AttemptFails
    PROVE  /\ attempt' \in 0..Retries /\ delivered' \in BOOLEAN
           /\ pc' \in {"send", "callback"}
           /\ pc' = "callback" => delivered' = FALSE
<1>1. attempt' \in 0..Retries
  BY RetriesAssumption DEF AttemptFails
<1>2. delivered' \in BOOLEAN /\ pc' \in {"send", "callback"}
  BY Zenon DEF AttemptFails
<1>3. pc' = "callback" => delivered' = FALSE
  BY DEF AttemptFails
<1>4. QED
  BY <1>1, <1>2, <1>3

LEMMA TypeStep == Typed /\ [Next]_vars => Typed'
<1> SUFFICES ASSUME Typed, [Next]_vars PROVE Typed'
  OBVIOUS
<1> USE DEF Typed, TypeOK, Working, queueVars, threadVars, netVars
<1>1. ASSUME NEW c \in Customers, Submit(c) PROVE Typed'
  <2>1. submitted' \in Seq(Customers) /\ Len(submitted') = Len(submitted) + 1
    BY <1>1 DEF Submit
  <2>2. Len(submitted') \in Jobs
    BY <1>1, <2>1, MaxJobsAssumption DEF Submit, Jobs
  <2>3. QED
    BY <1>1, <2>1, <2>2 DEF Submit, Jobs
<1>2. CASE Stop
  BY <1>2 DEF Stop
<1>3. CASE ProcessEnds
  BY <1>3 DEF ProcessEnds
<1>4. CASE CheckStop
  BY <1>4 DEF CheckStop
<1>5. CASE Get
  <2>1. Head(jobs) \in Jobs \union {Pill} /\ jobs' \in Seq(Jobs \union {Pill})
    BY <1>5 DEF Get
  <2>2. QED
    BY <1>5, <2>1, RetriesAssumption DEF Get
<1>6. CASE GetTimesOut
  BY <1>6 DEF GetTimesOut
<1>8. CASE OpenAndSend
  <2>1. socket' \in Nat
    BY <1>8 DEF OpenAndSend, NewSocket
  <2>2. [socket |-> socket', job |-> job] \in [socket : Nat, job : Jobs]
    BY <1>8, <2>1 DEF OpenAndSend
  <2>3. requests' \subseteq [socket : Nat, job : Jobs]
    BY <1>8, <2>2 DEF OpenAndSend
  <2>4. QED
    BY <1>8, <2>1, <2>3 DEF OpenAndSend
<1>9. CASE SendTimesOut
  <2>1. attempt' \in 0..Retries /\ delivered' \in BOOLEAN /\ pc' \in {"send", "callback"}
    BY <1>9, FailTypes DEF SendTimesOut
  <2>2. QED
    BY <1>9, <2>1 DEF SendTimesOut, NewSocket
<1>10. CASE Receive
  <2>1. attempt' \in 0..Retries /\ delivered' \in BOOLEAN /\ pc' \in {"send", "callback"}
    BY <1>10, FailTypes DEF Receive
  <2>2. replies' \subseteq replies
    BY <1>10 DEF Receive
  <2>3. QED
    BY <1>10, <2>1, <2>2 DEF Receive
<1>11. CASE ReceiveTimesOut
  <2>1. attempt' \in 0..Retries /\ delivered' \in BOOLEAN /\ pc' \in {"send", "callback"}
    BY <1>11, FailTypes DEF ReceiveTimesOut
  <2>2. QED
    BY <1>11, <2>1 DEF ReceiveTimesOut
<1>12. CASE Callback
  <2>1. [job |-> job, ok |-> delivered] \in [job : Jobs, ok : BOOLEAN]
    BY <1>12 DEF Callback
  <2>2. outcomes' \in Seq([job : Jobs, ok : BOOLEAN])
    BY <1>12, <2>1 DEF Callback
  <2>3. attempt' \in 0..Retries /\ job' = NoJob /\ pc' = "loop"
    BY <1>12, RetriesAssumption DEF Callback
  <2>4. delivered' \in BOOLEAN
    BY <1>12, Zenon DEF Callback
  <2>5. QED
    BY <1>12, <2>2, <2>3, <2>4 DEF Callback
<1>13. CASE Serve
  <2>1. PICK q \in requests : requests' = requests \ {q} /\ (Accept(q) \/ Refuse(q))
    BY <1>13 DEF Serve
  <2>2. q \in [socket : Nat, job : Jobs]
    OBVIOUS
  <2>3. accepted' \in [Jobs -> Nat]
    BY <2>1, <2>2 DEF Accept, Refuse
  <2>4. /\ [socket |-> q.socket, job |-> q.job, ok |-> TRUE]
              \in [socket : Nat, job : Jobs, ok : BOOLEAN]
        /\ [socket |-> q.socket, job |-> q.job, ok |-> FALSE]
              \in [socket : Nat, job : Jobs, ok : BOOLEAN]
    BY <2>2
  <2>5. replies' \subseteq [socket : Nat, job : Jobs, ok : BOOLEAN]
    BY <2>1, <2>4 DEF Accept, Refuse
  <2>6. QED
    BY <1>13, <2>1, <2>3, <2>5 DEF Serve
<1>14. CASE LoseMessage
  BY <1>14 DEF LoseMessage
<1>15. CASE UNCHANGED vars
  BY <1>15 DEF vars
<1>16. CASE SendBreaks
  BY <1>16 DEF SendBreaks
<1>17. QED
  BY <1>1, <1>2, <1>3, <1>4, <1>5, <1>6, <1>8, <1>9, <1>10, <1>11, <1>12, <1>13, <1>14,
     <1>15, <1>16 DEF Next, Dispatcher

(* Every variable has its type. *)
THEOREM TypeCorrect == Spec => []TypeOK
<1>1. Typed => TypeOK
  BY DEF Typed
<1>2. QED
  BY <1>1, TypeInit, TypeStep, PTL DEF Spec

-----------------------------------------------------------------------------
(* Whose reply is whose.  A socket is new for every attempt, so what runs  *)
(* on the current one belongs to the current job; a positive reply follows *)
(* an acceptance.                                                          *)
Owned ==
    /\ \A q \in requests : q.socket <= socket /\ (pc = "recv" /\ q.socket = socket => q.job = job)
    /\ \A r \in replies : r.socket <= socket /\ (pc = "recv" /\ r.socket = socket => r.job = job)
    /\ \A r \in replies : r.ok => accepted[r.job] > 0
    /\ pc = "callback" /\ delivered => accepted[job] > 0
    /\ DeliveredMeansAccepted

(* What the proofs use of the types of messages and outcomes. *)
LEMMA Members ==
    ASSUME Typed
    PROVE  /\ \A q \in requests : q.socket \in Nat /\ q.job \in Jobs
           /\ \A r \in replies : r.socket \in Nat /\ r.job \in Jobs
           /\ \A n \in DOMAIN outcomes : outcomes[n].job \in Jobs
           /\ accepted \in [Jobs -> Nat] /\ socket \in Nat
           /\ Working => job \in Jobs
<1>1. \A q \in requests : q.socket \in Nat /\ q.job \in Jobs
  BY DEF Typed, TypeOK
<1>2. \A r \in replies : r.socket \in Nat /\ r.job \in Jobs
  BY DEF Typed, TypeOK
<1>3. \A n \in DOMAIN outcomes : outcomes[n].job \in Jobs
  <2>1. outcomes \in Seq([job : Jobs, ok : BOOLEAN])
    BY DEF Typed, TypeOK
  <2>2. DOMAIN outcomes = 1..Len(outcomes)
    BY ONLY <2>1
  <2>3. \A n \in 1..Len(outcomes) : outcomes[n] \in [job : Jobs, ok : BOOLEAN]
    BY ONLY <2>1, ElementOfSeq
  <2>4. QED
    BY ONLY <2>2, <2>3
<1>4. QED
  BY <1>1, <1>2, <1>3 DEF Typed, TypeOK

(* What was accepted stays accepted. *)
LEMMA AcceptedGrow ==
    ASSUME accepted \in [Jobs -> Nat], NEW q, q.job \in Jobs, Accept(q) \/ Refuse(q)
    PROVE  /\ \A j \in Jobs : accepted[j] > 0 => accepted'[j] > 0
           /\ Accept(q) => accepted'[q.job] > 0
           /\ \A r \in replies' : \/ r \in replies
                                 \/ /\ r.socket = q.socket /\ r.job = q.job
                                    /\ r.ok => accepted'[q.job] > 0
<1>1. CASE Accept(q)
  <2>1. accepted' = [accepted EXCEPT ![q.job] = accepted[q.job] + 1]
    BY <1>1 DEF Accept
  <2>2. accepted'[q.job] = accepted[q.job] + 1 /\ accepted[q.job] \in Nat
    BY <2>1
  <2>3. \A j \in Jobs : j = q.job \/ accepted'[j] = accepted[j]
    BY <2>1
  <2>4. accepted'[q.job] > 0 /\ \A j \in Jobs : accepted[j] > 0 => accepted'[j] > 0
    BY <2>2, <2>3
  <2>5. QED
    BY <1>1, <2>4 DEF Accept
<1>2. CASE ~Accept(q)
  BY <1>2 DEF Refuse
<1>3. QED
  BY <1>1, <1>2

LEMMA OwnedServe ==
    ASSUME Typed, Owned, Serve
    PROVE  Owned'
<1>1. PICK q \in requests : requests' = requests \ {q} /\ (Accept(q) \/ Refuse(q))
  BY DEF Serve
<1>2. /\ \A j \in Jobs : accepted[j] > 0 => accepted'[j] > 0
      /\ \A r \in replies' : \/ r \in replies
                            \/ /\ r.socket = q.socket /\ r.job = q.job
                               /\ r.ok => accepted'[q.job] > 0
  BY <1>1, Members, AcceptedGrow
<1>3. UNCHANGED <<pc, job, delivered, socket, outcomes>> /\ requests' \subseteq requests
  BY <1>1 DEF Serve, threadVars
<1>4. /\ \A x \in requests' : x.socket <= socket /\ (pc = "recv" /\ x.socket = socket => x.job = job)
      /\ \A r \in replies' : r.socket <= socket /\ (pc = "recv" /\ r.socket = socket => r.job = job)
  <2>1. \A x \in requests : x.socket <= socket /\ (pc = "recv" /\ x.socket = socket => x.job = job)
    BY DEF Owned
  <2>2. \A r \in replies : r.socket <= socket /\ (pc = "recv" /\ r.socket = socket => r.job = job)
    BY DEF Owned
  <2>3. QED
    BY <1>1, <1>2, <1>3, <2>1, <2>2
<1>5. \A r \in replies' : r.ok => accepted'[r.job] > 0
  <2>1. \A r \in replies : r.job \in Jobs /\ (r.ok => accepted[r.job] > 0)
    BY Members DEF Owned
  <2>2. QED
    BY <1>2, <2>1
<1>6. pc = "callback" /\ delivered => accepted'[job] > 0
  BY <1>2, Members DEF Owned, Working
<1>7. \A n \in DOMAIN outcomes : outcomes[n].ok => accepted'[outcomes[n].job] > 0
  BY <1>2, Members DEF Owned, DeliveredMeansAccepted
<1>8. QED
  BY <1>3, <1>4, <1>5, <1>6, <1>7 DEF Owned, DeliveredMeansAccepted

LEMMA OwnedStep == Typed /\ Typed' /\ Owned /\ [Next]_vars => Owned'
<1> SUFFICES ASSUME Typed, Typed', Owned, [Next]_vars PROVE Owned'
  OBVIOUS
<1> USE DEF Typed, TypeOK, Working, Owned, DeliveredMeansAccepted, queueVars, threadVars, netVars
<1>1. CASE /\ UNCHANGED <<netVars, outcomes, job, delivered, socket>>
           /\ pc' = pc \/ pc' \notin {"recv", "callback"}
  BY <1>1
<1>2. ASSUME NEW c \in Customers, Submit(c) PROVE Owned'
  BY <1>1, <1>2 DEF Submit
<1>3. CASE Stop
  BY <1>1, <1>3 DEF Stop
<1>4. CASE ProcessEnds
  BY <1>1, <1>4 DEF ProcessEnds
<1>5. CASE CheckStop
  BY <1>1, <1>5 DEF CheckStop
<1>6. CASE Get
  BY <1>6 DEF Get
<1>7. CASE GetTimesOut
  BY <1>1, <1>7 DEF GetTimesOut
<1>8. CASE OpenAndSend
  BY <1>8 DEF OpenAndSend, NewSocket
<1>9. CASE SendTimesOut
  <2>1. pc' = "send" \/ (pc' = "callback" /\ ~delivered')
    BY <1>9, FailTypes DEF SendTimesOut
  <2>2. QED
    BY <1>9, <2>1 DEF SendTimesOut, NewSocket
<1>10. CASE Receive
  <2>1. PICK r \in replies :
          /\ r.socket = socket /\ replies' = replies \ {r}
          /\ \/ r.ok /\ delivered' = TRUE /\ pc' = "callback" /\ UNCHANGED attempt
             \/ ~r.ok /\ AttemptFails
    BY <1>10 DEF Receive
  <2>2. r.job = job
    BY <1>10, <2>1 DEF Receive
  <2>3. r.ok \/ pc' = "send" \/ (pc' = "callback" /\ ~delivered')
    BY <2>1, FailTypes
  <2>4. pc' \in {"send", "callback"}
    BY <2>1, FailTypes
  <2>5. QED
    BY <1>10, <2>1, <2>2, <2>3, <2>4 DEF Receive
<1>11. CASE ReceiveTimesOut
  <2>1. pc' = "send" \/ (pc' = "callback" /\ ~delivered')
    BY <1>11, FailTypes DEF ReceiveTimesOut
  <2>2. QED
    BY <1>11, <2>1 DEF ReceiveTimesOut
<1>12. CASE Callback
  BY <1>12 DEF Callback
<1>13. CASE Serve
  BY <1>13, OwnedServe
<1>14. CASE LoseMessage
  BY <1>14 DEF LoseMessage
<1>15. CASE UNCHANGED vars
  BY <1>1, <1>15 DEF vars
<1>16. CASE SendBreaks
  BY <1>16 DEF SendBreaks
<1>17. QED
  BY <1>2, <1>3, <1>4, <1>5, <1>6, <1>7, <1>8, <1>9, <1>10, <1>11, <1>12, <1>13, <1>14,
     <1>15, <1>16 DEF Next, Dispatcher

(* A job is reported as delivered only when the receiver accepted that job.*)
THEOREM DeliveredTruly == Spec => []DeliveredMeansAccepted
<1>1. Init => Owned
  BY DEF Init, Owned, DeliveredMeansAccepted
<1>2. Owned => DeliveredMeansAccepted
  BY DEF Owned
<1>3. QED
  BY <1>1, <1>2, TypeInit, TypeStep, OwnedStep, PTL DEF Spec

-----------------------------------------------------------------------------
(* Where the jobs are: the first of them reported, then the one the thread *)
(* works on, then those in the queue, in the order of submit(), then the   *)
(* pill.                                                                   *)
Taken == Len(outcomes) + (IF Working THEN 1 ELSE 0)
Waiting == Len(submitted) - Taken

Queued ==
    /\ Working => job = Len(outcomes) + 1
    /\ pc # "ended" =>
         /\ Taken <= Len(submitted)
         /\ Len(jobs) = Waiting + (IF stopping THEN 1 ELSE 0)
         /\ \A k \in 1..Waiting : jobs[k] = Taken + k
         /\ stopping => jobs[Len(jobs)] = Pill

LEMMA Lengths ==
    ASSUME Typed
    PROVE  /\ Len(submitted) \in Nat /\ Len(jobs) \in Nat /\ Len(outcomes) \in Nat
           /\ Taken \in Nat /\ Waiting \in Int
<1>1. Len(submitted) \in Nat /\ Len(jobs) \in Nat /\ Len(outcomes) \in Nat
  BY DEF Typed, TypeOK
<1>2. QED
  BY ONLY <1>1 DEF Taken, Waiting

(* What leaves the queue is the next job, or the pill when none is left.   *)
LEMMA HeadIsNext ==
    ASSUME Typed, Queued, pc = "get", jobs # <<>>
    PROVE  /\ Head(jobs) # Pill => Waiting > 0 /\ Head(jobs) = Len(outcomes) + 1
           /\ Len(Tail(jobs)) = Len(jobs) - 1
           /\ \A k \in 1..(Len(jobs) - 1) : Tail(jobs)[k] = jobs[k + 1]
<1>1. jobs \in Seq(Jobs \union {Pill}) /\ Len(outcomes) \in Nat
  BY Lengths DEF Typed, TypeOK
<1>2. /\ Head(jobs) = jobs[1] /\ Len(jobs) \in Nat \ {0}
      /\ Len(Tail(jobs)) = Len(jobs) - 1
      /\ \A k \in 1..(Len(jobs) - 1) : Tail(jobs)[k] = jobs[k + 1]
  BY <1>1
<1>3. /\ Taken = Len(outcomes) /\ Waiting \in Nat
      /\ Len(jobs) = Waiting + (IF stopping THEN 1 ELSE 0)
      /\ \A k \in 1..Waiting : jobs[k] = Taken + k
      /\ stopping => jobs[Len(jobs)] = Pill
  BY Lengths DEF Queued, Taken, Waiting, Working
<1>4. CASE Waiting = 0
  BY <1>2, <1>3, <1>4
<1>5. CASE Waiting > 0
  BY <1>1, <1>2, <1>3, <1>5
<1>6. QED
  BY <1>3, <1>4, <1>5

LEMMA QueuedStep == Typed /\ Queued /\ [Next]_vars => Queued'
<1> SUFFICES ASSUME Typed, Queued, [Next]_vars PROVE Queued'
  OBVIOUS
<1> USE Lengths
<1>1. CASE /\ UNCHANGED <<submitted, jobs, stopping, outcomes, job>>
           /\ Working' = Working /\ (pc = "ended" => pc' = "ended")
  BY <1>1 DEF Queued, Taken, Waiting
<1>2. ASSUME NEW c \in Customers, Submit(c) PROVE Queued'
  <2>1. /\ Len(submitted') = Len(submitted) + 1 /\ Len(jobs') = Len(jobs) + 1
        /\ jobs'[Len(jobs) + 1] = Len(submitted) + 1
        /\ \A k \in 1..Len(jobs) : jobs'[k] = jobs[k]
    BY <1>2 DEF Submit, Typed, TypeOK
  <2>2. UNCHANGED <<stopping, pc, job, outcomes>> /\ ~stopping
    BY <1>2 DEF Submit, threadVars
  <2>3. Taken' = Taken /\ Waiting' = Waiting + 1 /\ Len(submitted) = Taken + Waiting
    BY <2>1, <2>2 DEF Taken, Waiting, Working
  <2>4. pc # "ended" => Waiting \in Nat /\ Len(jobs) = Waiting
    BY <2>2, <2>3 DEF Queued
  <2>5. pc # "ended" => \A k \in 1..Waiting' : jobs'[k] = Taken + k
    <3> SUFFICES ASSUME pc # "ended", NEW k \in 1..Waiting' PROVE jobs'[k] = Taken + k
      OBVIOUS
    <3>1. k \in 1..Waiting => jobs'[k] = Taken + k
      BY <2>1, <2>4 DEF Queued
    <3>2. k = Waiting + 1 => jobs'[k] = Taken + k
      BY <2>1, <2>3, <2>4
    <3>3. k \in 1..Waiting \/ k = Waiting + 1
      BY <2>3, <2>4
    <3>4. QED
      BY <3>1, <3>2, <3>3
  <2>6. QED
    BY <2>1, <2>2, <2>3, <2>4, <2>5 DEF Queued, Working
<1>3. CASE Stop
  <2>1. /\ Len(jobs') = Len(jobs) + 1 /\ jobs'[Len(jobs) + 1] = Pill
        /\ \A k \in 1..Len(jobs) : jobs'[k] = jobs[k]
    BY <1>3 DEF Stop, Typed, TypeOK
  <2>2. UNCHANGED <<submitted, pc, job, outcomes>> /\ ~stopping /\ stopping'
    BY <1>3 DEF Stop, threadVars
  <2>3. Taken' = Taken /\ Waiting' = Waiting
    BY <2>1, <2>2 DEF Taken, Waiting, Working
  <2>4. pc # "ended" => Waiting \in Nat /\ Len(jobs) = Waiting
    BY <2>2, <2>3 DEF Queued, Waiting
  <2>5. pc # "ended" => \A k \in 1..Waiting : jobs'[k] = Taken + k
    BY <2>1, <2>4 DEF Queued
  <2>6. QED
    BY <2>1, <2>2, <2>3, <2>4, <2>5 DEF Queued, Working
<1>4. CASE pc' = "ended"
  BY <1>4 DEF Queued, Working
<1>5. CASE Get /\ pc' # "ended"
  <2>1. /\ jobs' = Tail(jobs) /\ job' = Head(jobs) /\ pc' = "send" /\ pc = "get"
        /\ jobs # <<>> /\ Head(jobs) # Pill
        /\ UNCHANGED <<submitted, stopping, outcomes>>
    BY <1>5 DEF Get
  <2>2. /\ Waiting > 0 /\ Head(jobs) = Len(outcomes) + 1
        /\ Len(jobs') = Len(jobs) - 1
        /\ \A k \in 1..(Len(jobs) - 1) : jobs'[k] = jobs[k + 1]
    BY <2>1, HeadIsNext
  <2>3. Taken' = Taken + 1 /\ Waiting' = Waiting - 1 /\ Taken = Len(outcomes)
    BY <2>1 DEF Taken, Waiting, Working
  <2>4. QED
    BY <2>1, <2>2, <2>3 DEF Queued, Waiting, Working
<1>6. CASE Callback
  <2>1. /\ pc' = "loop" /\ pc = "callback" /\ UNCHANGED <<submitted, jobs, stopping>>
        /\ Len(outcomes') = Len(outcomes) + 1
    BY <1>6 DEF Callback, Typed, TypeOK, queueVars
  <2>2. Taken' = Taken /\ Waiting' = Waiting
    BY <2>1 DEF Taken, Waiting, Working
  <2>3. QED
    BY <2>1, <2>2 DEF Queued, Working
<1>7. CASE SendTimesOut \/ Receive \/ ReceiveTimesOut
  <2>1. pc' \in {"send", "callback"}
    BY <1>7, FailTypes DEF SendTimesOut, Receive, ReceiveTimesOut, Typed, TypeOK
  <2>2. QED
    BY <1>1, <1>7, <2>1 DEF SendTimesOut, Receive, ReceiveTimesOut, Working, queueVars, netVars
<1>8. CASE OpenAndSend \/ SendBreaks
  BY <1>1, <1>8 DEF OpenAndSend, SendBreaks, Working, queueVars
<1>9. CASE ProcessEnds \/ CheckStop \/ GetTimesOut \/ Serve \/ LoseMessage
  BY <1>1, <1>4, <1>9
     DEF ProcessEnds, CheckStop, GetTimesOut, Serve, LoseMessage, Working, queueVars, threadVars
<1>10. CASE UNCHANGED vars
  BY <1>1, <1>10 DEF vars, queueVars, threadVars, Working
<1>11. QED
  BY <1>2, <1>3, <1>4, <1>5, <1>6, <1>7, <1>8, <1>9, <1>10 DEF Next, Dispatcher

(* The callbacks of run(), as the abstract hand-off sees them. *)
Reported == [n \in DOMAIN outcomes |-> outcomes[n].job]

LEMMA ReportedSeq ==
    Typed => /\ Reported \in Seq(Jobs) /\ Len(Reported) = Len(outcomes)
             /\ DOMAIN Reported = 1..Len(outcomes)
<1> SUFFICES ASSUME Typed
             PROVE  /\ Reported \in Seq(Jobs) /\ Len(Reported) = Len(outcomes)
                    /\ DOMAIN Reported = 1..Len(outcomes)
  OBVIOUS
<1>1. outcomes \in Seq([job : Jobs, ok : BOOLEAN])
  BY DEF Typed, TypeOK
<1>2. DOMAIN outcomes = 1..Len(outcomes) /\ Len(outcomes) \in Nat
  BY <1>1, LenProperties
<1>3. Reported \in [1..Len(outcomes) -> Jobs]
  BY <1>2, Members DEF Reported
<1>4. QED
  BY ONLY <1>2, <1>3

(* A callback is the report of the next job. *)
LEMMA CallbackReports ==
    ASSUME Typed, Typed', Queued, Callback
    PROVE  Handoff!Report
<1>1. /\ outcomes' = Append(outcomes, [job |-> job, ok |-> delivered])
      /\ job = Len(outcomes) + 1 /\ Taken = Len(outcomes) + 1 /\ Taken <= Len(submitted)
      /\ UNCHANGED <<submitted, stopping>>
  BY DEF Callback, Queued, Taken, Working, queueVars
<1>2. /\ Reported \in Seq(Jobs) /\ Len(Reported) = Len(outcomes) /\ Len(outcomes) \in Nat
      /\ DOMAIN Reported = 1..Len(outcomes)
  BY ReportedSeq, Lengths
<1>3. (/\ Reported \in Seq(Jobs) /\ Len(Reported) = Len(outcomes)
       /\ DOMAIN Reported = 1..Len(outcomes))'
  BY ReportedSeq, PTL
<1>4. /\ Len(outcomes') = Len(outcomes) + 1
      /\ \A n \in 1..Len(outcomes) : outcomes'[n] = outcomes[n]
      /\ outcomes'[Len(outcomes) + 1].job = Len(outcomes) + 1
  BY <1>1 DEF Typed, TypeOK
<1>5. Reported' = Append(Reported, Len(Reported) + 1)
  <2>1. Len(outcomes) + 1 \in Jobs
    BY <1>1, Members DEF Callback, Working
  <2>2. /\ Append(Reported, Len(Reported) + 1) \in Seq(Jobs)
        /\ Len(Append(Reported, Len(Reported) + 1)) = Len(outcomes) + 1
        /\ \A n \in 1..Len(outcomes) : Append(Reported, Len(Reported) + 1)[n] = Reported[n]
        /\ Append(Reported, Len(Reported) + 1)[Len(outcomes) + 1] = Len(outcomes) + 1
    BY <1>2, <2>1
  <2>3. \A n \in 1..Len(outcomes) + 1 :
          Reported'[n] = Append(Reported, Len(Reported) + 1)[n]
    <3>1. \A n \in 1..Len(outcomes') : Reported'[n] = outcomes'[n].job
      BY <1>3 DEF Reported
    <3>2. \A n \in 1..Len(outcomes) : Reported[n] = outcomes[n].job
      BY <1>2 DEF Reported
    <3>3. QED
      BY <1>2, <1>4, <2>2, <3>1, <3>2
  <2>4. QED
    BY <1>3, <1>4, <2>2, <2>3, SeqEqual
<1>6. QED
  BY <1>1, <1>2, <1>5, Lengths DEF Handoff!Report, Reported

LEMMA StepHandsOff ==
    ASSUME Typed, Typed', Queued, [Next]_vars
    PROVE  [Handoff!Next]_<<Len(submitted), Reported, stopping>>
<1>1. CASE UNCHANGED <<submitted, outcomes, stopping>>
  BY <1>1 DEF Reported
<1>2. ASSUME NEW c \in Customers, Submit(c) PROVE Handoff!Give
  BY <1>2 DEF Submit, Handoff!Give, Typed, TypeOK
<1>3. ASSUME Stop PROVE Handoff!Close
  BY <1>3 DEF Stop, Handoff!Close
<1>4. ASSUME Callback PROVE Handoff!Report
  BY <1>4, CallbackReports
<1>5. CASE \/ ProcessEnds \/ CheckStop \/ Get \/ GetTimesOut \/ OpenAndSend
           \/ SendTimesOut \/ Receive \/ ReceiveTimesOut \/ SendBreaks \/ Serve
           \/ LoseMessage
  BY <1>1, <1>5 DEF ProcessEnds, CheckStop, Get, GetTimesOut, OpenAndSend, SendTimesOut,
     Receive, ReceiveTimesOut, SendBreaks, Serve, LoseMessage, queueVars
<1>6. CASE UNCHANGED vars
  BY <1>1, <1>6 DEF vars, queueVars
<1>7. QED
  BY <1>2, <1>3, <1>4, <1>5, <1>6 DEF Next, Dispatcher, Handoff!Next

(* The dispatcher implements the ordered hand-off: every job is reported   *)
(* once, in the order of submit(), whatever is lost, late or refused.      *)
THEOREM HandsOffInOrder == Spec => Handoff!Spec
<1>1. Init => Queued
  BY DEF Init, Queued, Taken, Waiting, Working
<1>2. Init => Handoff!Init
  BY DEF Init, Handoff!Init
<1>3. QED
  BY <1>1, <1>2, TypeInit, TypeStep, QueuedStep, StepHandsOff, PTL
     DEF Spec, Handoff!Spec, Reported

-----------------------------------------------------------------------------
(* How often a job is accepted: every acceptance, and every request still  *)
(* on its way, was one attempt of its job, and a job has at most           *)
(* 1 + Retries of them.                                                    *)
Pending(j) == {q \in requests : q.job = j}

Attempts(j) ==
    IF j <= Len(outcomes) THEN Retries + 1
    ELSE IF job # j THEN 0
    ELSE IF pc \in {"recv", "callback", "ended"} THEN attempt + 1 ELSE attempt

Counted ==
    /\ pc \in {"loop", "get"} => job = NoJob
    /\ Len(outcomes) <= Len(submitted) /\ job <= Len(submitted)
    /\ IsFiniteSet(requests)
    /\ \A j \in Jobs : accepted[j] + Cardinality(Pending(j)) <= Attempts(j)

LEMMA PendingFinite ==
    ASSUME Counted, NEW j
    PROVE  IsFiniteSet(Pending(j)) /\ Cardinality(Pending(j)) \in Nat
<1>1. Pending(j) \subseteq requests /\ IsFiniteSet(requests)
  BY DEF Counted, Pending
<1>2. QED
  BY <1>1, FS_Subset, FS_CardinalityType

(* A step that sends nothing and moves no job forward keeps the count. *)
LEMMA CountedQuiet ==
    ASSUME Typed, Counted, requests' \subseteq requests, UNCHANGED accepted,
           \A j \in Jobs : Attempts(j)' >= Attempts(j) /\ Attempts(j)' \in Nat
    PROVE  /\ IsFiniteSet(requests')
           /\ \A j \in Jobs : accepted'[j] + Cardinality(Pending(j)') <= Attempts(j)'
<1>1. IsFiniteSet(requests')
  BY FS_Subset DEF Counted
<1>2. ASSUME NEW j \in Jobs PROVE accepted'[j] + Cardinality(Pending(j)') <= Attempts(j)'
  <2>1. Pending(j)' \subseteq Pending(j)
    BY DEF Pending
  <2>2. /\ Cardinality(Pending(j)') \in Nat /\ Cardinality(Pending(j)) \in Nat
        /\ Cardinality(Pending(j)') <= Cardinality(Pending(j))
    BY <2>1, PendingFinite, FS_Subset, FS_CardinalityType
  <2>3. accepted[j] \in Nat /\ accepted[j] + Cardinality(Pending(j)) <= Attempts(j)
    BY Members DEF Counted
  <2>4. Attempts(j) \in Int
    BY Lengths, RetriesAssumption DEF Attempts, Typed, TypeOK, Jobs
  <2>5. QED
    BY ONLY <2>2, <2>3, <2>4, UNCHANGED accepted,
       \A i \in Jobs : Attempts(i)' >= Attempts(i) /\ Attempts(i)' \in Nat
<1>3. QED
  BY <1>1, <1>2

LEMMA AttemptsType == Typed => \A j \in Jobs : Attempts(j) \in Nat /\ Attempts(j) <= Retries + 1
  BY Lengths, RetriesAssumption DEF Attempts, Typed, TypeOK, Jobs

(* A failed attempt is counted before the next one starts. *)
LEMMA CountedFail ==
    ASSUME Typed, Counted, AttemptFails, pc \in {"send", "recv"}, UNCHANGED <<job, outcomes>>
    PROVE  \A j \in Jobs : Attempts(j)' >= Attempts(j)
<1>1. attempt \in Nat
  BY RetriesAssumption DEF Typed, TypeOK
<1>2. \/ pc' = "send" /\ attempt' = attempt + 1
      \/ pc' = "callback" /\ attempt' = attempt
  BY Zenon DEF AttemptFails
<1>3. ASSUME NEW j \in Jobs PROVE Attempts(j)' >= Attempts(j)
  <2>1. CASE j <= Len(outcomes) \/ job # j
    BY <2>1, RetriesAssumption DEF Attempts
  <2>2. CASE ~(j <= Len(outcomes)) /\ job = j
    BY <1>1, <1>2, <2>2 DEF Attempts
  <2>3. QED
    BY <2>1, <2>2
<1>4. QED
  BY <1>3

LEMMA CountedGet ==
    ASSUME Typed, Queued, Counted, Get
    PROVE  /\ \A j \in Jobs : Attempts(j)' >= Attempts(j)
           /\ pc' \in {"loop", "get"} => job' = NoJob
           /\ job' <= Len(submitted)
<1>1. job = NoJob /\ pc = "get" /\ jobs # <<>> /\ UNCHANGED <<submitted, outcomes>>
  BY DEF Counted, Get
<1>2. CASE UNCHANGED <<job, attempt>> /\ pc' = "ended"
  BY <1>1, <1>2, Lengths, RetriesAssumption DEF Attempts, Counted, Jobs, NoJob
<1>3. CASE pc' = "send" /\ job' = Head(jobs) /\ attempt' = 0 /\ Head(jobs) # Pill
  <2>1. Waiting > 0 /\ job' = Len(outcomes) + 1 /\ Taken = Len(outcomes)
    BY <1>1, <1>3, HeadIsNext DEF Taken, Working
  <2>2. job' <= Len(submitted)
    BY <2>1, Lengths DEF Waiting
  <2>3. QED
    BY <1>1, <1>3, <2>1, <2>2, Lengths, RetriesAssumption DEF Attempts, Jobs, NoJob
<1>4. QED
  BY <1>2, <1>3 DEF Get

LEMMA CountedCallback ==
    ASSUME Typed, Queued, Counted, Callback
    PROVE  /\ \A j \in Jobs : Attempts(j)' >= Attempts(j)
           /\ Len(outcomes') <= Len(submitted)
<1>1. /\ Len(outcomes') = Len(outcomes) + 1 /\ job = Len(outcomes) + 1 /\ job' = NoJob
      /\ Taken = Len(outcomes) + 1 /\ Taken <= Len(submitted)
  BY DEF Callback, Typed, TypeOK, Queued, Working, Taken
<1>2. attempt \in 0..Retries /\ Len(outcomes) \in Nat
  BY Lengths DEF Typed, TypeOK
<1>3. QED
  BY <1>1, <1>2, RetriesAssumption DEF Attempts, Jobs, NoJob

LEMMA CountedSend ==
    ASSUME Typed, Queued, Counted, OpenAndSend
    PROVE  /\ IsFiniteSet(requests')
           /\ \A j \in Jobs : accepted'[j] + Cardinality(Pending(j)') <= Attempts(j)'
<1> DEFINE new == [socket |-> socket', job |-> job]
<1>1. /\ requests' = requests \union {new} /\ pc = "send" /\ pc' = "recv"
      /\ UNCHANGED <<accepted, job, attempt, outcomes>> /\ new.job = job
  BY DEF OpenAndSend
<1>2. IsFiniteSet(requests')
  BY <1>1, FS_AddElement DEF Counted
<1>3. ASSUME NEW j \in Jobs PROVE accepted'[j] + Cardinality(Pending(j)') <= Attempts(j)'
  <2>1. /\ accepted[j] \in Nat /\ Cardinality(Pending(j)) \in Nat
        /\ accepted[j] + Cardinality(Pending(j)) <= Attempts(j)
    BY Members, PendingFinite DEF Counted
  <2>2. CASE j = job
    <3>1. Pending(j)' = Pending(j) \union {new}
      BY <1>1, <2>2 DEF Pending
    <3>2. Cardinality(Pending(j)') \in Nat /\ Cardinality(Pending(j)') <= Cardinality(Pending(j)) + 1
      <4>1. IsFiniteSet(Pending(j))
        BY PendingFinite
      <4>2. Cardinality(Pending(j) \union {new})
              = IF new \in Pending(j) THEN Cardinality(Pending(j)) ELSE Cardinality(Pending(j)) + 1
        BY <4>1, FS_AddElement
      <4>3. QED
        BY ONLY <2>1, <3>1, <4>2
    <3>3. Attempts(j)' = Attempts(j) + 1 /\ Attempts(j) \in Nat
      <4>1. job = Len(outcomes) + 1 /\ Len(outcomes) \in Nat /\ attempt \in Nat
        BY <1>1, Lengths DEF Queued, Working, Typed, TypeOK
      <4>2. QED
        BY <1>1, <2>2, <4>1 DEF Attempts
    <3>4. QED
      BY <1>1, <2>1, <3>2, <3>3
  <2>3. CASE j # job
    <3>1. Pending(j)' = Pending(j)
      BY <1>1, <2>3 DEF Pending
    <3>2. Attempts(j)' = Attempts(j)
      BY <1>1, <2>3 DEF Attempts
    <3>3. QED
      BY <1>1, <2>1, <3>1, <3>2
  <2>4. QED
    BY <2>2, <2>3
<1>4. QED
  BY <1>2, <1>3

LEMMA CountedServe ==
    ASSUME Typed, Counted, Serve
    PROVE  /\ IsFiniteSet(requests')
           /\ \A j \in Jobs : accepted'[j] + Cardinality(Pending(j)') <= Attempts(j)'
<1>1. PICK q \in requests : requests' = requests \ {q} /\ (Accept(q) \/ Refuse(q))
  BY DEF Serve
<1>2. IsFiniteSet(requests')
  BY <1>1, FS_RemoveElement DEF Counted
<1>3. \A j \in Jobs : Attempts(j)' = Attempts(j)
  BY DEF Serve, threadVars, Attempts
<1>4. ASSUME NEW j \in Jobs PROVE accepted'[j] + Cardinality(Pending(j)') <= Attempts(j)'
  <2>1. /\ accepted[j] \in Nat /\ Cardinality(Pending(j)) \in Nat
        /\ accepted[j] + Cardinality(Pending(j)) <= Attempts(j)
    BY Members, PendingFinite DEF Counted
  <2>2. Attempts(j) \in Nat
    BY AttemptsType
  <2>3. CASE j = q.job
    <3>1. accepted'[j] = accepted[j] \/ accepted'[j] = accepted[j] + 1
      BY <1>1, <2>3, Members DEF Accept, Refuse
    <3>2. Pending(j)' = Pending(j) \ {q} /\ q \in Pending(j)
      BY <1>1, <2>3 DEF Pending
    <3>3. Cardinality(Pending(j)') = Cardinality(Pending(j)) - 1
      BY <3>2, PendingFinite, FS_RemoveElement
    <3>4. QED
      BY ONLY <1>3, <2>1, <2>2, <3>1, <3>3
  <2>4. CASE j # q.job
    <3>1. accepted'[j] = accepted[j]
      BY <1>1, <2>4, Members DEF Accept, Refuse
    <3>2. Pending(j)' = Pending(j)
      BY <1>1, <2>4 DEF Pending
    <3>3. QED
      BY ONLY <1>3, <2>1, <3>1, <3>2
  <2>5. QED
    BY <2>3, <2>4
<1>5. QED
  BY <1>2, <1>4

LEMMA CountedStep == Typed /\ Typed' /\ Queued /\ Counted /\ [Next]_vars => Counted'
<1> SUFFICES ASSUME Typed, Typed', Queued, Counted, [Next]_vars PROVE Counted'
  OBVIOUS
<1>1. (\A j \in Jobs : Attempts(j) \in Nat /\ Attempts(j) <= Retries + 1)'
  BY AttemptsType, PTL
<1> DEFINE Quiet == requests' \subseteq requests /\ UNCHANGED accepted
                    /\ \A j \in Jobs : Attempts(j)' >= Attempts(j)
           Place == /\ pc' \in {"loop", "get"} => job' = NoJob
                    /\ Len(outcomes') <= Len(submitted') /\ job' <= Len(submitted')
<1>2. Quiet /\ Place => Counted'
  BY <1>1, CountedQuiet DEF Counted
<1>3. /\ \A j \in Jobs : Attempts(j) >= Attempts(j)
      /\ Len(outcomes) <= Len(submitted) /\ job <= Len(submitted)
      /\ Len(submitted) \in Nat /\ Len(outcomes) \in Nat
  BY AttemptsType, Lengths DEF Counted
<1>4. ASSUME NEW c \in Customers, Submit(c) PROVE Counted'
  <2>1. Len(submitted') = Len(submitted) + 1 /\ job \in Nat
    BY <1>4 DEF Submit, Typed, TypeOK, Jobs, NoJob
  <2>2. Quiet /\ Place
    BY <1>3, <1>4, <2>1 DEF Submit, Counted, Attempts, threadVars, netVars
  <2>3. QED
    BY <1>2, <2>2
<1>5. CASE Stop \/ GetTimesOut \/ LoseMessage
  BY <1>2, <1>3, <1>5
     DEF Stop, GetTimesOut, LoseMessage, Counted, Attempts, queueVars, threadVars, netVars
<1>6. CASE CheckStop
  <2>1. \A j \in Jobs : Attempts(j)' = Attempts(j)
    BY <1>6 DEF CheckStop, Counted, Attempts, Jobs, NoJob
  <2>2. QED
    BY <1>2, <1>3, <1>6, <2>1 DEF CheckStop, Counted, queueVars, netVars
<1>7. CASE ProcessEnds
  <2>1. attempt \in Nat
    BY DEF Typed, TypeOK
  <2>2. \A j \in Jobs : Attempts(j)' >= Attempts(j)
    BY <1>3, <1>7, <2>1, RetriesAssumption DEF ProcessEnds, Attempts
  <2>3. QED
    BY <1>2, <1>3, <1>7, <2>2 DEF ProcessEnds, Counted, queueVars, netVars
<1>8. CASE Get
  BY <1>2, <1>3, <1>8, CountedGet DEF Get, netVars
<1>9. CASE Callback
  <2>1. job' = NoJob /\ UNCHANGED <<requests, accepted, submitted>>
    BY <1>9 DEF Callback, queueVars, netVars
  <2>2. QED
    BY <1>2, <1>3, <1>9, <2>1, CountedCallback DEF NoJob
<1>10. CASE SendTimesOut \/ Receive \/ ReceiveTimesOut
  <2>1. /\ pc \in {"send", "recv"} /\ UNCHANGED <<submitted, job, outcomes, requests, accepted>>
        /\ \/ AttemptFails
           \/ pc = "recv" /\ pc' = "callback" /\ UNCHANGED attempt
    BY <1>10 DEF SendTimesOut, Receive, ReceiveTimesOut, queueVars, netVars
  <2>2. pc' \in {"send", "callback"}
    BY <2>1, FailTypes DEF Typed, TypeOK
  <2>3. \A j \in Jobs : Attempts(j)' >= Attempts(j)
    BY <1>3, <2>1, CountedFail DEF Attempts
  <2>4. QED
    BY <1>2, <1>3, <2>1, <2>2, <2>3
<1>11. CASE OpenAndSend
  <2>1. Place
    BY <1>3, <1>11 DEF OpenAndSend, queueVars
  <2>2. QED
    BY <1>11, <2>1, CountedSend DEF Counted
<1>12. CASE Serve
  <2>1. Place
    BY <1>3, <1>12 DEF Serve, Counted, queueVars, threadVars
  <2>2. QED
    BY <1>12, <2>1, CountedServe DEF Counted
<1>13. CASE UNCHANGED vars
  BY <1>2, <1>3, <1>13 DEF vars, Counted, Attempts, queueVars, threadVars, netVars
<1>14. CASE SendBreaks
  <2>1. /\ pc \in {"send", "recv"} /\ pc' = "callback" /\ UNCHANGED attempt
        /\ UNCHANGED <<submitted, job, outcomes, requests, accepted>>
    BY <1>14 DEF SendBreaks, queueVars, netVars
  <2>2. attempt \in Nat
    BY DEF Typed, TypeOK
  <2>3. \A j \in Jobs : Attempts(j)' >= Attempts(j)
    BY <1>3, <2>1, <2>2, RetriesAssumption DEF Attempts
  <2>4. QED
    BY <1>2, <1>3, <2>1, <2>3
<1>15. QED
  BY <1>4, <1>5, <1>6, <1>7, <1>8, <1>9, <1>10, <1>11, <1>12, <1>13, <1>14
     DEF Next, Dispatcher

(* A job is accepted at most 1 + Retries times, and never before submit(). *)
THEOREM AcceptedBounded == Spec => []AcceptedWithinAttempts
<1>1. Init => Counted
  <2> SUFFICES ASSUME Init PROVE Counted
    OBVIOUS
  <2>1. /\ requests = {} /\ job = 0 /\ Len(outcomes) = 0 /\ Len(submitted) = 0
        /\ IsFiniteSet(requests)
    BY FS_EmptySet DEF Init, NoJob
  <2>2. \A j \in Jobs : accepted[j] = 0 /\ Pending(j) = {}
    BY <2>1 DEF Init, Pending
  <2>3. \A j \in Jobs : Attempts(j) = 0
    BY <2>1, MaxJobsAssumption DEF Attempts, Jobs
  <2>4. \A j \in Jobs : accepted[j] + Cardinality(Pending(j)) <= Attempts(j)
    BY <2>2, <2>3, FS_EmptySet
  <2>5. pc = "loop" /\ job = NoJob
    BY DEF Init
  <2>6. QED
    BY <2>1, <2>4, <2>5 DEF Counted
<1>2. Typed /\ Counted => AcceptedWithinAttempts
  <2>1. ASSUME Typed, Counted, NEW j \in Jobs
        PROVE  accepted[j] <= IF j <= Len(submitted) THEN Retries + 1 ELSE 0
    <3>1. /\ accepted[j] \in Nat /\ Cardinality(Pending(j)) \in Nat
          /\ accepted[j] + Cardinality(Pending(j)) <= Attempts(j)
      BY <2>1, Members, PendingFinite DEF Counted
    <3>2. Attempts(j) \in Nat /\ Attempts(j) <= Retries + 1
      BY <2>1, AttemptsType
    <3>3. j > Len(submitted) => Attempts(j) = 0
      BY <2>1, Lengths DEF Counted, Attempts, Jobs
    <3>4. QED
      BY <2>1, <3>1, <3>2, <3>3, Lengths, RetriesAssumption DEF Jobs
  <2>2. QED
    BY <2>1 DEF AcceptedWithinAttempts
<1>3. Init => Queued
  BY DEF Init, Queued, Taken, Waiting, Working
<1>4. QED
  BY <1>1, <1>2, <1>3, TypeInit, TypeStep, QueuedStep, CountedStep, PTL DEF Spec
=============================================================================
