------------------------- MODULE EmergencyDispatcher -------------------------
(***************************************************************************)
(* The path of a theft alarm: the fusion loop submits jobs to a queue, the *)
(* dispatcher thread sends each over a ZeroMQ REQ socket with a timeout    *)
(* and retries, and reports the outcome to a callback                      *)
(* (adapters/vision_emergency.py).  The receiver answers requests one at a *)
(* time (vision/mock/emergency_rep.py); the alarm of a request it accepted  *)
(* is shown after the answer (docs/PROTOCOLS.md, section 5), outside this  *)
(* repository and this module.  Requests and replies may be lost or late.  *)
(*                                                                         *)
(* A job is its position in submitted; job 0 is the None that stop() puts. *)
(***************************************************************************)
EXTENDS Naturals, Sequences

CONSTANTS
    Customers,
    Retries,     \* emergency_retries: attempts after the first
    MaxJobs      \* bound on the jobs submitted

ASSUME RetriesAssumption == Retries \in Nat
ASSUME MaxJobsAssumption == MaxJobs \in Nat \ {0}

VARIABLES
    submitted,   \* customers of the jobs, in the order of submit()
    jobs,        \* the queue.Queue of the dispatcher
    stopping,    \* stop_event
    pc,          \* where the thread is: loop, get, send, recv, callback, ended
    job,         \* the job it works on
    attempt,     \* retries already made for it
    delivered,   \* outcome of the job: result["ok"]
    socket,      \* identity of the REQ socket in use (sockets opened so far)
    requests,    \* requests on their way to the receiver
    replies,     \* replies on their way back
    accepted,    \* requests the receiver has accepted, per job
    outcomes     \* results handed to the callback, oldest first

queueVars == <<submitted, jobs, stopping>>
threadVars == <<pc, job, attempt, delivered, socket>>
netVars == <<requests, replies, accepted>>
vars == <<queueVars, threadVars, netVars, outcomes>>

Pill == 0
Jobs == 1..MaxJobs
NoJob == 0

Init ==
    /\ submitted = <<>> /\ jobs = <<>> /\ stopping = FALSE
    /\ pc = "loop" /\ job = NoJob /\ attempt = 0 /\ delivered = FALSE /\ socket = 0
    /\ requests = {} /\ replies = {}
    /\ accepted = [j \in Jobs |-> 0]
    /\ outcomes = <<>>

-----------------------------------------------------------------------------
(* The fusion loop. *)

Submit(c) ==
    /\ ~stopping
    /\ Len(submitted) < MaxJobs
    /\ submitted' = Append(submitted, c)
    /\ jobs' = Append(jobs, Len(submitted'))
    /\ UNCHANGED <<stopping, threadVars, netVars, outcomes>>

Stop ==
    /\ ~stopping
    /\ stopping' = TRUE
    /\ jobs' = Append(jobs, Pill)
    /\ UNCHANGED <<submitted, threadVars, netVars, outcomes>>

(* main() waits two seconds for the thread, then the process ends. *)
ProcessEnds ==
    /\ stopping /\ pc # "ended"
    /\ pc' = "ended"
    /\ UNCHANGED <<queueVars, job, attempt, delivered, socket, netVars, outcomes>>

-----------------------------------------------------------------------------
(* The dispatcher thread: run(). *)

CheckStop ==
    /\ pc = "loop"
    /\ pc' = IF stopping THEN "ended" ELSE "get"
    /\ UNCHANGED <<queueVars, job, attempt, delivered, socket, netVars, outcomes>>

(* jobs.get(timeout=0.3) returns a job, or the None of stop(). *)
Get ==
    /\ pc = "get" /\ jobs # <<>>
    /\ jobs' = Tail(jobs)
    /\ \/ Head(jobs) = Pill /\ pc' = "ended" /\ UNCHANGED <<job, attempt>>
       \/ Head(jobs) # Pill /\ pc' = "send" /\ job' = Head(jobs) /\ attempt' = 0
    /\ UNCHANGED <<submitted, stopping, delivered, socket, netVars, outcomes>>

GetTimesOut ==
    /\ pc = "get" /\ jobs = <<>>
    /\ pc' = "loop"
    /\ UNCHANGED <<queueVars, job, attempt, delivered, socket, netVars, outcomes>>

SameSocket == socket' = 1  \* mutant: one REQ socket for every attempt

(* _new_socket(): the old one was closed, a fresh one is connected. *)
NewSocket == socket' = socket + 1

OpenAndSend ==
    /\ pc = "send"
    /\ NewSocket
    /\ requests' = requests \union {[socket |-> socket', job |-> job]}
    /\ pc' = "recv"
    /\ UNCHANGED <<queueVars, job, attempt, delivered, replies, accepted, outcomes>>

OneRetryTooMany ==  \* mutant
    \/ /\ attempt <= Retries
       /\ attempt' = attempt + 1 /\ pc' = "send" /\ UNCHANGED delivered
    \/ /\ attempt > Retries
       /\ delivered' = FALSE /\ pc' = "callback" /\ UNCHANGED attempt

(* A timeout, a refusal or a malformed answer: the socket is closed; retry,*)
(* or raise after the last attempt.                                        *)
AttemptFails ==
    \/ /\ attempt < Retries
       /\ attempt' = attempt + 1 /\ pc' = "send" /\ UNCHANGED delivered
    \/ /\ attempt = Retries
       /\ delivered' = FALSE /\ pc' = "callback" /\ UNCHANGED attempt

(* SNDTIMEO before the request left. *)
SendTimesOut ==
    /\ pc = "send"
    /\ NewSocket
    /\ AttemptFails
    /\ UNCHANGED <<queueVars, job, netVars, outcomes>>

(* recv_json() returns a reply to this socket; a refusal is an error. *)
Receive ==
    /\ pc = "recv"
    /\ \E r \in replies :
         /\ r.socket = socket
         /\ \/ r.ok /\ delivered' = TRUE /\ pc' = "callback" /\ UNCHANGED attempt
            \/ ~r.ok /\ AttemptFails
         /\ replies' = replies \ {r}
    /\ UNCHANGED <<queueVars, job, socket, requests, accepted, outcomes>>

(* RCVTIMEO: the request, the receiver or the reply is lost or late. *)
ReceiveTimesOut ==
    /\ pc = "recv"
    /\ AttemptFails
    /\ UNCHANGED <<queueVars, job, socket, netVars, outcomes>>

(* Any other error, of _new_socket() for one, is not retried: run() reports*)
(* it at once.                                                             *)
SendBreaks ==
    /\ pc \in {"send", "recv"}
    /\ delivered' = FALSE /\ pc' = "callback"
    /\ UNCHANGED <<queueVars, job, attempt, socket, netVars, outcomes>>

CallbackOnSuccess ==  \* mutant: failures are not reported
    /\ pc = "callback"
    /\ outcomes' = IF delivered THEN Append(outcomes, [job |-> job, ok |-> delivered])
                   ELSE outcomes
    /\ pc' = "loop" /\ job' = NoJob /\ attempt' = 0 /\ delivered' = FALSE
    /\ UNCHANGED <<queueVars, socket, netVars>>

(* Every outcome, success or error, is handed to the callback once. *)
Callback ==
    /\ pc = "callback"
    /\ outcomes' = Append(outcomes, [job |-> job, ok |-> delivered])
    /\ pc' = "loop" /\ job' = NoJob /\ attempt' = 0 /\ delivered' = FALSE
    /\ UNCHANGED <<queueVars, socket, netVars>>

-----------------------------------------------------------------------------
(* The receiver and the network. *)

Accept(q) ==
    /\ accepted' = [accepted EXCEPT ![q.job] = @ + 1]
    /\ replies' = replies \union {[socket |-> q.socket, job |-> q.job, ok |-> TRUE]}

Refuse(q) ==
    /\ replies' = replies \union {[socket |-> q.socket, job |-> q.job, ok |-> FALSE]}
    /\ UNCHANGED accepted

Serve ==
    /\ \E q \in requests :
         /\ requests' = requests \ {q}
         /\ Accept(q) \/ Refuse(q)
    /\ UNCHANGED <<queueVars, threadVars, outcomes>>

LoseMessage ==
    /\ \/ \E q \in requests : requests' = requests \ {q} /\ UNCHANGED replies
       \/ \E r \in replies : replies' = replies \ {r} /\ UNCHANGED requests
    /\ UNCHANGED <<queueVars, threadVars, accepted, outcomes>>

Dispatcher ==
    \/ CheckStop
    \/ Get
    \/ GetTimesOut
    \/ OpenAndSend
    \/ SendTimesOut
    \/ Receive
    \/ ReceiveTimesOut
    \/ SendBreaks
    \/ Callback

Next ==
    \/ \E c \in Customers : Submit(c)
    \/ Stop
    \/ ProcessEnds
    \/ Dispatcher
    \/ Serve
    \/ LoseMessage

(* Every step of the thread is taken in the end: no call of run() blocks   *)
(* for longer than its timeout.                                            *)
Spec == Init /\ [][Next]_vars /\ WF_vars(Dispatcher)

-----------------------------------------------------------------------------
(* Properties. *)

TypeOK ==
    /\ submitted \in Seq(Customers) /\ Len(submitted) <= MaxJobs
    /\ jobs \in Seq(Jobs \union {Pill}) /\ stopping \in BOOLEAN
    /\ pc \in {"loop", "get", "send", "recv", "callback", "ended"}
    /\ job \in Jobs \union {NoJob} /\ attempt \in 0..Retries /\ delivered \in BOOLEAN
    /\ socket \in Nat
    /\ requests \subseteq [socket : Nat, job : Jobs]
    /\ replies \subseteq [socket : Nat, job : Jobs, ok : BOOLEAN]
    /\ accepted \in [Jobs -> Nat]
    /\ outcomes \in Seq([job : Jobs, ok : BOOLEAN])

(* A job reported as delivered was accepted by the receiver, that very job:*)
(* no late reply to an earlier job, of another customer, is taken for it.  *)
(* That its alarm was shown does not follow: the answer comes first.       *)
DeliveredMeansAccepted ==
    \A n \in DOMAIN outcomes : outcomes[n].ok => accepted[outcomes[n].job] > 0

(* A job is accepted, and so raises an alarm, no more often than it has    *)
(* attempts, and never before it is submitted.                             *)
AcceptedWithinAttempts ==
    \A j \in Jobs : accepted[j] <= IF j <= Len(submitted) THEN Retries + 1 ELSE 0

(* The dispatcher as an ordered hand-off of jobs to their callbacks: each  *)
(* job is reported once, in the order of submit(), whatever the network    *)
(* does; and, while nobody stops it, none waits for ever.                  *)
Handoff == INSTANCE OrderedHandoff
    WITH given <- Len(submitted), reported <- [n \in DOMAIN outcomes |-> outcomes[n].job],
         closed <- stopping
ImplementsHandoff == Handoff!FairSpec
=============================================================================
