# Formal models of Bootivation

TLA+ models of the Bootivation unmanned store: what the central fusion program
(`fusion_pc`) concludes from a checkout board, a Vision system and a tray camera,
and what the devices around it do. TLC checks the models on small instances;
TLAPS proves every safety property the passing runs check, for every value of the constants.

## The system

| Part | State it keeps | Operations | Talks to |
|---|---|---|---|
| Checkout board (`firmware/atmega128_pos`) | user, three 8-bit counters, session id | start, choose user, scan, give up, finish, boot | prints lines on a serial port |
| Serial reader and parser (`serial_worker.py`, `parsers.py`) | the open port | read a line, reconnect | puts events on `event_queue` |
| StateManager (`core/state_manager.py`) | mode, customer ledger, rider order/removed/checked ledgers, inventory, the open POS session, commit flags, cooldowns | `handle()` per event kind, `set_order()` | returns rider commands |
| Vision retail subscriber (`retail_zmq.py`) | last counts and POS flag per customer, transitions seen | one POS/EXIT transition | `event_queue` (picks), session queue |
| Fusion loop (`main.py`) | active customer, payments per customer, unassigned payment, pending exits | take sessions, judge due exits, take orders and actions, handle one event | all of the above, rider, RPi, emergency |
| Dashboard (`ops_dashboard.py`) | a copy of the fusion state that shares its ledgers, alerts, timeline | `update_fusion()`, `finalize_customer_exit()` | called by the loop, read by the HTTP thread |
| Emergency client and dispatcher (`vision_emergency.py`) | job queue, REQ socket | submit, send with retry, report, stop | Vision's REP socket |
| Tray session (`edge/rpi_tray`) | windows of counts, expected counts, announcements, two timers | commands, one camera frame, a restart | pulls commands, plays audio, publishes status |
| Rider Arduino (`firmware/rider_arduino`) | servo, LED, the line being read | one command line, a boot | Bluetooth serial, from the loop |

What makes it hard: four threads and three devices that share two queues and no
clock; two completion lines for one payment; a serial line that loses what is
printed during a reconnect; PUB/SUB that drops messages and transitions that come
again; payments and customers that are matched only by time; retries after lost
replies; resets and orders an operator enters at any moment; a rider's board and a
tray program that start anew without telling anyone.

What makes each part correct:

- StateManager: a green light and `PICKUP_COMPLETE` only on order = removed =
  checked; no pick missing from the inventory; each session counted once.
- Checkout, line, StateManager together: the books are the sales.
- Subscriber: every pick once, every transition one session, the right kiosk flag.
- Loop: every exit judged once, by the customer's own payment, and followed by its alarm.
- Rider's guide: a green lamp means order = removed = checked, the servo points at the next
  product (or at one the rider took too many of); the dashboard shows no completed pickup over ledgers that differ.
- Dispatcher: each job reported once and in order; a delivered job was accepted by the
  receiver, that very job. The receiver answers before it shows the alarm
  (`docs/PROTOCOLS.md`, section 5), so what a reply proves ends there.
- Tray: complete only for what lies there, no warning for a customer who pays and transfers
  everything in time, one per payment, and one for everything that is missing.

## Modules

| Module | Models | State and actions in the code |
|---|---|---|
| `StateManager` | `StateManager`, `FusionState` | the fields by their names; an action per event kind (`Pay` = `_pos_pay`, `PosDoneSummary` = the branch of that kind with `_reconcile` and `_commit`, ...), and `AnyEvent` = `handle()`. `committed` stands for `_committed`, `_done` and `pos_payment_done`, which every assignment sets alike. Fields only shown (zone, phase, boot count, session id) are left out |
| `PosFirmware` | `pos.c` | `pc` is the place in `pos_run_forever()`; each action prints its lines into `uart`; `sold`, `scanned`, `finished` are history |
| `PosSession` | `PosFirmware` + serial line + parser + `StateManager` | `Handle(line)` is `parse_pos_line()` followed by `handle()`; `LoseLine` is a reconnect; `ConsoleOrder` the order queue |
| `CashRegister` | abstract: a register books whole sessions, and amends only the latest | refined by `PosSession`: an open booking is a committed session, `closed` the ledger without it |
| `RetailSubscriber` | `RetailCustomerSubscriber` | `_last_counts`, `_pos_seen`, `_seen_transitions`; `ProcessTransition` = `_process_transition()` |
| `RetailFeed` | Vision's stream + the subscriber | publish, lose, receive, receive again |
| `ExitVerdict` | `finalize_customer_exit()` | `ExitCode`; `Situation` is the table of `docs/SCENARIO_MATRIX.md`, which `VerdictIsRight` and `VerdictByTable` hold it against |
| `FusionLoop` | `main()`'s loop with `PosSession`, `RetailSubscriber`, `ExitVerdict` and the store | `loop` is the part of the loop that runs next; the loop's locals are variables; the reader threads, the customers, the operator and lost checkout lines interleave with it |
| `RiderBoard` | `rider_arduino.ino` and its serial line | `air` is the lines sent and not yet obeyed, `lamp` and `arm` what the board drives; `Obey` = `handle()` |
| `RiderLoop` | `main()`'s loop as the rider and the operator see it: `StateManager` + `RiderBoard` + `update_fusion()` | the commands of a handler call wait in `led` and `servo` and are written one by one (`send_rider_command()` with its pause, `asleep`); `shown` is `dashboard.data["fusion"]`, with the ledgers it shares |
| `EmergencyDispatcher` | client, dispatcher thread, receiver, network | `pc` is the place in `run()`/`send()`; a socket is a number, a reply only reaches the socket that asked; `SendBreaks` is an error that is not retried; `accepted` counts the requests answered with `ok`. The pop-up that follows the answer is outside the repository |
| `OrderedHandoff` | abstract: a queue with one worker | refined by `EmergencyDispatcher` |
| `TrayAudioSession` | `TrayAudioSession`, the RPi loop, the trays, and the `PAYMENT_CONFIRMED` and `SYSTEM_RESET` that `main()` pushes | `Update` = `update()`; `Stabilise` lets the count of each product follow its tray on its own; the customer carries each product over (`Lift`, `inHand`, `Lay`) and bags it (`Bag`) at any pace, `idle` and `lot` are history of that; `PushPayment` may time out, `Restart` starts the program anew |
| `StableCounts` | `StableCounts` | every window of the counts of one product; `Reading` picks the most frequent with the code's tie rule. `TrayAudioSession` instantiates it for what `Stabilise` takes for granted |
| `*Proofs` | | the theorems about the module named, and their proofs; those about `ExitVerdict` are in `FusionLoopProofs` |
| `SumTheorems` | | sums over finite sets and lists a loop appends to, for the proofs |
| `MC*` | | the instances: the constants that are not written in the cfg |


Composition: `FusionLoop` EXTENDS `PosSession`, which EXTENDS `StateManager` and
instantiates `PosFirmware`; `FusionLoop` instantiates `RetailSubscriber` over its
own queues. `RiderLoop` EXTENDS `StateManager` and instantiates `RiderBoard`. The two
models of the loop share `StateManager` and split the rest: `FusionLoop` follows the
customers and leaves the rider's commands to `RiderLoop`, which in turn knows of a
customer only the red light of a critical exit.

The name of a definition is that of the function where there is one. Definitions
marked `\* mutant` are mistakes this code could contain. No specification uses
them: with one in the place of the definition after it, the property it belongs
to no longer holds, which shows that the property depends on that line.

### What the models abstract

- Time is counted in ticks. In `FusionLoop` a tick is about the exit grace (1.2 s);
  the association window (8 s) is one or two ticks, the shortest that still lets
  the orders race. In `TrayAudioSession` a tick is the settle time and the transfer
  timeout is two.
- Products are 1..NItems; names, wording, log lines and JSON are left out. A
  message that does not parse is dropped by the code and never sent in the models.
- In `FusionLoop` with `Prompt` the loop handles what has arrived within the tick,
  and a customer needs a tick to walk to the free kiosk and one to use it. Without
  `Prompt` the loop may be late without limit. The runs say which.
- The loop's writes block in the code (serial, ZeroMQ PUSH with an 0.8 s limit);
  in `FusionLoop` a write is part of the step. With `MayEnd` it may raise, or the operator may
  quit, and the loop ends: between a verdict and its emergency job (`BreakOff`) or with the
  round (`NextRound`). The loop's variables mean nothing after that.
- In `RiderLoop` a line that is written while the one before it has not been obeyed may be
  missed; `RIDER_COMMAND_GAP_SEC` (0.30 s) is long enough for a line to arrive and be handled. It is
  not while the board boots (`delay(500)`, `rider_arduino.ino:7`), which `RiderLoop` leaves out. A turn
  of the loop judges exits, takes orders and takes an event; each may find nothing to do, so
  between two of its steps each kind of step may come next.
- `ENTER` events of the subscriber only set the zone shown; they are left out.

## Runs

Passing runs.

| Run | Instance and bounds | Shows |
|---|---|---|
| `state_manager` | 2 products, quantity 1, orders {none, both, one}, ledgers to 1 | events in *any* order keep the ledgers typed, `TypeOK`; the light and the result tell the truth (`GreenMeansMatch`, `CompleteMeansMatch`); no boundary can undo a match under a green light (`GreenSessionSettled`); no pick is lost (`InventoryCoversPicks`) |
| `pos_session` | 2 products, 3 sessions, 2 scans of each; any PAY, COUNT or PAY_DONE line lost | `BooksMatchSales`: the summary alone restores the books; `ImplementsRegister`: refinement of `CashRegister`, whole sessions are booked and only the latest booking is amended |
| `pos_faults` | 3 sessions, 1 power loss, an order at any moment, nearly every line may be lost | `NoSpuriousBatch`, `PaidWasScanned` survive all of it |
| `retail_feed` | 2 customers, 2 products, counts that rise and fall, 1 loss, 2 repeats | `PicksAddUp`, `OneSessionEach`, `KioskFlagRight` |
| `fusion_two` | 2 customers in turn, 2 sessions, one of whom picks two and can only pay one; either may bypass; Vision up to one tick late; the first completion line may be lost | `VerdictIsRight`: no mix-up while PAY_DONE, its summary, POS, EXIT and the grace race, as long as Vision is no later than the grace; `CreditedWasSold`: no payment clears two exits |
| `fusion_faults` | 1 customer, 1 session without scans (what was paid does not matter here), 1 loss, 1 repeat, 1 reset, a loop without deadline that may end at any write or be quit, fairness | `OneVerdictPerCustomer`; `ExitIsSettled`: an exit the subscriber has queued is judged in the end, with its alarm, unless the operator resets or the loop ends |
| `rider_loop` | 2 products, 1 order (both or the first), picks of one or two pieces to 2 of a product, 1 scan of each, COUNT and SUMMARY lines that report none or both, customers who buy nothing, events of any kind, critical exits, 1 power loss of the board | `LampTellsTheTruth`, `ServoPointsAtNext`: what the rider sees once the commands have arrived; `DashboardAgrees`: what a browser sees at any moment but the handler call |
| `emergency` | 1 customer, 3 jobs, 1 retry, every reply may be lost, late or negative, every attempt may break off | `DeliveredMeansAccepted`, `AcceptedWithinAttempts`, and the refinement of `OrderedHandoff` with its liveness (`ImplementsHandoff`) |
| `tray` | 2 products; two on the tray for the first customer, one for the second; each lifted, carried, laid down, pocketed or bagged on its own, at any time; payments that do not fit; 1 mishap: a reset, a push that times out or a restart | `HonestNeverAccused`, `OneWarning`, `CompleteWasOnTray`, and, under fairness, `HonestIsCompleted`; `ReadingsFollowTrays`: over every window of up to 6 frames `StableCounts` does what `Stabilise` takes for granted |

Runs in which TLC finds that the code does not do what the repository says.

| Run | What happens | What the repository says |
|---|---|---|
| `fusion_empty` | DONE without a scan credits the sum of earlier customers, and the customer is CLEARED | `docs/SCENARIO_MATRIX.md:19`: `NO_PAYMENT` |
| `fusion_late_summary` | the PAY and COUNT lines of a scan are lost: the summary corrects the books, but the customer's payment was taken at PAY_DONE, and a paying customer is judged `NO_PAYMENT` | `docs/PROTOCOLS.md:195`: the detailed line reconciles quantities |
| `tray_missing` | all products are missing: an empty AFTER tray is never judged | `docs/SCENARIO_MATRIX.md:78`: `TRAY_MISMATCH` after the timeout |

More differences, met while modelling, have no run of their own; they follow from the
same modules.

- POS_BOOT forgets the session of a power loss and leaves its scans in `paid_items`
  (`main.py:67`: cumulative across *completed* sessions). `pos_faults` reaches this.
- A write between a critical verdict and its emergency job raises: the log (`main.py:549`), the
  rider's serial link (556) or the push to the tray (559, an error other than `Again`). The loop
  ends there (`docs/SCENARIO_MATRIX.md:18`: red light, warning *and* emergency). `ExitIsSettled`
  excludes this, quitting, and a reset, and nothing else: it is about exits the subscriber has
  queued and their jobs, not about what the dispatcher makes of a job.
- `fusion_two` with `WireDelay = 2` violates `VerdictIsRight`: a payment that waits
  for its POS transition is used up by the exit of a customer who bypassed the kiosk.
  `fusion_pc/README.md:77` says the association window handles the opposite order;
  section 6 of the scenario matrix limits the demonstration to one correlation at a
  time, which the loop does not enforce.
- With a grace of two ticks and messages one tick late `VerdictIsRight` is violated as well:
  the customer before waits in the grace and is still the active one when the next customer pays,
  whose POS is on the way; the payment is credited to the wrong exit. A longer grace than 1.2 s would
  not only delay a verdict.
- A lost USER line leaves the mode as it was: if that is not CUSTOMER, the session is
  credited to nobody and the customer is judged unpaid. `fusion_two` loses no USER line for this reason.
- `SetOrder` in the middle of a customer session switches the mode, so the session
  commits in RIDER mode and is no payment batch (`docs/PROTOCOLS.md:195`: one batch).
- A pick that goes past the order (`state_manager.py:75`, RED) moves no servo. The subscriber
  sends one event for all pieces of a product (`retail_zmq.py:160-168`), so the pick that
  completes a product may go past it, and the servo stays at that product while others are missing
  (`docs/SCENARIO_MATRIX.md:51`: guide the next missing item). `ServoPointsAtNext` allows
  exactly that, `OverPicked`, and no other position.
- The rider's board boots dark and at home and nothing sends it the last commands again.
- Between `handle()` and `update_fusion()` a browser sees the old result over new ledgers,
  which `update_fusion()` shares (`ops_dashboard.py:14`); `DashboardAgrees` excludes this window.
- In `EmergencyDispatcher` a reply lost after the receiver accepted the request makes the retry
  raise the alarm again (`vision/contracts/EMERGENCY_ZMQ.md:144`: no repeated pop-up). No
  property forbids it; `AcceptedWithinAttempts` bounds it.
- In `TrayAudioSession` the transfer timeout runs from the moment the BEFORE tray is empty, and a
  partial AFTER tray is judged when it is over. An honest customer who still carries the
  last product then, or who bagged one before the whole lot had settled, is warned about
  (`single_slot_counter_zmq_audio.py:72-76`). `honest` ends there (`Late`), so
  `HonestNeverAccused` is about customers who are in time.
- In `TrayAudioSession` only `Reset` makes `AnnounceScan` true again: after the first
  payment nothing starts a scan (`docs/SCENARIO_MATRIX.md:74`: `SCANNING`).
- A `PAYMENT_CONFIRMED` that times out while the payment before it is unjudged lets the
  tray hold an honest customer against the older payment; `honest` excludes this case.
- Nothing raises the dashboard alert of a tray mismatch (`docs/SCENARIO_MATRIX.md:77`):
  the warning is an audio file on the Raspberry Pi only.

### Why the bounds are enough

Two products separate "each product" from "the total" and let two picks or scans
interleave. A ledger entry matters only as zero, below, equal to or above the
order, so orders of 0 and 1 and entries to 1 or 2 reach each case; three sessions
put a completed, a given-up and an open session after one another. Two customers
are one more than the loop can tell apart; in `fusion_faults` one is enough, as a
verdict too many or too few concerns one exit, and `NobodyJudgedTwice` covers any
number. Three jobs put one in the thread, one in the queue and one behind it. In `rider_loop` a
pick of two pieces takes one or two past an order of one; the lamp depends on whether the checked
ledger equals the order, so one scan of each product is enough, with `SUMMARY` lines to correct it, and
the ledgers of customers (`MaxBought`) are in no property: customers buy nothing there. One order
is enough in `rider_loop`, as it meets every state events lead to; a second one differs
only in the ledgers it replaces. One power loss can fall between any two commands. One
mishap of the tray can fall anywhere between two payments. `RoomAssumption` makes
`MaxCount` large enough that the ledgers' bound never stops a line from being handled.
Deadlock checking is off where customers, sessions, jobs or payments run out by a
bound, and on for `state_manager` and `rider_loop`.


### Fairness

- `EmergencyDispatcher`: weak fairness of the thread. Every call in `run()` has a
  timeout. Nothing is assumed of the receiver or the network.
- `FusionLoop` (`FairFusionSpec`): weak fairness of the loop, of each reader thread
  and of time. The threads are preemptive and block only with timeouts
  (`event_queue.get(timeout=0.2)`, `poll(300)`). Customers and operators are not fair.
- `TrayAudioSession` (`FairSpec`): weak fairness of the camera loop (`CameraLoop`: a command, a
  frame, a count that stabilises) and of time. The loop never blocks; the customer is not fair.

## Proofs

TLAPS checks these theorems for every value of the constants: any number of products,
customers and jobs, any delays, any window of frames and any bound on faults. They assume
the named ASSUMEs of the modules, which TLC evaluates in the runs, and the hypotheses named
under "Hypotheses".

| Module | Theorem | States | Invariant it rests on |
|---|---|---|---|
| `StateManagerProofs` | `TypeCorrect` | `TypeOK` | inductive as it stands: ledgers stay natural because every subtraction goes through `NonNegative` |
| | `GreenOnlyOnMatch`, `CompleteOnlyOnMatch`, `GreenSessionIsSettled` | the invariants of those names | `Safe`. `GreenMeansMatch` alone is not inductive: a SESSION_RESET takes the scans of an uncommitted session out of the checked ledger and leaves the light alone. `Match` adds that no such scans are left, which needs the types |
| | `InventoryCovers` | `InventoryCoversPicks` | itself |
| `PosSessionProofs` | `NoBatchWithoutSession`, `NothingPaidUnscanned` | `NoSpuriousBatch`, `PaidWasScanned` | `Past` and `BooksWithin`, see "The checkout's past" |
| | `BooksAreTheSales` | `BooksMatchSales` | `InStep`: `Past` and `Exact` |
| | `BooksAreARegister` | the refinement of `CashRegister` (`ImplementsRegister`) | `InStep`; every step maps to a booking, an amendment or a stutter |
| `FusionLoopProofs` | `VerdictByTable`, `AlarmIffUnpaid` | the code of an exit is that of exactly its row of the table; an exit is critical exactly when some product is unpaid | none: `ExitCode` is a function |
| | `NobodyJudgedTwice` | `OneVerdictPerCustomer` | `OnePlace`: the exit of a customer is in the session queue, among the exits in grace, or judged, and in one of them only once; and the subscriber has seen it, so that a repetition is dropped |
| | `CreditsAreSales` | `CreditedWasSold` | `Crediting`, see "The credits" |
| | `VerdictsAreRight` | `VerdictIsRight` | `Matching`, see "The verdicts" |
| `RetailFeedProofs` | `OneSessionForEach`, `KioskFlagTrue` | `OneSessionEach`, `KioskFlagRight` | `Remembered`: the keys seen are those of the transitions received, with one session each; `WireOrdered`: a customer's POS is before the EXIT |
| | `PicksAreCounted` | `PicksAddUp` | `Adding`: until the exit, a customer's last counts are the largest received, and the picks in the queue sum to those of all customers |
| `RiderLoopProofs` | `LampIsTrue`, `DashboardIsTrue` | `LampTellsTheTruth`, `DashboardAgrees` | `LampInv`: the pause keeps at most one line on the way (`Paused`), so none is missed; if the lamp is green or will be once what is on the way and unsent has arrived (`Coming`), there is a match |
| | `ServoIsRight` | `ServoPointsAtNext` | `ArmInv`: `ComingArm`, where the arm will be once what is on the way and unsent has arrived, is the first missing product or one of which too many were taken, whenever one is missing and the board has lost no power |
| `EmergencyProofs` | `TypeCorrect` | `TypeOK` | `Typed` |
| | `DeliveredTruly` | `DeliveredMeansAccepted` | `Owned`: a socket belongs to one attempt, and a positive reply on it follows an acceptance of that attempt's job |
| | `HandsOffInOrder` | refinement of `OrderedHandoff` (the safety half of `ImplementsHandoff`) | `Queued`: reported, taken and waiting jobs are the submitted ones, in order; every step maps to a step of the abstract worker or a stutter |
| | `AcceptedBounded` | `AcceptedWithinAttempts` | `Counted`: requests accepted and requests on the way are no more than the attempts made |
| `TrayProofs` | `OneWarningEach` | `OneWarning` | `WarnedMeansClosed` |
| | `CompleteWasThere` | `CompleteWasOnTray` | `SteadyMeansSettled`: a reading that was steady for a tick is what lay there when the tick ended |
| | `HonestCustomer` | `HonestNeverAccused` | `Honesty`, see "The honest customer" |
| | `ReadingsFollow` | `ReadingsFollowTrays` | `TraysBounded`: no tray holds more of a product than the windows speak of; the rest is `ReadingFollows`, about `StableCounts` alone |

### The checkout's past

fusion_pc is behind the checkout by the lines that wait, so no invariant over the two
states alone is inductive. A *stamp* is what the checkout's state was when a line had
been printed, reduced to the place in `pos_run_forever()`, the user, the counters,
whether the COUNT of the last scan has been printed (`told`) and the history. `Past`
says that stamps lead through the lines waiting, one `Prints` step per line, up to the
checkout's state now; printing extends it, handling or losing the oldest line drops its
first stamp. What fusion_pc knows is then related to the *first* stamp only and must be
preserved by the handling of one line (`BooksWithin`, `Exact`). Properties about the
present follow because histories only grow, or because the queue is empty and the first
stamp is the last.

### The credits

`CreditedWasSold` needs the same through two queues, `event_queue` behind the serial line,
with the picks of the subscriber in between: `Trails` is a past (`Trail`) through each,
joined where the serial reader is. In a trail lines may have been lost between two stamps (`Skips`).
`Tally` says that during a session fusion_pc counts what the checkout counts.
`Paying` bounds `Credited`, the sum of what has been judged (`Spent`), of the payments
that wait for their customers' exits (`Held`) and of the unassigned payment, by what is
`Due`: the sales at the first stamp, less the session whose completion has not been
handled. A payment moves between these accounts; it is never copied.

### The verdicts

An exit is judged by the payments of its customer, and nothing in the code says whose a
payment is but the time at which it is handled. `VerdictIsRight` is about `truePaid`, what
the customer did pay, so `Matching` has to follow each payment from the DONE key to the
verdict, against everything that may overtake it.

- *The line.* The sessions in the queue and, behind them, the messages of Vision still to come
  (`Coming`: a repetition at the head does not count) are one list of places (`Lists`). Receiving
  a message leaves it alone; only publishing appends and only the loop removes. `Ordered`
  and `Marks` say what the places and the subscriber's memory tell of the store. A place
  is *fresh* until a tick passes over it.
- *Who is called.* The customer at the kiosk is the last one called (`Last`): the last POS in
  the line is this customer's, or none is left and the customer is active. Once a tick has
  passed, as it must before DONE is pressed, no other customer's POS is left, and whoever else is still
  active is about to end (`Called`). This is where the delay of Vision and the grace meet.
- *The debit.* Customers who have paid and are neither credited nor judged are in debit
  (`Debit`); there is one at most, who stays the last one called and whose exit is not
  due, until the payment is booked (`Poised`).
- *The trails.* Where the payment is, the trails of "The credits" say, exactly this time: the
  completions handled (`Handled`) are the sessions finished, and what is due is what was sold,
  but for the payment in transit (`Even`). For that the first stamp must know the counts
  themselves and not only a bound (`Whole`), which is why a DONE comes after its COUNT
  (`told`) and why not both lines of a payment may be lost.

When a completion is handled, `Even` gives the amount and `Poised` the customer: the
payment goes to the active customer, who is the one in debit, or waits unassigned while
that customer's POS is in the line (`Money`). A tick cannot pass while a customer is in
debit: the loop is prompt and such a POS is no longer fresh, so it has been taken. TLC
checked each part on instances of `fusion_two` before it was proved.

### The honest customer

The *lot* is what the customer had placed when paying; the trays and the hand hold no more of
it (`TraysHold`), and less once something is bagged. While an honest customer transfers, the last
payment still queued, or the one the session waits with when none is queued, is the lot
(`HonestLot`). A steady reading is therefore of an empty tray, of the whole lot, or of a true part
of it, whose total is lower than the lot's (`LessTotal`). A part is judged when the transfer
timeout is over, so the invariant has to know that it is not: the session has seen the BEFORE tray empty
for no longer than it is (`EmptyNoticed`, `EmptyTimed`: `empty <= idle`), and a tick that
ends with `idle` at the timeout and a part on AFTER ends `honest` (`Late`). Between two
ticks the part read has an age below the timeout (`Plausible`).

### Hypotheses

Beyond the ASSUMEs of the modules, the theorems assume no more than what follows. Each
hypothesis is there because the property is false without it, but for the finiteness of
the customers, which the sums over them need.

- `NoBatchWithoutSession`, `NothingPaidUnscanned`: no USER line is lost. With one lost, a
  rider's session is handled in the mode of the customer before, and its scans are booked as
  a customer's.
- `BooksAreTheSales`, `BooksAreARegister` (`OnlyProgressLost`): only PAY, COUNT and
  PAY_DONE lines are lost, the board keeps its power, no order comes in the middle of a
  session. A lost SUMMARY or a power loss after PAY_DONE leaves lost scans uncorrected; an
  order changes the mode of an open session.
- `CreditsAreSales` (`EveryPaymentTold`): only COUNT, PAY_DONE and SUMMARY lines are lost,
  sessions have scans, the operator does not reset, a counter of the checkout does not wrap,
  and the customers are finitely many. A reset between PAY_DONE and the summary credits
  a payment twice, and a session without scans, or whose scans are all lost or have
  wrapped to zero, is credited with the sum of earlier customers (`fusion_empty`).
- `VerdictsAreRight` (`Timely`): besides `EveryPaymentTold`, COUNT lines and messages of
  Vision are not lost, and of PAY_DONE and SUMMARY one kind of line arrives; the loop is prompt;
  there is a grace, and a message of Vision arrives in the tick in which it is sent or, with a
  grace of one tick, in the next. `NoCustomer` is no customer, and picks are counts. Run `fusion_two` is an
  instance. TLC finds a violation when any one of these is dropped: a second scan's
  COUNT lost (PAY_DONE then credits the count of the first), both completion lines
  lost, a message lost, no grace, a loop that is late, a delay of two ticks (with a grace of
  one, two or three), a grace of two with a delay of one. How long the association window
  is does not matter, nor how many repeated messages come.

New ASSUMEs say only that the tray's number of frames, bounds and counts are natural
numbers (`FramesAssumption`), and that the subscriber's products, customers and picks are
finite sets and counts (`ItemsAssumption`, `CustomersAssumption`, `PicksAssumption`).

### Sums and loops

The models add with the folds of the community modules and with recursive functions, and
list what a Python loop emits with a recursive function. The library's induction theorems take
an operator as a parameter, which these provers cannot instantiate; `SumTheorems` and
`TrayProofs` go through the least number of a set instead: the set of all places at which
a claim fails has a least one (`LeastNumber`, `LeastOne`), the claim holds before
it, hence at it. `SumChanges` says that changing one term changes the sum by the difference,
`WalkExists` what a loop over 1..N appends.

### Only model-checked

- Liveness (`ExitIsSettled`, `HonestIsCompleted`, the fair half of `ImplementsHandoff`):
  fairness and ENABLED are beyond the prover.

## Not modelled

- Image processing of the tray (its counts are an input), register-level I/O of the
  boards, configuration, logging, the mocks and tools, the calibrator: no state of the
  protocol is in them.
- Of `main()`: the Raspberry Pi's status messages (shown only), the manual `audio`,
  `emergency`, `status`, `rpi` and `vision` actions (each one call without an effect
  on the loop's state), the audio command of a critical exit, and the shutdown except
  for the dispatcher's, which `EmergencyDispatcher` has.
- Of the dashboard: alerts, timeline and the HTTP page (output).
- Of the tray program: the audio player and the published status, which nothing reads
  back into the session.
- Of the rider's board: PING, GET_STATUS and the acknowledgements, which fusion_pc does
  not read; the board's USB input, which takes the same commands from a person.
- The eight-bit wrap of the checkout's counters is in `PosFirmware` (`CountLimit`), but the
  runs stop far below 256 scans.
- Ctrl+C between the commands of one event: the program has ended, and nothing promises
  anything of the lamp.
- The pop-up of an alarm on the receiver's side, which follows its answer.

## Plan

The order of the work: the rules that decide (`StateManager`), what feeds them (checkout,
line), what judges with them (loop, verdict, subscriber), the alarm path and the tray,
then the rider's guide and the dashboard, and the proofs of each part. What is left:

1. `FusionLoop`'s emergency jobs handed to `EmergencyDispatcher`, and its payments to
   `TrayAudioSession`, in one composition; the interfaces (`emergencies`, `PushPayment`)
   are modelled on both sides.
