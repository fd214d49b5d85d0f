-------------------------- MODULE TrayAudioSession --------------------------
(***************************************************************************)
(* The checkout tray of the Raspberry Pi: class TrayAudioSession and the   *)
(* main loop of edge/rpi_tray/single_slot_counter_zmq_audio.py, with the   *)
(* two trays the camera watches and the commands fusion_pc pushes.         *)
(*                                                                         *)
(* Time is counted in ticks; the two monotonic-clock fields are kept as    *)
(* ages.  Of the audio only the mismatch warnings are kept: nothing reads  *)
(* the audio queue but the player.  A mishap is a reset by the operator, a *)
(* push that times out, or a restart of the program on the Raspberry Pi.   *)
(***************************************************************************)
EXTENDS Integers, Sequences

CONSTANTS
    NItems,
    Settle,      \* settle_sec in ticks
    Timeout,     \* missing_timeout_sec in ticks
    StableFrames, \* stable_frames: the window of StableCounts
    Payments,    \* counts a payment may have that is not what was placed
    MaxOnTray,   \* bound on the products the first customer places; each
                 \* later one places one fewer
    MaxPayments, \* bound on the payments
    MaxMishaps   \* bound on the mishaps

ASSUME ItemsAssumption == NItems \in Nat \ {0}
ASSUME PaymentsAssumption == Payments \subseteq [1..NItems -> Nat]
ASSUME FramesAssumption == StableFrames \in Nat /\ MaxOnTray \in Nat
ASSUME TimingAssumption ==
    Settle \in Nat \ {0} /\ Timeout \in Nat /\ Settle <= Timeout

VARIABLES
    (* The trays and the customer. *)
    onBefore, onAfter,      \* products on the trays
    inHand,                 \* products lifted from BEFORE and not yet laid down
    phase,                  \* placing or moving
    (* What the loop reads and receives. *)
    readBefore, readAfter,  \* stabilised counts of StableCounts
    commands,               \* messages on the PULL socket
    framed,                 \* a frame was handled since the readings changed
    (* TrayAudioSession. *)
    expected, scanAnnounced, resultAnnounced, result,
    signature,              \* last_after_signature
    steady,                 \* ticks since last_after_change_at
    empty,                  \* ticks since before_empty_since; Never if unset
    (* History. *)
    payments, mishaps,      \* bounds
    warnings,               \* mismatches announced since the last command
    afterAtTick,            \* onAfter when the last tick ended
    lot,                    \* onBefore when the customer paid
    idle,                   \* ticks since the customer emptied the BEFORE tray
    honest                  \* every payment was what lay there, was transferred in
                            \* time and was pushed, or needed not be

trayVars == <<onBefore, onAfter, inHand, phase>>
readVars == <<readBefore, readAfter>>
sessionVars == <<expected, scanAnnounced, resultAnnounced, result>>
ageVars == <<signature, steady, empty>>
countVars == <<payments, mishaps>>
customerVars == <<lot, idle, honest>>
vars == <<trayVars, readVars, commands, framed, sessionVars, ageVars, countVars,
          warnings, afterAtTick, customerVars>>

Items == 1..NItems
Zero == [i \in Items |-> 0]
Never == -1
None == <<>>
Total(counts) == LET sum[i \in 0..NItems] == IF i = 0 THEN 0 ELSE sum[i - 1] + counts[i]
                 IN  sum[NItems]

Init ==
    /\ onBefore = Zero /\ onAfter = Zero /\ inHand = Zero /\ phase = "placing"
    /\ readBefore = Zero /\ readAfter = Zero /\ commands = <<>> /\ framed = FALSE
    /\ expected = None /\ scanAnnounced = FALSE /\ resultAnnounced = FALSE
    /\ result = "WAIT_BEFORE"
    /\ signature = None /\ steady = 0 /\ empty = Never
    /\ payments = 0 /\ mishaps = 0 /\ warnings = 0 /\ afterAtTick = Zero
    /\ lot = Zero /\ idle = 0 /\ honest = TRUE

-----------------------------------------------------------------------------
(* The customer at the trays. *)

AtTrays == UNCHANGED <<readVars, framed, sessionVars, ageVars, warnings, afterAtTick>>
Mishap == mishaps < MaxMishaps /\ mishaps' = mishaps + 1

More(counts, i) == [counts EXCEPT ![i] = @ + 1]
Fewer(counts, i) == [counts EXCEPT ![i] = @ - 1]

Place(i) ==
    /\ phase = "placing" /\ Total(onBefore) + payments < MaxOnTray
    /\ onBefore' = More(onBefore, i)
    /\ UNCHANGED <<onAfter, inHand, phase, commands, countVars, customerVars>> /\ AtTrays

(* A payment has not been judged, or has not even arrived. *)
Unjudged == commands # <<>> \/ (expected # None /\ ~resultAnnounced)

(* RpiCommandLink.send() of a PAYMENT_CONFIRMED; a send that times out is  *)
(* not repeated.  The payment before it is then what the tray goes by.     *)
PushPayment(counts) ==
    \/ /\ commands' = Append(commands, [command |-> "PAYMENT_CONFIRMED", expected |-> counts])
       /\ honest' = (honest /\ counts = onBefore)
       /\ UNCHANGED mishaps
    \/ /\ Mishap
       /\ honest' = (honest /\ counts = onBefore /\ ~Unjudged)
       /\ UNCHANGED commands

(* The customer pays and fusion_pc pushes the payment. *)
Pay ==
    /\ phase = "placing" /\ onBefore # Zero /\ payments < MaxPayments
    /\ \E counts \in Payments \union {onBefore} : PushPayment(counts)
    /\ payments' = payments + 1
    /\ phase' = "moving" /\ lot' = onBefore /\ idle' = 0
    /\ UNCHANGED <<onBefore, onAfter, inHand>> /\ AtTrays

(* The transfer: a product is in the hand for as long as the customer      *)
(* likes.                                                                  *)
Lift(i) ==
    /\ phase = "moving" /\ onBefore[i] > 0
    /\ onBefore' = Fewer(onBefore, i) /\ inHand' = More(inHand, i)
    /\ UNCHANGED <<onAfter, phase, commands, countVars, customerVars>> /\ AtTrays

Lay(i) ==
    /\ inHand[i] > 0
    /\ inHand' = Fewer(inHand, i) /\ onAfter' = More(onAfter, i)
    /\ UNCHANGED <<onBefore, phase, commands, countVars, customerVars>> /\ AtTrays

(* A dishonest customer pockets a product. *)
Pocket(i) ==
    /\ inHand[i] > 0
    /\ inHand' = Fewer(inHand, i)
    /\ honest' = FALSE
    /\ UNCHANGED <<onBefore, onAfter, phase, commands, countVars, lot, idle>> /\ AtTrays

(* The customer bags the products one by one, at any time, *)
Bag(i) ==
    /\ phase = "moving" /\ onAfter[i] > 0
    /\ onAfter' = Fewer(onAfter, i)
    /\ UNCHANGED <<onBefore, inHand, phase, commands, countVars, customerVars>> /\ AtTrays

(* and leaves cleared trays to the next one. *)
Leave ==
    /\ phase = "moving" /\ onBefore = Zero /\ inHand = Zero /\ onAfter = Zero
    /\ phase' = "placing" /\ lot' = Zero /\ idle' = 0
    /\ UNCHANGED <<onBefore, onAfter, inHand, commands, countVars, honest>> /\ AtTrays

(* The operator resets (reset or rpi-reset) and fusion_pc pushes           *)
(* SYSTEM_RESET, which may time out as well.                               *)
PushReset ==
    /\ Mishap
    /\ \/ commands' = Append(commands, [command |-> "SYSTEM_RESET"])
       \/ UNCHANGED commands
    /\ UNCHANGED <<trayVars, readVars, framed, sessionVars, ageVars, payments, warnings,
                   afterAtTick, customerVars>>

-----------------------------------------------------------------------------
(* The loop on the Raspberry Pi. *)

(* StableCounts.update(): the count of each product follows the tray on    *)
(* its own, when the new value is the most frequent one of the window.     *)
Stabilise(i) ==
    /\ \/ readBefore[i] # onBefore[i]
          /\ readBefore' = [readBefore EXCEPT ![i] = onBefore[i]] /\ UNCHANGED readAfter
       \/ readAfter[i] # onAfter[i]
          /\ readAfter' = [readAfter EXCEPT ![i] = onAfter[i]] /\ UNCHANGED readBefore
    /\ framed' = FALSE
    /\ UNCHANGED <<trayVars, commands, sessionVars, ageVars, countVars, warnings, afterAtTick,
                   customerVars>>

(* reset(), and the constructor *)
Reset ==
    /\ expected' = None /\ scanAnnounced' = FALSE /\ resultAnnounced' = FALSE
    /\ result' = "WAIT_BEFORE"
    /\ signature' = None /\ steady' = 0 /\ empty' = Never

PaymentKeepsResult(counts) ==  \* mutant: the result of the last payment stays announced
    /\ expected' = counts /\ result' = "WAIT_TRANSFER"
    /\ empty' = Never /\ steady' = 0
    /\ UNCHANGED <<resultAnnounced, scanAnnounced, signature>>

(* payment_confirmed(): a payment of nothing is ignored. *)
PaymentConfirmed(counts) ==
    \/ /\ counts # Zero
       /\ expected' = counts /\ resultAnnounced' = FALSE /\ result' = "WAIT_TRANSFER"
       /\ empty' = Never /\ steady' = 0
       /\ UNCHANGED <<scanAnnounced, signature>>
    \/ counts = Zero /\ UNCHANGED <<sessionVars, ageVars>>

HandleCommand ==
    /\ commands # <<>>
    /\ commands' = Tail(commands)
    /\ LET c == Head(commands) IN
         \/ c.command = "SYSTEM_RESET" /\ Reset
         \/ c.command = "PAYMENT_CONFIRMED" /\ PaymentConfirmed(c.expected)
    /\ warnings' = 0
    /\ framed' = FALSE
    /\ UNCHANGED <<trayVars, readVars, countVars, afterAtTick, customerVars>>

(* The program is started anew: the first frame fills the empty windows of *)
(* StableCounts, and the messages the old one had received are gone; those *)
(* still queued by fusion_pc are not.                                      *)
Restart ==
    /\ Mishap
    /\ Reset
    /\ readBefore' = onBefore /\ readAfter' = onAfter
    /\ \E n \in 0..Len(commands) : commands' = SubSeq(commands, n + 1, Len(commands))
    /\ framed' = FALSE
    /\ UNCHANGED <<trayVars, payments, warnings, afterAtTick, customerVars>>

(* update(), the parts in their order. *)

AnnounceScan ==
    expected = None /\ readBefore # Zero /\ ~scanAnnounced

(* Ages of the AFTER reading and of the empty BEFORE tray after this frame. *)
SteadyNow == IF readAfter # signature THEN 0 ELSE steady
EmptyNow == IF readBefore # Zero THEN Never ELSE IF empty = Never THEN 0 ELSE empty

UnsettledVerdict ==  \* mutant: judges a reading that has not settled
    IF readBefore # Zero \/ readAfter = Zero THEN "NONE"
    ELSE IF Total(readAfter) = Total(expected)
         THEN IF readAfter = expected THEN "TRAY_COMPLETE" ELSE "TRAY_MISMATCH"
    ELSE IF EmptyNow >= Timeout THEN "TRAY_MISMATCH"
    ELSE "NONE"

EarlyTimeout ==  \* mutant: the transfer timeout is a tick short
    IF readBefore # Zero \/ readAfter = Zero \/ SteadyNow < Settle THEN "NONE"
    ELSE IF Total(readAfter) = Total(expected)
         THEN IF readAfter = expected THEN "TRAY_COMPLETE" ELSE "TRAY_MISMATCH"
    ELSE IF EmptyNow >= Timeout - 1 THEN "TRAY_MISMATCH"
    ELSE "NONE"

(* The outcome of a frame while a payment waits to be judged. *)
Verdict ==
    IF readBefore # Zero \/ readAfter = Zero \/ SteadyNow < Settle THEN "NONE"
    ELSE IF Total(readAfter) = Total(expected)
         THEN IF readAfter = expected THEN "TRAY_COMPLETE" ELSE "TRAY_MISMATCH"
    ELSE IF EmptyNow >= Timeout THEN "TRAY_MISMATCH"
    ELSE "NONE"

JudgeAgain ==  \* mutant: a result does not end the judging
    /\ empty' = EmptyNow
    /\ result' = IF Verdict = "NONE" THEN result ELSE Verdict
    /\ warnings' = IF Verdict = "TRAY_MISMATCH" THEN warnings + 1 ELSE warnings
    /\ UNCHANGED resultAnnounced

Judge ==
    /\ empty' = EmptyNow
    /\ \/ Verdict = "NONE" /\ UNCHANGED <<result, resultAnnounced, warnings>>
       \/ /\ Verdict # "NONE"
          /\ result' = Verdict /\ resultAnnounced' = TRUE
          /\ warnings' = IF Verdict = "TRAY_MISMATCH" THEN warnings + 1 ELSE warnings

Update ==
    /\ scanAnnounced' = (scanAnnounced \/ AnnounceScan)
    /\ signature' = readAfter /\ steady' = SteadyNow
    /\ \/ /\ expected = None \/ resultAnnounced
          /\ result' = IF AnnounceScan THEN "SCANNING" ELSE result
          /\ UNCHANGED <<resultAnnounced, empty, warnings>>
       \/ expected # None /\ ~resultAnnounced /\ Judge
    /\ UNCHANGED expected

(* One camera frame: the loop has drained the commands before it. *)
Frame ==
    /\ commands = <<>>
    /\ Update
    /\ framed' = TRUE
    /\ UNCHANGED <<trayVars, readVars, commands, countVars, afterAtTick, customerVars>>

Older(age) == IF age < Timeout THEN age + 1 ELSE Timeout

(* The customer emptied the BEFORE tray the whole timeout ago, and a part  *)
(* of the lot lies on AFTER: the rest is in the hand or bagged already.    *)
IdleNow == IF phase = "moving" /\ onBefore = Zero THEN Older(idle) ELSE 0
Late == /\ IdleNow = Timeout /\ onAfter \notin {Zero, lot}
        /\ expected # None /\ ~resultAnnounced

(* Time passes.  Frames come many to a tick: by its end the readings have  *)
(* stabilised, the commands are drained and a frame was handled.           *)
Tick ==
    /\ framed /\ commands = <<>>
    /\ readBefore = onBefore /\ readAfter = onAfter
    /\ steady' = Older(steady)
    /\ empty' = IF empty = Never THEN Never ELSE Older(empty)
    /\ framed' = FALSE
    /\ afterAtTick' = onAfter
    /\ idle' = IdleNow /\ honest' = (honest /\ ~Late)
    /\ UNCHANGED <<trayVars, readVars, commands, sessionVars, signature, countVars, warnings,
                   lot>>

Customer ==
    \/ \E i \in Items : Place(i) \/ Lift(i) \/ Lay(i) \/ Pocket(i) \/ Bag(i)
    \/ Pay
    \/ Leave

CameraLoop ==
    \/ \E i \in Items : Stabilise(i)
    \/ HandleCommand
    \/ Frame

Next ==
    \/ Customer
    \/ PushReset
    \/ CameraLoop
    \/ Restart
    \/ Tick

Spec == Init /\ [][Next]_vars

(* The camera loop never stops, and time passes.  A frame of what the last *)
(* one showed changes nothing, so the loop gets to every reading.          *)
FairSpec ==
    /\ Spec
    /\ WF_vars(CameraLoop)
    /\ WF_vars(Tick)

-----------------------------------------------------------------------------
(* Properties. *)

(* While customers pay for what lies on the tray and transfer all of it in *)
(* time, nobody is warned about, although the two trays and every product  *)
(* in them stabilise at different moments, products are carried and bagged *)
(* one by one, the payment arrives late, resets overtake it, the program   *)
(* restarts, and the customer before left without being judged; nor if a   *)
(* push was lost while no earlier payment waited.  In time means never     *)
(* Late: whoever still carries a product, or has bagged one before the     *)
(* judgement and not the others, when the timeout is over IS warned about. *)
HonestNeverAccused == honest => result # "TRAY_MISMATCH"

(* An honest transfer is found complete, unless the customer bags a        *)
(* product first or there was a mishap.                                    *)
HonestIsCompleted ==
    (phase = "moving" /\ onAfter = lot)
        ~> (result = "TRAY_COMPLETE" \/ onAfter # lot \/ mishaps > 0 \/ ~honest)

(* A payment is warned about at most once, whatever happens on the trays.  *)
OneWarning == warnings <= 1

(* TRAY_COMPLETE is announced only if, when the last tick ended, the AFTER *)
(* tray really held the payment: no transient reading completes one.       *)
CompleteWasOnTray ==
    [][ result' = "TRAY_COMPLETE" /\ result # "TRAY_COMPLETE" => afterAtTick = expected ]_vars

Camera == INSTANCE StableCounts WITH WindowSize <- StableFrames, MaxCount <- MaxOnTray

(* What Stabilise takes for granted of StableCounts.update(): each count a *)
(* tray really has is read once it fills half of the window, ties and      *)
(* misread frames of before notwithstanding, and is then not left again.   *)
ReadingsFollowTrays ==
    \A i \in Items : Camera!Follows[onBefore[i]] /\ Camera!Follows[onAfter[i]]

(* Products that are missing after the transfer timeout are a mismatch     *)
(* (docs/SCENARIO_MATRIX.md, checkout tray scenarios).                     *)
Missing == result = "WAIT_TRANSFER" /\ phase = "moving"
           /\ onBefore = Zero /\ inHand = Zero /\ Total(onAfter) < Total(expected)
MissingIsNoticed == [](Missing => <>~Missing)
=============================================================================
