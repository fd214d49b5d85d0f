----------------------------- MODULE RiderBoard -----------------------------
(***************************************************************************)
(* The rider's guide: rider_arduino.ino behind its Bluetooth link.  A      *)
(* command is one line.  The receiver of the board can miss a line that    *)
(* arrives while it is still busy with the one before                      *)
(* (docs/DEVELOPMENT_SUMMARY.md, section 4).  Nothing fusion_pc does       *)
(* depends on the acknowledgements, so they are left out; fusion_pc sends  *)
(* no line the board does not know, and none longer than its buffer.       *)
(***************************************************************************)
EXTENDS Sequences

CONSTANT Home

VARIABLES
    air,   \* lines written to the link and not yet handled
    lamp,  \* ls: the LED that is lit
    arm    \* ss: where the servo points

Led(colour) == [device |-> "LED", to |-> colour]
Servo(position) == [device |-> "SERVO", to |-> position]
ResetLine == [device |-> "RESET", to |-> Home]

(* setup() *)
Init == air = <<>> /\ lamp = "OFF" /\ arm = Home

(* One line leaves fusion_pc; behind another one it may be missed. *)
Write(line) ==
    /\ air' = Append(air, line) \/ (air # <<>> /\ air' = air)
    /\ UNCHANGED <<lamp, arm>>

ResetServoOnly(line) ==  \* mutant: RESET leaves the LED lit
    \/ line.device = "LED" /\ lamp' = line.to /\ UNCHANGED arm
    \/ line.device \in {"SERVO", "RESET"} /\ arm' = line.to /\ UNCHANGED lamp

(* handle() *)
Obey(line) ==
    \/ line.device = "LED" /\ lamp' = line.to /\ UNCHANGED arm
    \/ line.device = "SERVO" /\ arm' = line.to /\ UNCHANGED lamp
    \/ line.device = "RESET" /\ lamp' = "OFF" /\ arm' = Home

(* input() completes a line. *)
TakeLine ==
    /\ air # <<>>
    /\ Obey(Head(air))
    /\ air' = Tail(air)

(* The board loses power and boots; what is on the way to it is lost. *)
PowerCycle == air' = <<>> /\ lamp' = "OFF" /\ arm' = Home
=============================================================================
