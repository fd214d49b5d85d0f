----------------------------- MODULE PosFirmware -----------------------------
(***************************************************************************)
(* The ATmega128 checkout (firmware/atmega128_pos/src/pos.c) as seen on    *)
(* its serial line: pos_run_forever() loops over sessions, and every step  *)
(* of a session prints lines.  uart holds the lines printed and not yet    *)
(* handled by fusion_pc, oldest first.  Progress lines (EVT, HELLO) change *)
(* nothing that is modelled and are left out.                              *)
(***************************************************************************)
EXTENDS Integers, Sequences

CONSTANTS
    NItems,       \* number of products
    MaxSessions,  \* bound on the sessions started
    MaxScans,     \* bound on the scans of one product in a session
    PowerCuts     \* bound on the power losses

VARIABLES
    pc,          \* select: wait_person/select_user; product: the scan loop;
                 \* summary: between the two lines of finish()
    user,        \* g_pos_data.user_mode
    count,       \* g_pos_data.count_a, count_b, count_c (uint8_t)
    uart,        \* lines on the way to fusion_pc
    sessions,    \* history: sessions started (a bound)
    cuts,        \* history: power losses (a bound)
    finished,    \* history: sessions finished, by user
    sold,        \* history: scans of the finished sessions, by user
    scanned      \* history: all scans, by user

Items == 1..NItems
Zero == [i \in Items |-> 0]
Users == {"CUSTOMER", "RIDER"}
LineKinds == {"BOOT", "START", "SESSION_RESET", "USER", "PAY", "COUNT",
              "PAY_DONE", "SUMMARY"}

Line(kind, u, i, counts) == [kind |-> kind, user |-> u, item |-> i, counts |-> counts]
Plain(kind) == Line(kind, "NONE", 0, Zero)

CountLimit == 256

Init ==
    /\ pc = "select" /\ user = "NONE" /\ count = Zero
    /\ uart = <<Plain("BOOT"), Plain("START")>>
    /\ sessions = 0 /\ cuts = 0
    /\ finished = [u \in Users |-> 0]
    /\ sold = [u \in Users |-> Zero]
    /\ scanned = [u \in Users |-> Zero]

Emit(lines) == uart' = uart \o lines

(* reset_session(), reached from the top of the loop: the counters are     *)
(* cleared and SESSION,START closes the lines of the step before it.       *)
ResetSession(before) ==
    /\ pc' = "select" /\ user' = "NONE" /\ count' = Zero
    /\ Emit(Append(before, Plain("START")))

(* select_user() *)
SelectUser(u) ==
    /\ pc = "select" /\ sessions < MaxSessions
    /\ sessions' = sessions + 1
    /\ pc' = "product" /\ user' = u
    /\ Emit(<<Line("USER", u, 0, Zero)>>)
    /\ UNCHANGED <<count, cuts, finished, sold, scanned>>

(* add(): the counter is eight bits wide. *)
AddScan(i) ==
    /\ pc = "product"
    /\ count[i] < MaxScans
    /\ count' = [count EXCEPT ![i] = (@ + 1) % CountLimit]
    /\ Emit(<<Line("PAY", "NONE", i, Zero), Line("COUNT", "NONE", 0, count')>>)
    /\ scanned' = [scanned EXCEPT ![user][i] = @ + 1]
    /\ UNCHANGED <<pc, user, sessions, cuts, finished, sold>>

(* The joystick is pressed in the scan loop: the session is given up. *)
Cancel ==
    /\ pc = "product"
    /\ ResetSession(<<Plain("SESSION_RESET")>>)
    /\ UNCHANGED <<sessions, cuts, finished, sold, scanned>>

(* finish(), first line. *)
Finish ==
    /\ pc = "product"
    /\ pc' = "summary"
    /\ Emit(<<Plain("PAY_DONE")>>)
    /\ finished' = [finished EXCEPT ![user] = @ + 1]
    /\ sold' = [sold EXCEPT ![user] = [i \in Items |-> @[i] + count[i]]]
    /\ UNCHANGED <<user, count, sessions, cuts, scanned>>

(* finish(), second line (done()), and the next reset_session(). *)
Summarise ==
    /\ pc = "summary"
    /\ ResetSession(<<Line("SUMMARY", user, 0, count)>>)
    /\ UNCHANGED <<sessions, cuts, finished, sold, scanned>>

(* The board loses power and boots: main() prints BOOT, the RAM is lost. *)
PowerCycle ==
    /\ cuts < PowerCuts
    /\ cuts' = cuts + 1
    /\ ResetSession(<<Plain("BOOT")>>)
    /\ UNCHANGED <<sessions, finished, sold, scanned>>

Next ==
    \/ \E u \in Users : SelectUser(u)
    \/ \E i \in Items : AddScan(i)
    \/ Cancel
    \/ Finish
    \/ Summarise
    \/ PowerCycle
=============================================================================
