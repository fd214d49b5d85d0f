----------------------------- MODULE PosSession -----------------------------
(***************************************************************************)
(* The checkout and the fusion rules together: PosFirmware prints lines,   *)
(* the serial reader parses them (adapters/parsers.py) and StateManager    *)
(* handles the events in the order of the lines.  A line can be lost while *)
(* the reader reconnects (adapters/serial_worker.py): Lossy names the      *)
(* kinds of lines a run lets the line lose.  The console may enter an      *)
(* order at any moment.                                                    *)
(***************************************************************************)
EXTENDS StateManager, Sequences

CONSTANTS
    MaxSessions, MaxScans, PowerCuts,  \* bounds of PosFirmware
    Backlog,                           \* bound on the lines waiting
    Lossy                              \* kinds of lines that can be lost

VARIABLES pc, user, count, uart, sessions, cuts, finished, sold, scanned

POS == INSTANCE PosFirmware

ASSUME RoomAssumption == 2 * MaxSessions * MaxScans <= MaxCount

firmwareVars == <<pc, user, count, sessions, cuts, finished, sold, scanned>>
sessionVars == <<vars, firmwareVars, uart>>

SessionInit == Init /\ POS!Init

-----------------------------------------------------------------------------
(* parse_pos_line() and handle(): the action a line causes. *)

Handle(line) ==
    \/ line.kind = "BOOT" /\ PosBoot
    \/ line.kind = "START" /\ PosSessionStart
    \/ line.kind = "SESSION_RESET" /\ PosReset
    \/ line.kind = "USER" /\ SelectMode(line.user)
    \/ line.kind = "PAY" /\ Pay(line.item)
    \/ line.kind = "COUNT" /\ PosCount(line.counts)
    \/ line.kind = "PAY_DONE" /\ PayDone
    \/ line.kind = "SUMMARY" /\ PosDoneSummary(line.user, line.counts)

HandleLine ==
    /\ uart # <<>>
    /\ Handle(Head(uart))
    /\ uart' = Tail(uart)
    /\ UNCHANGED firmwareVars

LoseLine ==
    /\ uart # <<>>
    /\ Head(uart).kind \in Lossy
    /\ uart' = Tail(uart)
    /\ UNCHANGED <<vars, firmwareVars>>

Firmware == Len(uart) < Backlog /\ POS!Next /\ UNCHANGED vars

ConsoleOrder ==
    /\ \E order \in Orders : SetOrder(order)
    /\ UNCHANGED <<firmwareVars, uart>>

SessionNext == Firmware \/ HandleLine \/ LoseLine \/ ConsoleOrder

SessionSpec == SessionInit /\ [][SessionNext]_sessionVars

-----------------------------------------------------------------------------
(* Properties. *)

Drained == uart = <<>> /\ pc = "select"

(* Between two sessions, with every line handled, the books of fusion_pc   *)
(* are the sales of the checkout: each finished session is in the ledger   *)
(* of its user exactly once and is one payment batch, each given-up        *)
(* session in none.                                                        *)
BooksMatchSales ==
    Drained =>
        /\ paidItems = sold["CUSTOMER"]
        /\ riderCheckedItems = sold["RIDER"]
        /\ paymentBatches = finished["CUSTOMER"]

(* At no moment, between PAY_DONE and the summary included, does fusion_pc *)
(* count more batches than the checkout has finished customer sessions,    *)
(* even with power losses, orders entered mid-session and lost completion  *)
(* lines.                                                                  *)
NoSpuriousBatch == paymentBatches <= finished["CUSTOMER"]

(* Under the same faults, corrections and take-backs included, the ledger  *)
(* of the customers never shows a product more often than customers        *)
(* scanned it.                                                             *)
PaidWasScanned == \A i \in Items : paidItems[i] <= scanned["CUSTOMER"][i]

(* The session whose completion has been handled and whose successor has   *)
(* not started yet.                                                        *)
Booked == committed /\ mode = "CUSTOMER"

(* The ledger without the scans of the session of the moment.              *)
Closed ==
    [i \in Items |-> IF mode = "CUSTOMER" THEN paidItems[i] - posSessionItems[i]
                     ELSE paidItems[i]]

(* The books follow an abstract cash register, which books one whole       *)
(* session at a time: no scan is booked before its session completes, no   *)
(* boundary or cancellation takes a booked one back, a second completion   *)
(* line amends the booking of its own session only, and the next session   *)
(* closes it.                                                              *)
Register == INSTANCE CashRegister
    WITH Products <- Items, closed <- Closed, open <- Booked,
         latest <- IF Booked THEN posSessionItems ELSE Zero,
         batches <- paymentBatches
ImplementsRegister == Register!Spec
=============================================================================
