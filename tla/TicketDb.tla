------------------------------ MODULE TicketDb ------------------------------
(***************************************************************************)
(* The two stored procedures of the ticket base and the way db_worker      *)
(* turns their numeric result into a signal.  Pure operators: the state    *)
(* they read and write (one row of dbo.CheckTicket per ticket) is a        *)
(* variable of the modules that use them.                                  *)
(*                                                                         *)
(* Result codes keep the spelling of the sources, as strings.              *)
(***************************************************************************)
EXTENDS Integers

(* What a barcode is to the base: a ticket of a running event, the key of  *)
(* an active ticket controller, of an active covid controller, or nothing. *)
Kinds == {"ticket", "ticketController", "covidController", "unknown"}

(* CodeTicketState: 0 never passed, 10 inside, 20 outside. *)
TicketStates == {0, 10, 20}

Rows == [state : TicketStates, pass : Int]

In == 1
Out == -1
Directions == {In, Out}

(* usp__CheckTicketFromGate_v3: may a visitor with this ticket pass? *)
CheckIn(row, max) ==
  CASE row.pass >= max                                   -> "0x0001"
    [] row.pass < max /\ row.state \in {0, 10, 20}       -> "0x0000"
    [] row.pass < max /\ row.state \notin {0, 10, 20}    -> "0x0002"

CheckOut(row) ==
  CASE row.pass <= 0                                     -> "0x0120"
    [] row.pass > 0 /\ row.state \in {10, 20}            -> "0x0100"
    [] row.pass > 0 /\ row.state = 0                     -> "0x0110"

CheckResult(dir, kind, row, max) ==
  CASE kind = "ticket" /\ dir = In    -> CheckIn(row, max)
    [] kind = "ticket" /\ dir = Out   -> CheckOut(row)
    [] kind = "ticketController"      -> "0x1000"
    [] kind = "covidController"       -> "0x2000"
    [] kind = "unknown"               -> "0x0300"

(* db_worker::checkTicket: the signal a result is turned into.  A result   *)
(* the switch does not list (0x555, left by a caught SQL error) is         *)
(* answered by nothing.                                                    *)
AnswerTo(result) ==
  CASE result \in {"0x0000", "0x0100"} -> "ticketOK"
    [] result = "0x1000"               -> "ticketControllerOK"
    [] result = "0x2000"               -> "covidControllerOK"
    [] result \in {"0x0001", "0x0002", "0x0110", "0x0120", "0x0130",
                   "0x0200", "0x0300"} -> "ticketFail"
    [] OTHER                           -> "none"

(* Mutant: an exit counted like an entry. *)
ConfirmedUp(dir, row) ==
  [state |-> IF dir = In THEN 10 ELSE 20, pass |-> row.pass + 1]

(* usp__ConfirmPass_v2: the row after a pass.  The procedure looks at      *)
(* neither the limit nor zero.                                             *)
Confirmed(dir, row) ==
  [state |-> IF dir = In THEN 10 ELSE 20, pass |-> row.pass + dir]

=============================================================================
