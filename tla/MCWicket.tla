------------------------------ MODULE MCWicket ------------------------------
(* Values for the constants of Wicket that a configuration cannot spell. *)
EXTENDS Wicket, FiniteSets, TLC

CONSTANTS
  Tickets, TicketControllers, CovidControllers,
  PassesAllowed,   \* MaxPass of every ticket
  InHall           \* the tickets that are inside when the server starts

MCKind ==
  [b \in Keys |-> CASE b \in Tickets           -> "ticket"
                    [] b \in TicketControllers -> "ticketController"
                    [] b \in CovidControllers  -> "covidController"
                    [] OTHER                   -> "unknown"]

MCMaxPass == [b \in Keys |-> PassesAllowed]

MCRowsAtStart ==
  [b \in Keys |-> IF b \in InHall THEN [state |-> 10, pass |-> 1]
                                  ELSE [state |-> 0, pass |-> 0]]

MCPassCounts == [inHall |-> Cardinality(InHall), visited |-> Cardinality(InHall)]

(* Two visits, a report and a command; a visit, a report, a command and    *)
(* two link changes; a visit with two connections that come and both go.   *)
CommandsWorkload ==
  { [scan |-> 2, report |-> 1, link |-> 1, cmd |-> 1],
    [scan |-> 1, report |-> 1, link |-> 2, cmd |-> 1],
    [scan |-> 1, report |-> 0, link |-> 4, cmd |-> 0] }

(* Three visits and a report; two visits and two reports; two visits, a    *)
(* report and a command.                                                   *)
LockWorkload ==
  { [scan |-> 3, report |-> 1, link |-> 2, cmd |-> 0],
    [scan |-> 2, report |-> 2, link |-> 2, cmd |-> 0],
    [scan |-> 2, report |-> 1, link |-> 2, cmd |-> 1] }

DoubleWorkload == { [scan |-> 3, report |-> 1, link |-> 2, cmd |-> 0] }
LimitWorkload == { [scan |-> 2, report |-> 2, link |-> 2, cmd |-> 0] }
RegisteredWorkload == { [scan |-> 2, report |-> 0, link |-> 1, cmd |-> 0] }

(* Gates are interchangeable when all or none of them check certificates,  *)
(* and so are barcodes of one kind.                                        *)
Symmetry == Permutations(Gate) \cup Permutations(Tickets)
=============================================================================
