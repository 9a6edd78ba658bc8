---------------------------- MODULE MCStandAlone ----------------------------
(* StandAlone for TLC: the main reader is at the entry. *)
EXTENDS StandAlone

CONSTANTS q1, q2, p1, t1

MCSide == [main |-> "entry", slave |-> "exit"]

(* Readers that come, go and come again about a switch, or two; one reader *)
(* and a visitor before, between or after switches; two visitors at two    *)
(* readers.                                                                *)
MCWorkload ==
  {[register |-> 3, scan |-> 0, switch |-> 1, seen |-> {}],
   [register |-> 2, scan |-> 0, switch |-> 2, seen |-> {}],
   [register |-> 1, scan |-> 1, switch |-> 2, seen |-> {q1, p1, t1}],
   [register |-> 2, scan |-> 2, switch |-> 0, seen |-> {q1, q2}]}

=============================================================================
