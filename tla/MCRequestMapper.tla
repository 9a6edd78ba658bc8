-------------------------- MODULE MCRequestMapper ---------------------------
(* RequestMapper for TLC: the handlers are alike, and so are the sessions.  *)
EXTENDS RequestMapper, TLC

(* A file that is replaced while it is asked for; logins beside tickets, and *)
(* beside documents, that wait for a session.                               *)
Workloads ==
  {[paths |-> {"public"}, requests |-> 3, files |-> 2],
   [paths |-> {"login", "check"}, requests |-> 5, files |-> 1],
   [paths |-> {"login", "page"}, requests |-> 3, files |-> 1]}

Symmetry == Permutations(Thread) \cup Permutations(Session)

=============================================================================
