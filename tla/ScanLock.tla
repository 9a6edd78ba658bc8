------------------------------ MODULE ScanLock ------------------------------
(***************************************************************************)
(* What the double scan check promises, without machines, queues of events *)
(* or threads.  A turnstile asks for a barcode and goes on when a verdict  *)
(* reaches it.  Verdicts are not matched with questions: a turnstile that  *)
(* stops asking leaves its verdict on the way, and the barcode it was      *)
(* granted in the table; the next question may be answered by a verdict    *)
(* that is still coming.  A turnstile that stops serving takes its barcode *)
(* out of the table, whoever it stands for there.                          *)
(***************************************************************************)
CONSTANTS Gate, NoGate, Keys, NoKey

VARIABLES
  holder,   \* [Keys -> Gate or NoGate]: the turnstile each barcode is held for
  checked,  \* whether a barcode that is held is refused
  visit,    \* [Gate -> [phase, key]]: what each turnstile does, for which barcode
  verdicts  \* [Gate -> SUBSET Verdict]: the verdicts on their way to it

lockVars == <<holder, checked, visit, verdicts>>

Verdict == {"ok.dblscn", "fail.dblscn"}

LockInit ==
  /\ holder = [b \in Keys |-> NoGate]
  /\ checked = TRUE
  /\ visit = [g \in Gate |-> [phase |-> "away", key |-> NoKey]]
  /\ verdicts = [g \in Gate |-> {}]

-----------------------------------------------------------------------------
Becomes(g, p, b) == visit' = [visit EXCEPT ![g] = [phase |-> p, key |-> b]]

(* The table when g has stopped what it was doing. *)
Freed(g) ==
  IF visit[g].phase = "serving" THEN [holder EXCEPT ![visit[g].key] = NoGate]
  ELSE holder

Ask(g, b, v) ==
  /\ visit[g].phase # "asking"
  /\ Becomes(g, "asking", b)
  /\ verdicts' = [verdicts EXCEPT ![g] = @ \cup {v}]
  /\ UNCHANGED checked

Grant(g, b) ==
  /\ checked => Freed(g)[b] = NoGate
  /\ Ask(g, b, "ok.dblscn")
  /\ holder' = [Freed(g) EXCEPT ![b] = g]

Deny(g, b) ==
  /\ checked /\ Freed(g)[b] # NoGate
  /\ Ask(g, b, "fail.dblscn")
  /\ holder' = Freed(g)

(* A verdict reaches the turnstile that asks; another one like it may      *)
(* still be on its way.                                                    *)
Take(g, v) ==
  /\ visit[g].phase = "asking"
  /\ v \in verdicts[g]
  /\ \E rest \in {verdicts[g], verdicts[g] \ {v}} :
       verdicts' = [verdicts EXCEPT ![g] = rest]
  /\ UNCHANGED <<holder, checked>>

Admit(g) == Take(g, "ok.dblscn") /\ Becomes(g, "serving", visit[g].key)

Refuse(g) == Take(g, "fail.dblscn") /\ Becomes(g, "away", NoKey)

(* A verdict nobody waits for any more is dropped. *)
Forget(g) ==
  /\ visit[g].phase # "asking"
  /\ \E rest \in SUBSET verdicts[g] : verdicts' = [verdicts EXCEPT ![g] = rest]
  /\ UNCHANGED <<holder, checked, visit>>

(* The turnstile turns away before the verdict, or during the pause, and   *)
(* the table stays as it is.                                               *)
Leave(g) ==
  /\ visit[g].phase \in {"asking", "paused"}
  /\ Becomes(g, "away", NoKey)
  /\ UNCHANGED <<holder, checked, verdicts>>

GiveBack(g) ==
  /\ visit[g].phase = "serving"
  /\ Becomes(g, "away", NoKey)
  /\ holder' = Freed(g)
  /\ UNCHANGED <<checked, verdicts>>

(* A controller who may not open the turnstile: his barcode is given back, *)
(* and he is served again without asking.                                  *)
Pause(g) ==
  /\ visit[g].phase = "serving"
  /\ Becomes(g, "paused", visit[g].key)
  /\ holder' = Freed(g)
  /\ UNCHANGED <<checked, verdicts>>

Return(g) ==
  /\ visit[g].phase = "paused"
  /\ Becomes(g, "serving", visit[g].key)
  /\ UNCHANGED <<holder, checked, verdicts>>

(* The widget switches the check, or empties the table. *)
Switch == checked' \in BOOLEAN /\ UNCHANGED <<holder, visit, verdicts>>

Clear ==
  /\ holder' = [b \in Keys |-> NoGate]
  /\ UNCHANGED <<checked, visit, verdicts>>

LockNext ==
  \/ \E g \in Gate :
       \/ \E b \in Keys : Grant(g, b) \/ Deny(g, b)
       \/ Admit(g) \/ Refuse(g) \/ Forget(g)
       \/ Leave(g) \/ GiveBack(g) \/ Pause(g) \/ Return(g)
  \/ Switch
  \/ Clear

LockSpec == LockInit /\ [][LockNext]_lockVars

=============================================================================
