---------------------------- MODULE WicketProofs ----------------------------
(***************************************************************************)
(* Proofs about the turnstile server, for any gates, barcodes and bounds:  *)
(*   the types of its state;                                               *)
(*   a turnstile always has what ends the state it is in, and is off line  *)
(*   once its main reader is gone;                                         *)
(*   the double scan check implements the lock of ScanLock;                *)
(*   the counters cover what the ticket base will say, as long as          *)
(*   CountsAgree holds.                                                    *)
(***************************************************************************)
EXTENDS Wicket, TLAPS, SequenceTheorems, Sums

-----------------------------------------------------------------------------
(* Types. *)

LEMMA EvType == \A e \in Event : Ev(e) \in Msg
BY DEF Ev, Msg, Keys

LEMMA EventParts ==
  /\ ReaderEvent \subseteq Event /\ CrossboardEvent \subseteq Event
  /\ LinkEvent \subseteq Event /\ CommandEvent \subseteq Event
  /\ DoubleScanEvent \subseteq Event /\ DbEvent \subseteq Event
  /\ CertEvent \subseteq Event /\ InternalEvent \subseteq Event
  /\ TimeoutEvent \subseteq Event
BY DEF Event

LEMMA TimeoutType == \A i \in Timer : TimeoutOf[i] \in Event
BY DEF Timer, TimeoutOf, Event, TimeoutEvent, InternalEvent, DbEvent

LEMMA OnwardType == ASSUME NEW t PROVE Onward(t) \in Seq(Msg)
<1>1. Ev("passed") \in Msg /\ Ev("ready") \in Msg
  BY EvType, EventParts DEF InternalEvent
<1> QED BY <1>1 DEF Onward

LEMMA ScanKeyType ==
  ASSUME TypeOK, NEW g \in Gate, NEW t PROVE ScanKey(g, t) \in Keys
BY DEF TypeOK, ScanKey

LEMMA SubmitsType ==
  ASSUME TypeOK, NEW g \in Gate, NEW t, NEW reg
  PROVE  Submits(g, t, reg) \in Seq(Msg)
<1>1. /\ Ev("fail.dblscn") \in Msg /\ Ev("certFail") \in Msg
      /\ "ok.dblscn" \in Event /\ "isCovidQR" \in Event
  BY EvType, EventParts DEF DoubleScanEvent, CertEvent
<1>2. [name |-> "ok.dblscn", bc |-> ScanKey(g, t)] \in Msg
  BY <1>1, ScanKeyType DEF Msg
<1>3. [name |-> "isCovidQR", bc |-> lockedEn[g]] \in Msg
  BY <1>1 DEF Msg, TypeOK
<1> QED BY <1>1, <1>2, <1>3, OnwardType DEF Submits

LEMMA CallsType ==
  ASSUME TypeOK, NEW g \in Gate, NEW t PROVE Calls(g, t) \in Seq(Request)
<1>1. /\ [op |-> "check", dir |-> In, bc |-> lockedEn[g]] \in Request
      /\ [op |-> "check", dir |-> Out, bc |-> lockedEx[g]] \in Request
      /\ [op |-> "confirm", dir |-> In, bc |-> lockedEn[g]] \in Request
      /\ [op |-> "confirm", dir |-> Out, bc |-> lockedEx[g]] \in Request
  BY DEF TypeOK, Request, Directions
<1> QED BY <1>1 DEF Calls

LEMMA TimersAfterType ==
  ASSUME TypeOK, NEW g \in Gate, NEW s, NEW t
  PROVE  TimersAfter(g, s, t) \in [Timer -> Nat]
<1>1. \A i \in Timer : timers[g][i] \in Nat BY DEF TypeOK
<1> QED BY <1>1 DEF TimersAfter

LEMMA CheckInAnswers ==
  ASSUME NEW row \in Rows, NEW max \in Nat
  PROVE  CheckIn(row, max) \in {"0x0000", "0x0001"}
BY DEF CheckIn, Rows, TicketStates

LEMMA CheckOutAnswers ==
  ASSUME NEW row \in Rows
  PROVE  CheckOut(row) \in {"0x0100", "0x0110", "0x0120"}
BY DEF CheckOut, Rows, TicketStates

(* A query that succeeds is always answered. *)
LEMMA CheckAnswerType ==
  ASSUME TypeOK, WicketAssumption, NEW r \in Request
  PROVE  CheckAnswer(r) \in DbEvent
<1> DEFINE row == tickets[r.bc]
           max == MaxPass[r.bc]
           res == CheckResult(r.dir, Kind[r.bc], row, max)
<1>1. row \in Rows /\ max \in Nat /\ Kind[r.bc] \in Kinds /\ r.dir \in {In, Out}
  BY DEF TypeOK, WicketAssumption, Request, Directions
<1>2. /\ CheckIn(row, max) \in {"0x0000", "0x0001"}
      /\ CheckOut(row) \in {"0x0100", "0x0110", "0x0120"}
  BY <1>1, CheckInAnswers, CheckOutAnswers
<1> HIDE DEF row, max
<1>3. res \in {"0x0000", "0x0001", "0x0100", "0x0110", "0x0120", "0x1000",
               "0x2000", "0x0300"}
  BY <1>1, <1>2 DEF CheckResult, Kinds, In, Out
<1> HIDE DEF res
<1>4. AnswerTo(res) \in DbEvent
  BY <1>3 DEF AnswerTo, DbEvent
<1> QED BY <1>4 DEF CheckAnswer, res, row, max

LEMMA ConfirmedType ==
  ASSUME NEW row \in Rows, NEW dir \in Directions
  PROVE  Confirmed(dir, row) \in Rows
BY DEF Confirmed, Rows, TicketStates, Directions, In, Out

LEMMA HeadOfQueue ==
  ASSUME TypeOK, NEW g \in Gate, evq[g] # <<>>
  PROVE  /\ Head(evq[g]) \in Msg /\ Tail(evq[g]) \in Seq(Msg)
         /\ Head(evq[g]).name \in Event
<1>1. evq[g] \in Seq(Msg) BY DEF TypeOK
<1>2. Head(evq[g]) \in Msg /\ Tail(evq[g]) \in Seq(Msg)
  BY <1>1, HeadTailProperties
<1>3. Head(evq[g]).name \in Event BY <1>2 DEF Msg
<1> QED BY <1>2, <1>3

LEMMA InitType == ASSUME WicketAssumption PROVE Init => TypeOK
<1> SUFFICES ASSUME Init PROVE TypeOK OBVIOUS
<1>1. <<>> \in Seq(Msg) /\ <<>> \in Seq(Request) BY EmptySeq
<1>2. "onMainDisconnected" \in Leaf BY DEF Leaf
<1>3. current \in Nat /\ total \in Nat
  BY DEF Init, StartCounts, WicketAssumption
<1> QED BY <1>1, <1>2, <1>3 DEF Init, TypeOK, WicketAssumption, Keys

(* What a step that only submits an event leaves right. *)
LEMMA SubmitType ==
  ASSUME TypeOK, NEW g \in Gate, NEW m \in Msg, Submit(g, m)
  PROVE  evq' \in [Gate -> Seq(Msg)]
<1>1. Append(evq[g], m) \in Seq(Msg)
  BY AppendProperties DEF TypeOK
<1> QED BY <1>1 DEF Submit, TypeOK

LEMMA SpendType ==
  ASSUME TypeOK, NEW what \in {"scan", "report", "link", "cmd"}, Spend(what)
  PROVE  left' \in [{"scan", "report", "link", "cmd"} -> Nat]
BY DEF TypeOK, Spend

LEMMA CountedType ==
  ASSUME TypeOK, NEW dir \in Directions, Counted(dir)
  PROVE  current' \in Nat /\ total' \in Nat
BY DEF TypeOK, Counted, Directions, In, Out

(* What a counter per gate does when one gate's goes up or down. *)
LEMMA CountUp ==
  ASSUME NEW f \in [Gate -> Nat], NEW g \in Gate
  PROVE  [f EXCEPT ![g] = @ + 1] \in [Gate -> Nat]
OBVIOUS

LEMMA CountDown ==
  ASSUME NEW f \in [Gate -> Nat], NEW g \in Gate, f[g] > 0
  PROVE  [f EXCEPT ![g] = @ - 1] \in [Gate -> Nat]
OBVIOUS

LEMMA MoveType ==
  ASSUME TypeOK, WicketAssumption, NEW g \in Gate, Move(g) PROVE TypeOK'
<1> DEFINE s == st[g]
           reg(t) == RegistryAfterExit(g, s, t)
<1>0. PICK t \in Targets(g) :
         /\ st' = [st EXCEPT ![g] = t]
         /\ timers' = [timers EXCEPT ![g] = TimersAfter(g, s, t)]
         /\ lockedEn' = IF t \in EntryScan
                        THEN [lockedEn EXCEPT ![g] = entryBc[g]] ELSE lockedEn
         /\ lockedEx' = IF t \in ExitScan
                        THEN [lockedEx EXCEPT ![g] = exitBc[g]] ELSE lockedEx
         /\ registry' = IF IsScan(t) /\ ~Refused(reg(t), ScanKey(g, t))
                        THEN [reg(t) EXCEPT ![ScanKey(g, t)] = g] ELSE reg(t)
         /\ evq' = [evq EXCEPT ![g] = Tail(@) \o Submits(g, t, reg(t))]
         /\ dbReq' = [dbReq EXCEPT ![g] = @ \o Calls(g, t)]
         /\ certAsk' = IF AsksCert(g, t) THEN [certAsk EXCEPT ![g] = @ + 1] ELSE certAsk
         /\ CASE t = "onEntryPassed" -> Counted(In)
              [] t = "onExitPassed"  -> Counted(Out)
              [] OTHER               -> UNCHANGED <<current, total>>
  BY DEF Move
<1>q. Draining(g) /\ DrainGoesOn(g)
      /\ UNCHANGED <<scanned, certCheck, links, dblSwitch, dbAns, tickets, left>>
  BY DEF Move
<1>1. st' \in [Gate -> Leaf]
  BY <1>0 DEF TypeOK, Targets
<1>2. evq' \in [Gate -> Seq(Msg)]
  <2>1. Tail(evq[g]) \in Seq(Msg)
    BY <1>q, HeadOfQueue DEF Draining
  <2>2. Submits(g, t, reg(t)) \in Seq(Msg)
    BY SubmitsType
  <2>3. Tail(evq[g]) \o Submits(g, t, reg(t)) \in Seq(Msg)
    BY <2>1, <2>2, ConcatProperties
  <2> QED BY <1>0, <2>3 DEF TypeOK
<1>3. timers' \in [Gate -> [Timer -> Nat]]
  BY <1>0, TimersAfterType DEF TypeOK
<1>4. lockedEn' \in [Gate -> Keys] /\ lockedEx' \in [Gate -> Keys]
  BY <1>0 DEF TypeOK
<1>5. registry' \in [Keys -> Gate \cup {NoGate}]
  <2>1. reg(t) \in [Keys -> Gate \cup {NoGate}]
    BY DEF RegistryAfterExit, TypeOK
  <2> HIDE DEF reg
  <2>2. ScanKey(g, t) \in Keys BY ScanKeyType
  <2> QED BY <1>0, <2>1, <2>2
<1>6. dbReq' \in [Gate -> Seq(Request)]
  <2>1. dbReq[g] \o Calls(g, t) \in Seq(Request)
    BY CallsType, ConcatProperties DEF TypeOK
  <2> QED BY <1>0, <2>1 DEF TypeOK
<1>7. certAsk' \in [Gate -> Nat]
  <2>1. certAsk' = IF AsksCert(g, t) THEN [certAsk EXCEPT ![g] = @ + 1] ELSE certAsk
    BY <1>0
  <2>2. certAsk \in [Gate -> Nat] BY DEF TypeOK
  <2> QED BY <2>1, <2>2
<1>8. current' \in Nat /\ total' \in Nat
  BY <1>0, CountedType DEF TypeOK, Directions
<1>9. busy' \in Gate \cup {NoGate}
  BY <1>q DEF DrainGoesOn
<1> QED
  BY <1>q, <1>1, <1>2, <1>3, <1>4, <1>5, <1>6, <1>7, <1>8, <1>9 DEF TypeOK, scanned

LEMMA RedoType ==
  ASSUME TypeOK, NEW g \in Gate
  PROVE  /\ RedoSubmits(g) \in Seq(Msg)
         /\ Redo(g) => dbReq' \in [Gate -> Seq(Request)] /\ certAsk' \in [Gate -> Nat]
<1>1. RedoSubmits(g) \in Seq(Msg)
  BY SubmitsType, EmptySeq DEF RedoSubmits
<1>2. ASSUME Redo(g) PROVE dbReq' \in [Gate -> Seq(Request)]
  <2>1. dbReq[g] \o Calls(g, st[g]) \in Seq(Request)
    BY CallsType, ConcatProperties DEF TypeOK
  <2> QED BY <1>2, <2>1 DEF Redo, TypeOK
<1>3. ASSUME Redo(g) PROVE certAsk' \in [Gate -> Nat]
  <2>1. certAsk \in [Gate -> Nat] BY DEF TypeOK
  <2> QED BY <1>3, <2>1 DEF Redo
<1> QED BY <1>1, <1>2, <1>3

LEMMA LinksType ==
  ASSUME TypeOK, NEW g \in Gate, Links(g) PROVE TypeOK'
<1>0. Ev("mainConnected") \in Msg /\ Ev("mainDisconnected") \in Msg
  BY EvType, EventParts DEF LinkEvent
<1>1. CASE ConnectMain(g)
  <2>1. Append(evq[g], Ev("mainConnected")) \in Seq(Msg)
    BY <1>0, AppendProperties DEF TypeOK
  <2>2. Append(evq[g], Ev("mainConnected")) \o RedoSubmits(g) \in Seq(Msg)
    BY <2>1, RedoType, ConcatProperties
  <2>3. evq' \in [Gate -> Seq(Msg)] BY <1>1, <2>2 DEF ConnectMain, TypeOK
  <2>4. left' \in [{"scan", "report", "link", "cmd"} -> Nat]
    BY <1>1, SpendType DEF ConnectMain
  <2>5. links' \in [Gate -> Nat]
    <3>1. links \in [Gate -> Nat] BY DEF TypeOK
    <3>2. links' = [links EXCEPT ![g] = @ + 1] BY <1>1 DEF ConnectMain
    <3> QED BY <3>1, <3>2, CountUp
  <2> QED
    BY <1>1, <2>3, <2>4, <2>5, RedoType DEF ConnectMain, TypeOK, chart, scanned, server
<1>2. CASE ConnectSlave(g)
  <2>1. evq[g] \o RedoSubmits(g) \in Seq(Msg)
    BY RedoType, ConcatProperties DEF TypeOK
  <2>2. evq' \in [Gate -> Seq(Msg)] BY <1>2, <2>1 DEF ConnectSlave, TypeOK
  <2>3. left' \in [{"scan", "report", "link", "cmd"} -> Nat]
    BY <1>2, SpendType DEF ConnectSlave
  <2> QED
    BY <1>2, <2>2, <2>3, RedoType DEF ConnectSlave, TypeOK, chart, scanned, server
<1>3. CASE DisconnectMain(g)
  <2>1. evq' \in [Gate -> Seq(Msg)] BY <1>0, <1>3, SubmitType DEF DisconnectMain
  <2>2. left' \in [{"scan", "report", "link", "cmd"} -> Nat]
    BY <1>3, SpendType DEF DisconnectMain
  <2>3. links' \in [Gate -> Nat]
    <3>1. links \in [Gate -> Nat] BY DEF TypeOK
    <3>2. links[g] > 0 /\ links' = [links EXCEPT ![g] = @ - 1] BY <1>3 DEF DisconnectMain
    <3> QED BY <3>1, <3>2, CountDown
  <2> QED
    BY <1>3, <2>1, <2>2, <2>3 DEF DisconnectMain, TypeOK, chart, scanned, server, db
<1> QED BY <1>1, <1>2, <1>3 DEF Links

LEMMA VisitorsType ==
  ASSUME TypeOK, NEW g \in Gate, Visitors(g) PROVE TypeOK'
<1>0. PICK b \in Barcode : ScanEntry(g, b) \/ ScanExit(g, b) BY DEF Visitors
<1>1. /\ b \in Keys
      /\ Ev("en.barcode") \in Msg
      /\ [name |-> "ex.barcode", bc |-> b] \in Msg
  BY EvType, EventParts DEF ReaderEvent, Keys, Msg
<1>2. evq' \in [Gate -> Seq(Msg)]
  BY <1>0, <1>1, SubmitType DEF ScanEntry, ScanExit
<1>3. left' \in [{"scan", "report", "link", "cmd"} -> Nat]
  BY <1>0, SpendType DEF ScanEntry, ScanExit
<1>4. entryBc' \in [Gate -> Keys] /\ exitBc' \in [Gate -> Keys]
  <2>1. entryBc \in [Gate -> Keys] /\ exitBc \in [Gate -> Keys] BY DEF TypeOK
  <2>2. \/ entryBc' = [entryBc EXCEPT ![g] = b] /\ exitBc' = exitBc
        \/ exitBc' = [exitBc EXCEPT ![g] = b] /\ entryBc' = entryBc
    BY <1>0 DEF ScanEntry, ScanExit
  <2> QED BY <1>1, <2>1, <2>2
<1>5. UNCHANGED <<chart, certCheck, certAsk, links, busy, server, db>>
  BY <1>0 DEF ScanEntry, ScanExit
<1> QED BY <1>2, <1>3, <1>4, <1>5 DEF TypeOK, chart, server, db

LEMMA DatabaseType ==
  ASSUME TypeOK, WicketAssumption, NEW g \in Gate, Database(g) PROVE TypeOK'
<1>0. dbReq[g] \in Seq(Request) /\ dbReq[g] # <<>> /\ dbReq' = [dbReq EXCEPT ![g] = Tail(@)]
  BY DEF TypeOK, Database, DbCheck, DbConfirm, DbFails
<1>1. Head(dbReq[g]) \in Request /\ Tail(dbReq[g]) \in Seq(Request)
  BY <1>0, HeadTailProperties
<1>2. dbReq' \in [Gate -> Seq(Request)]
  BY <1>0, <1>1 DEF TypeOK
<1>3. \A m \in Msg : Answer(g, m) => dbAns' \in [Gate -> Seq(Msg)]
  BY AppendProperties DEF Answer, TypeOK
<1>4. CASE DbCheck(g)
  <2> DEFINE r == Head(dbReq[g])
             m == [name |-> CheckAnswer(r),
                   bc |-> IF CheckAnswer(r) = "ticketFail" THEN NoBarcode ELSE r.bc]
  <2>1. CheckAnswer(r) \in Event
    BY <1>1, CheckAnswerType, EventParts
  <2>2. m \in Msg
    BY <1>1, <2>1 DEF Msg, Request, Keys
  <2>3. Answer(g, m) BY <1>4 DEF DbCheck
  <2>4. dbAns' \in [Gate -> Seq(Msg)] BY <1>3, <2>2, <2>3
  <2> QED BY <1>2, <1>4, <2>4 DEF DbCheck, TypeOK, chart, scanned, server
<1>5. CASE DbConfirm(g)
  <2> DEFINE r == Head(dbReq[g])
  <2>1. r.bc \in Keys /\ r.dir \in Directions BY <1>1 DEF Request
  <2>2. Confirmed(r.dir, tickets[r.bc]) \in Rows
    BY <2>1, ConfirmedType DEF TypeOK
  <2>3. tickets' \in [Keys -> Rows]
    BY <1>5, <2>2 DEF DbConfirm, TypeOK
  <2> QED BY <1>2, <1>5, <2>3 DEF DbConfirm, TypeOK, chart, scanned, server
<1>6. ASSUME NEW f \in DbFaults, DbFails(g, f) PROVE TypeOK'
  <2>1. Ev("dbTimeout") \in Msg BY EvType, EventParts DEF DbEvent
  <2>2. dbAns' \in [Gate -> Seq(Msg)]
    BY <1>3, <1>6, <2>1 DEF DbFails, TypeOK
  <2> QED BY <1>2, <1>6, <2>2 DEF DbFails, TypeOK, chart, scanned, server
<1> QED BY <1>4, <1>5, <1>6 DEF Database

LEMMA CommandType ==
  ASSUME TypeOK, WicketAssumption, NEW c,
         (\E g \in Gate : GateCommand(g, c)) \/ ServerCommand(c)
  PROVE  TypeOK'
<1>1. ASSUME NEW g \in Gate, GateCommand(g, c) PROVE TypeOK'
  <2>1. Ev("cmd.arm") \in Msg /\ Ev("cmd.unlock") \in Msg
    BY EvType, EventParts DEF CommandEvent
  <2>2. evq' \in [Gate -> Seq(Msg)]
    BY <1>1, <2>1, SubmitType DEF GateCommand, TypeOK
  <2>3. left' \in [{"scan", "report", "link", "cmd"} -> Nat]
    BY <1>1, SpendType DEF GateCommand
  <2>4. certCheck' \in [Gate -> BOOLEAN] BY <1>1 DEF GateCommand, TypeOK
  <2> QED
    BY <1>1, <2>2, <2>3, <2>4 DEF GateCommand, TypeOK, chart, scanned, server, db
<1>2. CASE ServerCommand(c)
  <2>1. left' \in [{"scan", "report", "link", "cmd"} -> Nat]
    BY <1>2, SpendType DEF ServerCommand
  <2>2. registry' \in [Keys -> Gate \cup {NoGate}] /\ dblSwitch' \in BOOLEAN
    BY <1>2 DEF ServerCommand, TypeOK
  <2>3. current' \in Nat /\ total' \in Nat
    BY <1>2 DEF ServerCommand, TypeOK
  <2> QED
    BY <1>2, <2>1, <2>2, <2>3 DEF ServerCommand, TypeOK, chart, scanned, db
<1> QED BY <1>1, <1>2

(* Steps that move one waiting thing (a timer, an answer) into the queue,  *)
(* or a dropped event out of it.                                           *)
LEMMA DeliveryType ==
  ASSUME TypeOK, NEW g \in Gate,
         \/ Discard(g)
         \/ \E e \in CrossboardEvent : Report(g, e)
         \/ \E i \in Timer : TimerFires(g, i)
         \/ \E e \in {"certOK", "certFail"} : CertReply(g, e)
         \/ DbAnswer(g)
  PROVE  TypeOK'
<1>1. CASE Discard(g)
  <2>1. Tail(evq[g]) \in Seq(Msg) BY <1>1, HeadOfQueue DEF Discard, Draining
  <2>2. evq' \in [Gate -> Seq(Msg)] BY <1>1, <2>1 DEF Discard, TypeOK
  <2>3. busy' \in Gate \cup {NoGate} BY <1>1 DEF Discard, DrainGoesOn
  <2> QED BY <1>1, <2>2, <2>3 DEF Discard, TypeOK, chart, scanned, server, db
<1>2. ASSUME NEW e \in CrossboardEvent, Report(g, e) PROVE TypeOK'
  <2>1. Ev(e) \in Msg BY EvType, EventParts
  <2>2. evq' \in [Gate -> Seq(Msg)] BY <1>2, <2>1, SubmitType DEF Report
  <2>3. left' \in [{"scan", "report", "link", "cmd"} -> Nat]
    BY <1>2, SpendType DEF Report
  <2> QED BY <1>2, <2>2, <2>3 DEF Report, TypeOK, chart, scanned, server, db
<1>3. ASSUME NEW i \in Timer, TimerFires(g, i) PROVE TypeOK'
  <2>1. Ev(TimeoutOf[i]) \in Msg BY EvType, TimeoutType
  <2>2. evq' \in [Gate -> Seq(Msg)] BY <1>3, <2>1, SubmitType DEF TimerFires
  <2>3. timers' \in [Gate -> [Timer -> Nat]]
    <3>1. timers \in [Gate -> [Timer -> Nat]] BY DEF TypeOK
    <3>2. timers[g][i] > 0 /\ timers' = [timers EXCEPT ![g][i] = @ - 1]
      BY <1>3 DEF TimerFires
    <3>3. [timers[g] EXCEPT ![i] = @ - 1] \in [Timer -> Nat] BY <3>1, <3>2
    <3> QED BY <3>1, <3>2, <3>3
  <2> QED BY <1>3, <2>2, <2>3 DEF TimerFires, TypeOK, scanned, server, db
<1>4. ASSUME NEW e \in {"certOK", "certFail"}, CertReply(g, e) PROVE TypeOK'
  <2>1. Ev(e) \in Msg BY EvType, EventParts DEF CertEvent
  <2>2. evq' \in [Gate -> Seq(Msg)] BY <1>4, <2>1, SubmitType DEF CertReply
  <2>3. certAsk' \in [Gate -> Nat]
    <3>1. certAsk \in [Gate -> Nat] BY DEF TypeOK
    <3>2. certAsk[g] > 0 /\ certAsk' = [certAsk EXCEPT ![g] = @ - 1] BY <1>4 DEF CertReply
    <3> QED BY <3>1, <3>2, CountDown
  <2> QED BY <1>4, <2>2, <2>3 DEF CertReply, TypeOK, chart, scanned, server, db
<1>5. CASE DbAnswer(g)
  <2>1. Head(dbAns[g]) \in Msg /\ Tail(dbAns[g]) \in Seq(Msg)
    BY <1>5, HeadTailProperties DEF DbAnswer, TypeOK
  <2>2. evq' \in [Gate -> Seq(Msg)] BY <1>5, <2>1, SubmitType DEF DbAnswer
  <2>3. dbAns' \in [Gate -> Seq(Msg)] BY <1>5, <2>1 DEF DbAnswer, TypeOK
  <2> QED BY <1>5, <2>2, <2>3 DEF DbAnswer, TypeOK, chart, scanned, server
<1> QED BY <1>1, <1>2, <1>3, <1>4, <1>5

(* Every variable keeps its type: in particular a query that succeeds is   *)
(* answered with one of the signals db_worker knows, current_count never   *)
(* goes below zero, and every target of the chart is one of its states.    *)
THEOREM TypeCorrect == Spec => []TypeOK
<1>1. Init => TypeOK BY InitType, WicketAssumption
<1>2. TypeOK /\ [Next]_vars => TypeOK'
  <2> SUFFICES ASSUME TypeOK, [Next]_vars PROVE TypeOK' OBVIOUS
  <2>1. ASSUME NEW g \in Gate, Drain(g) PROVE TypeOK'
    BY <2>1, MoveType, DeliveryType, WicketAssumption DEF Drain
  <2>2. ASSUME NEW c \in WidgetCmds,
               (\E g \in Gate : GateCommand(g, c)) \/ ServerCommand(c)
        PROVE  TypeOK'
    BY <2>2, CommandType, WicketAssumption
  <2>3. CASE UNCHANGED vars
    BY <2>3 DEF TypeOK, vars, chart, scanned, server, db
  <2> QED
    BY <2>1, <2>2, <2>3, VisitorsType, DeliveryType, LinksType, DatabaseType,
       WicketAssumption DEF Next
<1> QED BY <1>1, <1>2, PTL DEF Spec

-----------------------------------------------------------------------------
(***************************************************************************)
(* NeverStuck, SettledBetweenDrains and OfflineSeen: whatever the faults   *)
(* of the database, the certificate checks and the commands do.            *)
(***************************************************************************)

(* Queues: an event stays queued until it is at the head. *)

Holds(q, E) == \E k \in DOMAIN q : q[k].name \in E

LEMMA HoldsAppend ==
  ASSUME NEW q \in Seq(Msg), NEW m \in Msg, NEW E
  PROVE  Holds(q, E) \/ m.name \in E => Holds(Append(q, m), E)
<1>1. /\ DOMAIN q = 1..Len(q) /\ Len(q) \in Nat
      /\ Append(q, m) \in Seq(Msg) /\ Len(Append(q, m)) = Len(q) + 1
      /\ \A k \in 1..Len(q) : Append(q, m)[k] = q[k]
      /\ Append(q, m)[Len(q) + 1] = m
  BY LenProperties, AppendProperties
<1>2. DOMAIN Append(q, m) = 1 .. (Len(q) + 1)
  BY <1>1, LenProperties
<1> QED BY <1>1, <1>2 DEF Holds

LEMMA HoldsConcat ==
  ASSUME NEW q \in Seq(Msg), NEW r \in Seq(Msg), NEW E
  PROVE  Holds(q, E) \/ Holds(r, E) => Holds(q \o r, E)
<1>1. /\ DOMAIN q = 1..Len(q) /\ Len(q) \in Nat
      /\ DOMAIN r = 1..Len(r) /\ Len(r) \in Nat
      /\ q \o r \in Seq(Msg) /\ Len(q \o r) = Len(q) + Len(r)
      /\ \A k \in 1..(Len(q) + Len(r)) :
           (q \o r)[k] = IF k <= Len(q) THEN q[k] ELSE r[k - Len(q)]
  BY LenProperties, ConcatProperties
<1>2. DOMAIN (q \o r) = 1 .. (Len(q) + Len(r))
  BY <1>1, LenProperties
<1>3. ASSUME NEW k \in DOMAIN q, q[k].name \in E PROVE Holds(q \o r, E)
  BY <1>1, <1>2, <1>3 DEF Holds
<1>4. ASSUME NEW k \in DOMAIN r, r[k].name \in E PROVE Holds(q \o r, E)
  <2>1. Len(q) + k \in 1 .. (Len(q) + Len(r)) /\ ~(Len(q) + k <= Len(q))
        /\ (Len(q) + k) - Len(q) = k
    BY <1>1
  <2>2. (q \o r)[Len(q) + k] = r[k] BY <1>1, <2>1
  <2> QED BY <1>2, <1>4, <2>1, <2>2 DEF Holds
<1> QED BY <1>3, <1>4 DEF Holds

LEMMA HoldsTail ==
  ASSUME NEW q \in Seq(Msg), q # <<>>, NEW E,
         Holds(q, E), Head(q).name \notin E
  PROVE  Holds(Tail(q), E)
<1>1. /\ DOMAIN q = 1..Len(q) /\ Len(q) \in Nat
      /\ Tail(q) \in Seq(Msg) /\ Len(Tail(q)) = Len(q) - 1
      /\ \A k \in 1..Len(Tail(q)) : Tail(q)[k] = q[k + 1]
      /\ Head(q) = q[1]
  BY LenProperties, HeadTailProperties
<1>2. DOMAIN Tail(q) = 1 .. (Len(q) - 1)
  BY <1>1, LenProperties
<1>3. PICK k \in 1..Len(q) : q[k].name \in E BY <1>1 DEF Holds
<1>4. k # 1 BY <1>1, <1>3
<1>5. k - 1 \in 1 .. (Len(q) - 1) /\ (k - 1) + 1 = k BY <1>1, <1>3, <1>4
<1>6. Tail(q)[k - 1] = q[k] BY <1>1, <1>5
<1> QED BY <1>2, <1>3, <1>5, <1>6 DEF Holds

LEMMA HoldsSome ==
  ASSUME NEW q \in Seq(Msg), NEW E, Holds(q, E) PROVE q # <<>>
<1>1. DOMAIN q = 1..Len(q) /\ Len(q) \in Nat BY LenProperties
<1>2. Len(q) # 0 BY <1>1 DEF Holds
<1> QED BY <1>2, EmptySeq

-----------------------------------------------------------------------------
(* The chart: each state takes the events that are to end it. *)

LEMMA OwnEventTaken ==
  ASSUME NEW s \in Leaf, NEW e \in OwnEvents(s)
  PROVE  e # "en.barcode" /\ \E t \in Leaf : Arc(s, e, t)
<1>1. CASE s \in EntryScan
  <2>0. OwnEvents(s) = DoubleScanEvent BY <1>1 DEF OwnEvents, IsScan, EntryScan, ExitScan
  <2>1. e \in {"ok.dblscn", "fail.dblscn"} BY <2>0 DEF DoubleScanEvent
  <2>2. \E t \in {"onCheckTypeBarcode", "onCheckCertCtrl", "onCheckTicket",
                  "onShowEntryDoubleScanFail"} : <<s, e, t>> \in LeafArc
    BY <1>1, <2>1 DEF EntryScan, LeafArc
  <2> QED
    BY <2>1, <2>2 DEF Arc, Leaf, OnMainConnected, OnArmed, Serving, OnEntry, EntryLocked
<1>2. CASE s \in ExitScan
  <2>0. OwnEvents(s) = DoubleScanEvent BY <1>2 DEF OwnEvents, IsScan, EntryScan, ExitScan
  <2>1. e \in {"ok.dblscn", "fail.dblscn"} BY <2>0 DEF DoubleScanEvent
  <2>2. \E t \in {"onCheckExitTicket", "onShowExitDoubleScanFail"} :
           <<s, e, t>> \in LeafArc
    BY <1>2, <2>1 DEF ExitScan, LeafArc
  <2> QED
    BY <2>1, <2>2 DEF Arc, Leaf, OnMainConnected, OnArmed, Serving, OnExit, ExitLocked
<1>3. CASE ~IsScan(s)
  <2>1. \/ s \in {"onEntryPassed", "onExitPassed"} /\ e = "passed"
        \/ s \in {"onEntryDrop", "onExitDrop"} /\ e = "ready"
    BY <1>3 DEF OwnEvents
  <2>2. /\ "onReady" \in Leaf /\ "onSecurityTimeout" \in Leaf
        /\ {"onEntryPassed", "onEntryDrop"} \subseteq OnEntry
        /\ {"onExitPassed", "onExitDrop"} \subseteq OnArmed \ OnEntry
    BY DEF Leaf, OnMainConnected, OnArmed, Serving, OnExit, ExitLocked, ExitScan,
           OnEntry, EntryLocked, EntryScan
  <2>3. /\ <<"passed", "onSecurityTimeout">> \in EntryArc
        /\ <<"ready", "onReady">> \in EntryArc
        /\ <<"passed", "onReady">> \in ArmedArc
        /\ <<"ready", "onReady">> \in ArmedArc
    BY DEF EntryArc, ArmedArc
  <2> QED BY <2>1, <2>2, <2>3 DEF Arc
<1> QED BY <1>1, <1>2, <1>3 DEF IsScan

LEMMA ShowEnds ==
  ASSUME NEW s \in ShowTimed PROVE \E t \in Leaf : Arc(s, "showTimeout", t)
<1>1. "onReady" \in Leaf /\ "onWaitEntryTicket" \in Leaf
  BY DEF Leaf, OnMainConnected, OnArmed, Serving, OnEntry, EntryLocked
<1>2. CASE s = "onShowEnCertCtrlFail"
  <2>1. <<s, "showTimeout", "onWaitEntryTicket">> \in LeafArc BY <1>2 DEF LeafArc
  <2> QED BY <1>1, <2>1 DEF Arc
<1>3. CASE s # "onShowEnCertCtrlFail" /\ s \in OnEntry
  <2>1. <<"showTimeout", "onReady">> \in EntryArc BY DEF EntryArc
  <2> QED BY <1>1, <1>3, <2>1 DEF Arc
<1>4. CASE s \notin OnEntry
  <2>1. s \in OnExit
    BY <1>4 DEF ShowTimed, OnEntry, EntryLocked, EntryScan, OnExit, ExitLocked, ExitScan
  <2>2. <<"showTimeout", "onReady">> \in ExitArc BY DEF ExitArc
  <2> QED BY <1>1, <2>1, <2>2 DEF Arc
<1> QED BY <1>2, <1>3, <1>4

LEMMA TimeoutTaken ==
  ASSUME NEW s \in Leaf, NEW i \in Arms(s)
  PROVE  i \in Timer /\ TimeoutOf[i] # "en.barcode" /\ \E t \in Leaf : Arc(s, TimeoutOf[i], t)
<1>0. {"onReady", "onSecurityTimeout", "onEntryDrop", "onExitDrop", "onShowEnDbTimeout",
       "onShowExitDbFail", "onShowCovidCheckCommunicationTimeout"} \subseteq Leaf
  BY DEF Leaf, OnMainConnected, OnArmed, Serving, OnEntry, EntryLocked, OnExit, ExitLocked
<1>1. CASE s \in ShowTimed
  <2>0. Arms(s) = {"showTimer"} BY <1>1 DEF Arms, ShowTimed, PassTimed, DbTimed
  <2>1. i = "showTimer" BY <2>0
  <2> QED BY <1>1, <2>1, ShowEnds DEF TimeoutOf, Timer
<1>2. CASE s \in PassTimed /\ s \notin ShowTimed
  <2>0. Arms(s) = {"passTimer"} BY <1>2 DEF Arms, ShowTimed, PassTimed, DbTimed
  <2>1. i = "passTimer" BY <2>0
  <2>2. \E t \in {"onEntryDrop", "onExitDrop"} : <<s, "Drop", t>> \in LeafArc
    BY <1>2 DEF PassTimed, LeafArc
  <2> QED BY <1>0, <2>1, <2>2 DEF Arc, TimeoutOf, Timer
<1>3. CASE s \in DbTimed /\ s \notin ShowTimed /\ s \notin PassTimed
  <2>0. Arms(s) = {"dbTimeoutTimer"} BY <1>3 DEF Arms, ShowTimed, PassTimed, DbTimed
  <2>1. i = "dbTimeoutTimer" BY <2>0
  <2>2. \E t \in {"onShowEnDbTimeout", "onShowExitDbFail"} :
           <<s, "dbTimeout", t>> \in LeafArc
    BY <1>3 DEF DbTimed, LeafArc
  <2> QED BY <1>0, <2>1, <2>2 DEF Arc, TimeoutOf, Timer
<1>4. CASE s \notin ShowTimed /\ s \notin PassTimed /\ s \notin DbTimed
  <2>1. \/ s = "onCheckCert" /\ i = "certAPItimeout"
        \/ s = "onWaitCovidContoller" /\ i = "WaitCovidContoller"
        \/ s = "onWaitEntryTicket" /\ i = "CheckTicketTimer"
        \/ s = "onSecurityTimeout" /\ i = "SecurityCheckTimer"
    BY <1>4 DEF Arms
  <2>2. /\ <<"onCheckCert", "CommunicationTimeout",
             "onShowCovidCheckCommunicationTimeout">> \in LeafArc
        /\ <<"onSecurityTimeout", "SecurityCheckTimeout", "onReady">> \in LeafArc
        /\ <<"ready", "onReady">> \in EntryArc
        /\ {"onWaitCovidContoller", "onWaitEntryTicket"} \subseteq OnEntry
    BY DEF LeafArc, EntryArc, OnEntry, EntryLocked
  <2> QED BY <1>0, <2>1, <2>2 DEF Arc, TimeoutOf, Timer
<1> QED BY <1>1, <1>2, <1>3, <1>4

-----------------------------------------------------------------------------
(* The inductive invariant.  Awaited is stronger than the second half of   *)
(* NeverStuck: while the event a leaf submitted to itself is queued, its   *)
(* machine is the one being drained.                                       *)

Awaited ==
  \A g \in Gate :
    OwnEvents(st[g]) # {} => busy = g /\ Queued(g, OwnEvents(st[g]))
Timed ==
  \A g \in Gate :
    \A i \in Arms(st[g]) : timers[g][i] > 0 \/ Queued(g, {TimeoutOf[i]})
ServiceInv == TypeOK /\ Awaited /\ Timed

(* What every step but a drain does to the machines: no queue loses an     *)
(* event, and a delayed send that is gone has its event queued.            *)
Grown ==
  /\ st' = st /\ busy' = busy
  /\ \A h \in Gate : \A E : Holds(evq[h], E) => Holds(evq'[h], E)
  /\ \A h \in Gate : \A i \in Timer :
        timers'[h][i] = timers[h][i] \/ Holds(evq'[h], {TimeoutOf[i]})

LEMMA GrownKeeps == ASSUME ServiceInv, Grown PROVE Awaited' /\ Timed'
<1>1. Awaited'
  <2> SUFFICES ASSUME NEW g \in Gate, OwnEvents(st'[g]) # {}
               PROVE  busy' = g /\ Holds(evq'[g], OwnEvents(st'[g]))
    BY DEF Awaited, Queued, Holds
  <2>1. st' = st /\ busy' = busy BY DEF Grown
  <2>2. busy = g /\ Holds(evq[g], OwnEvents(st[g]))
    BY <2>1 DEF ServiceInv, Awaited, Queued, Holds
  <2> QED BY <2>1, <2>2 DEF Grown
<1>2. Timed'
  <2> SUFFICES ASSUME NEW g \in Gate, NEW i \in Arms(st'[g])
               PROVE  timers'[g][i] > 0 \/ Holds(evq'[g], {TimeoutOf[i]})
    BY DEF Timed, Queued, Holds
  <2>1. st' = st BY DEF Grown
  <2>2. st[g] \in Leaf BY DEF ServiceInv, TypeOK
  <2>3. i \in Timer BY <2>1, <2>2, TimeoutTaken
  <2>4. timers[g][i] > 0 \/ Holds(evq[g], {TimeoutOf[i]})
    BY <2>1 DEF ServiceInv, Timed, Queued, Holds
  <2> QED BY <2>3, <2>4 DEF Grown
<1> QED BY <1>1, <1>2

LEMMA SubmitGrows ==
  ASSUME TypeOK, NEW g \in Gate, NEW m \in Msg, Submit(g, m)
  PROVE  /\ \A h \in Gate : \A E : Holds(evq[h], E) => Holds(evq'[h], E)
         /\ Holds(evq'[g], {m.name})
<1>1. /\ evq[g] \in Seq(Msg)
      /\ evq'[g] = Append(evq[g], m)
      /\ \A h \in Gate : h # g => evq'[h] = evq[h]
  BY DEF Submit, TypeOK
<1>2. \A E : Holds(evq[g], E) => Holds(evq'[g], E) BY <1>1, HoldsAppend
<1>3. Holds(evq'[g], {m.name}) BY <1>1, HoldsAppend
<1> QED BY <1>1, <1>2, <1>3

LEMMA RedoGrows ==
  ASSUME TypeOK, NEW g \in Gate, NEW q \in Seq(Msg),
         \A E : Holds(evq[g], E) => Holds(q, E),
         evq' = [evq EXCEPT ![g] = q \o RedoSubmits(g)]
  PROVE  \A h \in Gate : \A E : Holds(evq[h], E) => Holds(evq'[h], E)
<1>1. /\ evq'[g] = q \o RedoSubmits(g)
      /\ \A h \in Gate : h # g => evq'[h] = evq[h]
  BY DEF TypeOK
<1>2. \A E : Holds(q, E) => Holds(evq'[g], E)
  BY <1>1, RedoType, HoldsConcat
<1> QED BY <1>1, <1>2

(* The outside of a gate: readers, crossboard, links, timers, replies. *)
LEMMA OutsideGrows ==
  ASSUME TypeOK, NEW g \in Gate,
         \/ Visitors(g)
         \/ \E e \in CrossboardEvent : Report(g, e)
         \/ Links(g)
         \/ \E i \in Timer : TimerFires(g, i)
         \/ \E e \in {"certOK", "certFail"} : CertReply(g, e)
         \/ DbAnswer(g)
         \/ Database(g)
         \/ \E c \in WidgetCmds : GateCommand(g, c)
  PROVE  Grown
<1>1. CASE Visitors(g)
  <2>0. PICK b \in Barcode : ScanEntry(g, b) \/ ScanExit(g, b) BY <1>1 DEF Visitors
  <2>1. Ev("en.barcode") \in Msg /\ [name |-> "ex.barcode", bc |-> b] \in Msg
    BY EvType, EventParts DEF ReaderEvent, Keys, Msg
  <2> QED BY <2>0, <2>1, SubmitGrows DEF ScanEntry, ScanExit, Grown, chart
<1>2. ASSUME NEW e \in CrossboardEvent, Report(g, e) PROVE Grown
  <2>1. Ev(e) \in Msg BY EvType, EventParts
  <2> QED BY <1>2, <2>1, SubmitGrows DEF Report, Grown, chart
<1>3. CASE ConnectMain(g)
  <2>1. Ev("mainConnected") \in Msg BY EvType, EventParts DEF LinkEvent
  <2>2. evq[g] \in Seq(Msg) BY DEF TypeOK
  <2>3. Append(evq[g], Ev("mainConnected")) \in Seq(Msg)
    BY <2>1, <2>2, AppendProperties
  <2>4. \A E : Holds(evq[g], E) => Holds(Append(evq[g], Ev("mainConnected")), E)
    BY <2>1, <2>2, HoldsAppend
  <2> QED BY <1>3, <2>3, <2>4, RedoGrows DEF ConnectMain, Grown, chart
<1>4. CASE ConnectSlave(g)
  <2>1. evq[g] \in Seq(Msg) BY DEF TypeOK
  <2> QED BY <1>4, <2>1, RedoGrows DEF ConnectSlave, Grown, chart
<1>5. CASE DisconnectMain(g)
  <2>1. Ev("mainDisconnected") \in Msg BY EvType, EventParts DEF LinkEvent
  <2> QED BY <1>5, <2>1, SubmitGrows DEF DisconnectMain, Grown, chart
<1>6. ASSUME NEW i \in Timer, TimerFires(g, i) PROVE Grown
  <2>1. Ev(TimeoutOf[i]) \in Msg /\ Ev(TimeoutOf[i]).name = TimeoutOf[i]
    BY EvType, TimeoutType DEF Ev
  <2>2. /\ \A h \in Gate : \A E : Holds(evq[h], E) => Holds(evq'[h], E)
        /\ Holds(evq'[g], {TimeoutOf[i]})
    BY <1>6, <2>1, SubmitGrows DEF TimerFires
  <2>3. \A h \in Gate : \A j \in Timer :
           h # g \/ j # i => timers'[h][j] = timers[h][j]
    BY <1>6 DEF TimerFires, TypeOK
  <2> QED BY <1>6, <2>2, <2>3 DEF TimerFires, Grown
<1>7. ASSUME NEW e \in {"certOK", "certFail"}, CertReply(g, e) PROVE Grown
  <2>1. Ev(e) \in Msg BY EvType, EventParts DEF CertEvent
  <2> QED BY <1>7, <2>1, SubmitGrows DEF CertReply, Grown, chart
<1>8. CASE DbAnswer(g)
  <2>1. Head(dbAns[g]) \in Msg
    BY <1>8, HeadTailProperties DEF DbAnswer, TypeOK
  <2> QED BY <1>8, <2>1, SubmitGrows DEF DbAnswer, Grown, chart
<1>9. CASE Database(g)
  BY <1>9 DEF Database, DbCheck, DbConfirm, DbFails, Grown, chart
<1>10. ASSUME NEW c \in WidgetCmds, GateCommand(g, c) PROVE Grown
  <2>1. Ev("cmd.arm") \in Msg /\ Ev("cmd.unlock") \in Msg
    BY EvType, EventParts DEF CommandEvent
  <2>2. \A h \in Gate : \A E : Holds(evq[h], E) => Holds(evq'[h], E)
    BY <1>10, <2>1, SubmitGrows DEF GateCommand
  <2> QED BY <1>10, <2>2 DEF GateCommand, Grown, chart
<1> QED
  BY <1>1, <1>2, <1>3, <1>4, <1>5, <1>6, <1>7, <1>8, <1>9, <1>10 DEF Links

-----------------------------------------------------------------------------
(* A drain. *)

(* No other machine waits for an event of its own. *)
LEMMA OthersSettled ==
  ASSUME ServiceInv, WicketAssumption, NEW g \in Gate, Draining(g),
         NEW h \in Gate, h # g
  PROVE  OwnEvents(st[h]) = {}
BY DEF ServiceInv, Awaited, Draining, WicketAssumption

LEMMA SubmitsOwn ==
  ASSUME TypeOK, NEW g \in Gate, NEW t, NEW reg, OwnEvents(t) # {}
  PROVE  Holds(Submits(g, t, reg), OwnEvents(t))
<1> DEFINE q == Submits(g, t, reg)
<1>1. CASE IsScan(t)
  <2>1. OwnEvents(t) = DoubleScanEvent
    BY <1>1 DEF OwnEvents, IsScan, EntryScan, ExitScan
  <2>2. \/ q = <<Ev("fail.dblscn")>>
        \/ q = <<[name |-> "ok.dblscn", bc |-> ScanKey(g, t)]>>
    BY <1>1 DEF Submits, IsScan, EntryScan, ExitScan, Onward
  <2> QED BY <2>1, <2>2 DEF Holds, Ev, DoubleScanEvent
<1>2. CASE t \in {"onEntryPassed", "onExitPassed"}
  <2>1. OwnEvents(t) = {"passed"}
    BY <1>2 DEF OwnEvents, IsScan, EntryScan, ExitScan
  <2>2. q = <<Ev("passed")>>
    BY <1>2 DEF Submits, Onward, IsScan, EntryScan, ExitScan
  <2> QED BY <2>1, <2>2 DEF Holds, Ev
<1>3. CASE t \in {"onEntryDrop", "onExitDrop"}
  <2>1. OwnEvents(t) = {"ready"}
    BY <1>3 DEF OwnEvents, IsScan, EntryScan, ExitScan
  <2>2. q = <<Ev("ready")>>
    BY <1>3 DEF Submits, Onward, IsScan, EntryScan, ExitScan
  <2> QED BY <2>1, <2>2 DEF Holds, Ev
<1> QED BY <1>1, <1>2, <1>3 DEF OwnEvents

LEMMA MoveKeeps ==
  ASSUME ServiceInv, WicketAssumption, NEW g \in Gate, Move(g)
  PROVE  Awaited' /\ Timed'
<1> DEFINE reg(t) == RegistryAfterExit(g, st[g], t)
<1>1. PICK t \in Leaf :
        /\ st' = [st EXCEPT ![g] = t]
        /\ timers' = [timers EXCEPT ![g] = TimersAfter(g, st[g], t)]
        /\ evq' = [evq EXCEPT ![g] = Tail(@) \o Submits(g, t, reg(t))]
  BY DEF Move, Targets
<1> HIDE DEF reg
<1>2. Draining(g) /\ DrainGoesOn(g) BY DEF Move
<1>3. TypeOK BY DEF ServiceInv
<1>4. /\ st'[g] = t /\ evq'[g] = Tail(evq[g]) \o Submits(g, t, reg(t))
      /\ timers'[g] = TimersAfter(g, st[g], t)
      /\ \A h \in Gate : h # g =>
           st'[h] = st[h] /\ evq'[h] = evq[h] /\ timers'[h] = timers[h]
  BY <1>1, <1>3 DEF TypeOK
<1>5. Awaited'
  <2> SUFFICES ASSUME NEW h \in Gate, OwnEvents(st'[h]) # {}
               PROVE  busy' = h /\ Holds(evq'[h], OwnEvents(st'[h]))
    BY DEF Awaited, Queued, Holds
  <2>1. h = g BY <1>2, <1>4, OthersSettled
  <2>2. Tail(evq[g]) \in Seq(Msg) /\ Submits(g, t, reg(t)) \in Seq(Msg)
    BY <1>2, <1>3, HeadOfQueue, SubmitsType DEF Draining
  <2>3. Holds(Submits(g, t, reg(t)), OwnEvents(t))
    BY <1>3, <1>4, <2>1, SubmitsOwn
  <2>4. Holds(evq'[g], OwnEvents(t))
    <3>1. Holds(Tail(evq[g]) \o Submits(g, t, reg(t)), OwnEvents(t))
      BY <2>2, <2>3, HoldsConcat
    <3> QED BY <1>4, <3>1
  <2>5. evq'[g] \in Seq(Msg)
    BY <1>4, <2>2, ConcatProperties
  <2>6. evq'[g] # <<>> BY <2>4, <2>5, HoldsSome
  <2>7. busy' = g BY <1>2, <2>6 DEF DrainGoesOn
  <2> QED BY <1>4, <2>1, <2>4, <2>7
<1>6. Timed'
  <2> SUFFICES ASSUME NEW h \in Gate, NEW i \in Arms(st'[h])
               PROVE  timers'[h][i] > 0 \/ Holds(evq'[h], {TimeoutOf[i]})
    BY DEF Timed, Queued, Holds
  <2>1. CASE h = g
    <3>1. i \in Timer BY <1>4, <2>1, TimeoutTaken
    <3>2. timers[g][i] \in Nat BY <1>3, <3>1 DEF TypeOK
    <3>3. TimersAfter(g, st[g], t)[i] > 0
      BY <1>4, <2>1, <3>1, <3>2 DEF TimersAfter
    <3> QED BY <1>4, <2>1, <3>3
  <2>2. CASE h # g
    BY <1>4, <2>2 DEF ServiceInv, Timed, Queued, Holds
  <2> QED BY <2>1, <2>2
<1> QED BY <1>5, <1>6

LEMMA DiscardKeeps ==
  ASSUME ServiceInv, WicketAssumption, NEW g \in Gate, Discard(g)
  PROVE  Awaited' /\ Timed'
<1>1. TypeOK /\ Draining(g) /\ DrainGoesOn(g) /\ Targets(g) = {}
      /\ st' = st /\ timers' = timers
  BY DEF ServiceInv, Discard, chart
<1>2. /\ evq[g] \in Seq(Msg) /\ evq[g] # <<>>
      /\ evq'[g] = Tail(evq[g]) /\ Tail(evq[g]) \in Seq(Msg)
      /\ \A h \in Gate : h # g => evq'[h] = evq[h]
      /\ st[g] \in Leaf
  BY <1>1, HeadOfQueue DEF Discard, Draining, TypeOK
<1>3. ASSUME NEW e, e # "en.barcode", NEW t \in Leaf, Arc(st[g], e, t)
      PROVE  Head(evq[g]).name # e
  BY <1>1, <1>3 DEF Targets, Cond
<1>4. \A h \in Gate : \A E :
         h # g \/ Head(evq[g]).name \notin E => (Holds(evq[h], E) => Holds(evq'[h], E))
  BY <1>2, HoldsTail
<1>5. Awaited'
  <2> SUFFICES ASSUME NEW h \in Gate, OwnEvents(st[h]) # {}
               PROVE  busy' = h /\ Holds(evq'[h], OwnEvents(st[h]))
    BY <1>1 DEF Awaited, Queued, Holds
  <2>1. h = g BY <1>1, OthersSettled
  <2>2. Head(evq[g]).name \notin OwnEvents(st[g])
    BY <1>2, <1>3, OwnEventTaken
  <2>3. Holds(evq[g], OwnEvents(st[g]))
    BY <2>1 DEF ServiceInv, Awaited, Queued, Holds
  <2>4. Holds(evq'[g], OwnEvents(st[g])) BY <1>4, <2>2, <2>3
  <2>5. evq'[g] # <<>> BY <1>2, <2>4, HoldsSome
  <2> QED BY <1>1, <2>1, <2>4, <2>5 DEF DrainGoesOn
<1>6. Timed'
  <2> SUFFICES ASSUME NEW h \in Gate, NEW i \in Arms(st[h])
               PROVE  timers[h][i] > 0 \/ Holds(evq'[h], {TimeoutOf[i]})
    BY <1>1 DEF Timed, Queued, Holds
  <2>1. timers[h][i] > 0 \/ Holds(evq[h], {TimeoutOf[i]})
    BY DEF ServiceInv, Timed, Queued, Holds
  <2>2. h = g => Head(evq[g]).name # TimeoutOf[i]
    BY <1>2, <1>3, TimeoutTaken
  <2> QED BY <1>4, <2>1, <2>2
<1> QED BY <1>5, <1>6

-----------------------------------------------------------------------------
LEMMA ServiceInductive == Spec => []ServiceInv
<1>1. Init => Awaited /\ Timed
  <2>1. OwnEvents("onMainDisconnected") = {} /\ Arms("onMainDisconnected") = {}
    BY DEF OwnEvents, IsScan, EntryScan, ExitScan, Arms, ShowTimed, PassTimed, DbTimed
  <2> QED BY <2>1 DEF Init, Awaited, Timed
<1>2. TypeOK' /\ ServiceInv /\ [Next]_vars => ServiceInv'
  <2> SUFFICES ASSUME TypeOK', ServiceInv, [Next]_vars PROVE Awaited' /\ Timed'
    BY DEF ServiceInv
  <2>0. TypeOK BY DEF ServiceInv
  <2>1. ASSUME NEW g \in Gate, Drain(g) PROVE Awaited' /\ Timed'
    BY <2>1, MoveKeeps, DiscardKeeps, WicketAssumption DEF Drain
  <2>2. CASE Grown BY <2>2, GrownKeeps
  <2>3. ASSUME NEW c \in WidgetCmds, ServerCommand(c) PROVE Grown
    BY <2>3 DEF ServerCommand, Grown, chart
  <2>4. ASSUME UNCHANGED vars PROVE Grown
    BY <2>4 DEF vars, chart, Grown
  <2> QED
    BY <2>0, <2>1, <2>2, <2>3, <2>4, OutsideGrows, GrownKeeps DEF Next
<1> QED BY <1>1, <1>2, TypeCorrect, PTL DEF Spec, ServiceInv

(* A turnstile in a state that nothing outside must end always has what    *)
(* ends it armed or queued, however many stale timers, foreign cancels,    *)
(* faults, reconnections and commands came before.                         *)
THEOREM NeverStuckHolds == Spec => []NeverStuck
<1>1. ServiceInv => NeverStuck
  BY DEF ServiceInv, Awaited, Timed, NeverStuck
<1> QED BY <1>1, ServiceInductive, PTL

(* No slot of the main thread ever sees a machine in a leaf that the drain *)
(* which entered it was to leave, so a repeated entry script confirms no   *)
(* pass and takes no lock a second time.                                   *)
THEOREM SettledHolds == Spec => []SettledBetweenDrains
<1>1. ServiceInv => SettledBetweenDrains
  BY WicketAssumption DEF ServiceInv, Awaited, SettledBetweenDrains
<1> QED BY <1>1, ServiceInductive, PTL

-----------------------------------------------------------------------------
(* The loss of the main reader.  OfflineSeen speaks of an empty queue; what *)
(* every step keeps is where the queue will leave the machine: while no    *)
(* main reader is connected, a "mainDisconnected" that no "mainConnected"  *)
(* follows is still queued, or the machine is off line and no              *)
(* "mainConnected" is queued.                                              *)

Connecting == {"mainConnected"}

Disconnects(q) ==
  \E k \in DOMAIN q : /\ q[k].name = "mainDisconnected"
                      /\ \A j \in DOMAIN q : j > k => q[j].name # "mainConnected"

EndsOffline(q, s) ==
  Disconnects(q) \/ (s = "onMainDisconnected" /\ ~Holds(q, Connecting))

OfflineInv == \A g \in Gate : links[g] = 0 => EndsOffline(evq[g], st[g])

(* The signals of a database thread, none of which is of a link. *)
DbMsg == [name : DbEvent, bc : Keys]
AnswersInv == dbAns \in [Gate -> Seq(DbMsg)]

-----------------------------------------------------------------------------
(* Queues. *)

LEMMA OfflineConcat ==
  ASSUME NEW q \in Seq(Msg), NEW r \in Seq(Msg), ~Holds(r, Connecting), NEW s,
         EndsOffline(q, s)
  PROVE  EndsOffline(q \o r, s)
<1>1. /\ DOMAIN q = 1..Len(q) /\ Len(q) \in Nat
      /\ DOMAIN r = 1..Len(r) /\ Len(r) \in Nat
      /\ q \o r \in Seq(Msg) /\ Len(q \o r) = Len(q) + Len(r)
      /\ \A k \in 1..(Len(q) + Len(r)) :
           (q \o r)[k] = IF k <= Len(q) THEN q[k] ELSE r[k - Len(q)]
  BY LenProperties, ConcatProperties
<1>2. DOMAIN (q \o r) = 1 .. (Len(q) + Len(r)) BY <1>1, LenProperties
<1>3. \A j \in DOMAIN (q \o r) : j > Len(q) => (q \o r)[j].name # "mainConnected"
  <2> SUFFICES ASSUME NEW j \in DOMAIN (q \o r), j > Len(q)
               PROVE  (q \o r)[j].name # "mainConnected"
    OBVIOUS
  <2>1. j - Len(q) \in DOMAIN r /\ ~(j <= Len(q)) BY <1>1, <1>2
  <2>2. (q \o r)[j] = r[j - Len(q)] BY <1>1, <1>2, <2>1
  <2> QED BY <2>1, <2>2 DEF Holds, Connecting
<1>4. \A j \in DOMAIN (q \o r) : j <= Len(q) => j \in DOMAIN q /\ (q \o r)[j] = q[j]
  BY <1>1, <1>2
<1>5. CASE Disconnects(q)
  <2>1. PICK k \in DOMAIN q :
          /\ q[k].name = "mainDisconnected"
          /\ \A j \in DOMAIN q : j > k => q[j].name # "mainConnected"
    BY <1>5 DEF Disconnects
  <2>2. k \in DOMAIN (q \o r) /\ (q \o r)[k] = q[k] BY <1>1, <1>2
  <2>3. ASSUME NEW j \in DOMAIN (q \o r), j > k PROVE (q \o r)[j].name # "mainConnected"
    <3>1. CASE j <= Len(q) BY <1>4, <2>1, <2>3, <3>1
    <3>2. CASE j > Len(q) BY <1>3, <3>2
    <3> QED BY <1>1, <1>2, <3>1, <3>2
  <2>4. Disconnects(q \o r) BY <2>1, <2>2, <2>3 DEF Disconnects
  <2> QED BY <2>4 DEF EndsOffline
<1>6. CASE s = "onMainDisconnected" /\ ~Holds(q, Connecting)
  <2>1. ASSUME NEW j \in DOMAIN (q \o r) PROVE (q \o r)[j].name # "mainConnected"
    <3>1. CASE j <= Len(q) BY <1>4, <1>6, <3>1 DEF Holds, Connecting
    <3>2. CASE j > Len(q) BY <1>3, <3>2
    <3> QED BY <1>1, <1>2, <3>1, <3>2
  <2> QED BY <1>6, <2>1 DEF EndsOffline, Holds, Connecting
<1> QED BY <1>5, <1>6 DEF EndsOffline

LEMMA OfflineAppend ==
  ASSUME NEW q \in Seq(Msg), NEW m \in Msg, m.name # "mainConnected", NEW s
  PROVE  /\ EndsOffline(q, s) => EndsOffline(Append(q, m), s)
         /\ m.name = "mainDisconnected" => EndsOffline(Append(q, m), s)
<1>1. /\ DOMAIN q = 1..Len(q) /\ Len(q) \in Nat
      /\ Append(q, m) \in Seq(Msg) /\ Len(Append(q, m)) = Len(q) + 1
      /\ \A k \in 1..Len(q) : Append(q, m)[k] = q[k]
      /\ Append(q, m)[Len(q) + 1] = m
  BY LenProperties, AppendProperties
<1>2. DOMAIN Append(q, m) = 1 .. (Len(q) + 1) BY <1>1, LenProperties
<1>3. ASSUME Disconnects(q) PROVE Disconnects(Append(q, m))
  <2>1. PICK k \in DOMAIN q :
          /\ q[k].name = "mainDisconnected"
          /\ \A j \in DOMAIN q : j > k => q[j].name # "mainConnected"
    BY <1>3 DEF Disconnects
  <2>2. k \in DOMAIN Append(q, m) /\ Append(q, m)[k] = q[k] BY <1>1, <1>2
  <2>3. ASSUME NEW j \in DOMAIN Append(q, m), j > k
        PROVE  Append(q, m)[j].name # "mainConnected"
    <3>1. CASE j = Len(q) + 1 BY <1>1, <3>1
    <3>2. CASE j \in DOMAIN q BY <1>1, <2>1, <2>3, <3>2
    <3> QED BY <1>1, <1>2, <3>1, <3>2
  <2> QED BY <2>1, <2>2, <2>3 DEF Disconnects
<1>4. ASSUME ~Holds(q, Connecting) PROVE ~Holds(Append(q, m), Connecting)
  <2>1. ASSUME NEW j \in DOMAIN Append(q, m) PROVE Append(q, m)[j].name # "mainConnected"
    <3>1. CASE j = Len(q) + 1 BY <1>1, <3>1
    <3>2. CASE j \in DOMAIN q BY <1>1, <1>4, <3>2 DEF Holds, Connecting
    <3> QED BY <1>1, <1>2, <3>1, <3>2
  <2> QED BY <2>1 DEF Holds, Connecting
<1>5. ASSUME m.name = "mainDisconnected" PROVE Disconnects(Append(q, m))
  <2>1. Len(q) + 1 \in DOMAIN Append(q, m) BY <1>1, <1>2
  <2>2. \A j \in DOMAIN Append(q, m) : ~(j > Len(q) + 1) BY <1>1, <1>2
  <2> QED BY <1>1, <1>5, <2>1, <2>2 DEF Disconnects
<1> QED BY <1>3, <1>4, <1>5 DEF EndsOffline

LEMMA OfflineTail ==
  ASSUME NEW q \in Seq(Msg), q # <<>>
  PROVE  /\ Disconnects(q) => \/ Disconnects(Tail(q))
                              \/ /\ Head(q).name = "mainDisconnected"
                                 /\ ~Holds(Tail(q), Connecting)
         /\ ~Holds(q, Connecting) => /\ Head(q).name # "mainConnected"
                                     /\ ~Holds(Tail(q), Connecting)
<1>1. /\ DOMAIN q = 1..Len(q) /\ Len(q) \in Nat
      /\ Tail(q) \in Seq(Msg) /\ Len(Tail(q)) = Len(q) - 1
      /\ \A k \in 1..Len(Tail(q)) : Tail(q)[k] = q[k + 1]
      /\ Head(q) = q[1]
  BY LenProperties, HeadTailProperties
<1>2. DOMAIN Tail(q) = 1 .. (Len(q) - 1) BY <1>1, LenProperties
<1>3. \A j \in DOMAIN Tail(q) : j + 1 \in DOMAIN q /\ j + 1 > 1 /\ Tail(q)[j] = q[j + 1]
  BY <1>1, <1>2
<1>4. 1 \in DOMAIN q
  <2>1. Len(q) # 0 BY EmptySeq
  <2> QED BY <1>1, <2>1
<1>5. ASSUME Disconnects(q), ~Disconnects(Tail(q))
      PROVE  Head(q).name = "mainDisconnected" /\ ~Holds(Tail(q), Connecting)
  <2>1. PICK k \in DOMAIN q :
          /\ q[k].name = "mainDisconnected"
          /\ \A j \in DOMAIN q : j > k => q[j].name # "mainConnected"
    BY <1>5 DEF Disconnects
  <2>2. k = 1
    <3> SUFFICES ASSUME k # 1 PROVE FALSE OBVIOUS
    <3>1. k - 1 \in DOMAIN Tail(q) /\ Tail(q)[k - 1] = q[k]
      <4>1. k - 1 \in 1 .. (Len(q) - 1) /\ (k - 1) + 1 = k BY <1>1
      <4> QED BY <1>1, <1>2, <4>1
    <3>2. \A j \in DOMAIN Tail(q) : j > k - 1 => j + 1 > k
      BY <1>1, <1>2
    <3>3. \A j \in DOMAIN Tail(q) : j > k - 1 => Tail(q)[j].name # "mainConnected"
      BY <1>3, <2>1, <3>2
    <3> QED BY <1>5, <2>1, <3>1, <3>3 DEF Disconnects
  <2> QED BY <1>1, <1>3, <2>1, <2>2 DEF Holds, Connecting
<1>6. ASSUME ~Holds(q, Connecting)
      PROVE  Head(q).name # "mainConnected" /\ ~Holds(Tail(q), Connecting)
  BY <1>1, <1>3, <1>4, <1>6 DEF Holds, Connecting
<1> QED BY <1>5, <1>6

-----------------------------------------------------------------------------
(* The chart and what its leaves submit. *)

LEMMA OfflineArcs ==
  /\ \A s, t : Arc(s, "mainDisconnected", t) => t = "onMainDisconnected"
  /\ \A s \in Leaf : s # "onMainDisconnected"
                       => Arc(s, "mainDisconnected", "onMainDisconnected")
  /\ \A e, t : Arc("onMainDisconnected", e, t) => e = "mainConnected"
<1>1. ASSUME NEW s, NEW t, Arc(s, "mainDisconnected", t) PROVE t = "onMainDisconnected"
  <2>1. <<s, "mainDisconnected", t>> \notin LeafArc BY DEF LeafArc
  <2>2. /\ <<"mainDisconnected", t>> \notin EntryArc
        /\ <<"mainDisconnected", t>> \notin ExitArc
        /\ <<"mainDisconnected", t>> \notin ArmedArc
    BY DEF EntryArc, ExitArc, ArmedArc
  <2> QED BY <1>1, <2>1, <2>2 DEF Arc, FromConnected, ConnectedArc
<1>2. ASSUME NEW s \in Leaf, s # "onMainDisconnected"
      PROVE  Arc(s, "mainDisconnected", "onMainDisconnected")
  BY <1>2 DEF Leaf, Arc, FromConnected, ConnectedArc
<1>3. ASSUME NEW e, NEW t, Arc("onMainDisconnected", e, t) PROVE e = "mainConnected"
  <2>1. "onMainDisconnected" \notin OnMainConnected
    BY DEF OnMainConnected, OnArmed, Serving, OnEntry, EntryLocked, EntryScan,
           OnExit, ExitLocked, ExitScan
  <2>2. /\ OnArmed \subseteq OnMainConnected /\ OnEntry \subseteq OnArmed
        /\ OnExit \subseteq OnArmed
    BY DEF OnMainConnected, OnArmed, Serving
  <2>3. <<"onMainDisconnected", e, t>> \in LeafArc
    BY <1>3, <2>1, <2>2 DEF Arc, FromConnected
  <2> QED BY <2>3 DEF LeafArc
<1> QED BY <1>1, <1>2, <1>3

LEMMA NoneHeld == ~Holds(<<>>, Connecting)
<1>1. DOMAIN <<>> = {} OBVIOUS
<1> QED BY <1>1 DEF Holds

LEMMA OneHeld ==
  ASSUME NEW m, m.name # "mainConnected" PROVE ~Holds(<<m>>, Connecting)
<1>1. DOMAIN <<m>> = {1} /\ <<m>>[1] = m OBVIOUS
<1> QED BY <1>1 DEF Holds, Connecting

LEMMA SubmitsNoLink ==
  ASSUME NEW g \in Gate, NEW t, NEW reg
  PROVE  ~Holds(Submits(g, t, reg), Connecting)
<1>1. \A e : e # "mainConnected" => ~Holds(<<Ev(e)>>, Connecting)
  BY OneHeld DEF Ev
<1>2. \A b : /\ ~Holds(<<[name |-> "ok.dblscn", bc |-> b]>>, Connecting)
             /\ ~Holds(<<[name |-> "isCovidQR", bc |-> b]>>, Connecting)
  BY OneHeld
<1>3. ~Holds(Onward(t), Connecting)
  BY <1>1, NoneHeld DEF Onward
<1>4. CASE IsScan(t)
  BY <1>1, <1>2, <1>4 DEF Submits
<1>5. CASE ~IsScan(t)
  BY <1>1, <1>2, <1>3, <1>5 DEF Submits
<1> QED BY <1>4, <1>5

LEMMA RedoNoLink ==
  ASSUME NEW g \in Gate PROVE ~Holds(RedoSubmits(g), Connecting)
BY SubmitsNoLink, NoneHeld DEF RedoSubmits

-----------------------------------------------------------------------------
(* The steps. *)

LEMMA OfflineSubmit ==
  ASSUME TypeOK, OfflineInv, NEW g \in Gate, NEW m \in Msg,
         Submit(g, m), m.name # "mainConnected", UNCHANGED <<st, links>>
  PROVE  OfflineInv'
<1>1. evq \in [Gate -> Seq(Msg)] BY DEF TypeOK
<1> SUFFICES ASSUME NEW h \in Gate, links'[h] = 0 PROVE EndsOffline(evq'[h], st'[h])
  BY DEF OfflineInv
<1>2. EndsOffline(evq[h], st[h]) BY DEF OfflineInv
<1>3. CASE h = g
  <2>1. evq'[h] = Append(evq[h], m) BY <1>1, <1>3 DEF Submit
  <2> QED BY <1>1, <1>2, <2>1, OfflineAppend
<1>4. CASE h # g
  <2>1. evq'[h] = evq[h] BY <1>1, <1>4 DEF Submit
  <2> QED BY <1>2, <2>1
<1> QED BY <1>3, <1>4

LEMMA OfflineDrain ==
  ASSUME TypeOK, OfflineInv, NEW g \in Gate, Drain(g) PROVE OfflineInv'
<1> DEFINE e == Head(evq[g]).name
<1>1. /\ evq \in [Gate -> Seq(Msg)] /\ st \in [Gate -> Leaf] /\ evq[g] # <<>>
      /\ links' = links
  BY DEF TypeOK, Drain, Move, Discard, Draining
<1>2. Tail(evq[g]) \in Seq(Msg) BY <1>1, HeadOfQueue
<1>3. \A h \in Gate : h # g => evq'[h] = evq[h] /\ st'[h] = st[h]
  BY <1>1 DEF Drain, Move, Discard, chart
<1> SUFFICES ASSUME NEW h \in Gate, links'[h] = 0 PROVE EndsOffline(evq'[h], st'[h])
  BY DEF OfflineInv
<1>4. EndsOffline(evq[h], st[h]) BY <1>1 DEF OfflineInv
<1>5. CASE h # g BY <1>3, <1>4, <1>5
<1>6. CASE h = g /\ Move(g)
  <2>1. PICK t \in Targets(g) :
          /\ st' = [st EXCEPT ![g] = t]
          /\ evq' = [evq EXCEPT ![g] = Tail(@) \o Submits(g, t, RegistryAfterExit(g, st[g], t))]
    BY <1>6 DEF Move
  <2> DEFINE r == Submits(g, t, RegistryAfterExit(g, st[g], t))
  <2>2. st'[g] = t /\ evq'[g] = Tail(evq[g]) \o r BY <1>1, <2>1
  <2>3. r \in Seq(Msg) /\ ~Holds(r, Connecting) BY SubmitsType, SubmitsNoLink
  <2> HIDE DEF r
  <2>4. Arc(st[g], e, t) BY DEF Targets
  <2>5. EndsOffline(Tail(evq[g]), t)
    <3>1. CASE Disconnects(evq[g])
      <4>1. CASE Disconnects(Tail(evq[g])) BY <4>1 DEF EndsOffline
      <4>2. CASE e = "mainDisconnected" /\ ~Holds(Tail(evq[g]), Connecting)
        BY <2>4, <4>2, OfflineArcs DEF EndsOffline
      <4> QED BY <1>1, <3>1, <4>1, <4>2, OfflineTail
    <3>2. CASE st[g] = "onMainDisconnected" /\ ~Holds(evq[g], Connecting)
      BY <1>1, <2>4, <3>2, OfflineTail, OfflineArcs
    <3> QED BY <1>4, <1>6, <3>1, <3>2 DEF EndsOffline
  <2>6. EndsOffline(Tail(evq[g]) \o r, t) BY <1>2, <2>3, <2>5, OfflineConcat
  <2> QED BY <1>6, <2>2, <2>6
<1>7. CASE h = g /\ Discard(g)
  <2>1. st'[g] = st[g] /\ evq'[g] = Tail(evq[g]) BY <1>1, <1>7 DEF Discard, chart
  <2>2. EndsOffline(Tail(evq[g]), st[g])
    <3>1. CASE Disconnects(evq[g])
      <4>1. CASE Disconnects(Tail(evq[g])) BY <4>1 DEF EndsOffline
      <4>2. CASE e = "mainDisconnected" /\ ~Holds(Tail(evq[g]), Connecting)
        <5>1. Targets(g) = {} BY <1>7 DEF Discard
        <5>2. "onMainDisconnected" \in Leaf BY DEF Leaf
        <5>3. Cond(g, st[g], e, "onMainDisconnected") BY <4>2 DEF Cond
        <5>4. ~Arc(st[g], e, "onMainDisconnected") BY <5>1, <5>2, <5>3 DEF Targets
        <5>5. st[g] = "onMainDisconnected" BY <1>1, <4>2, <5>4, OfflineArcs
        <5> QED BY <4>2, <5>5 DEF EndsOffline
      <4> QED BY <1>1, <3>1, <4>1, <4>2, OfflineTail
    <3>2. CASE st[g] = "onMainDisconnected" /\ ~Holds(evq[g], Connecting)
      BY <1>1, <3>2, OfflineTail DEF EndsOffline
    <3> QED BY <1>4, <1>7, <3>1, <3>2 DEF EndsOffline
  <2> QED BY <1>7, <2>1, <2>2
<1> QED BY <1>5, <1>6, <1>7 DEF Drain

LEMMA OfflineLinks ==
  ASSUME TypeOK, OfflineInv, NEW g \in Gate, Links(g) PROVE OfflineInv'
<1>1. /\ evq \in [Gate -> Seq(Msg)] /\ links \in [Gate -> Nat] /\ st' = st
  BY DEF TypeOK, Links, ConnectMain, ConnectSlave, DisconnectMain, chart
<1> SUFFICES ASSUME NEW h \in Gate, links'[h] = 0 PROVE EndsOffline(evq'[h], st'[h])
  BY DEF OfflineInv
<1>2. CASE h # g
  <2>1. links'[h] = links[h] /\ evq'[h] = evq[h]
    BY <1>1, <1>2 DEF Links, ConnectMain, ConnectSlave, DisconnectMain, Submit
  <2> QED BY <1>1, <2>1 DEF OfflineInv
<1>3. CASE h = g /\ ConnectMain(g)
  <2>1. links'[g] = links[g] + 1 BY <1>1, <1>3 DEF ConnectMain
  <2> QED BY <1>1, <1>3, <2>1
<1>4. CASE h = g /\ ConnectSlave(g)
  <2>1. links'[g] = links[g] /\ evq'[g] = evq[g] \o RedoSubmits(g)
    BY <1>1, <1>4 DEF ConnectSlave
  <2>2. EndsOffline(evq[g], st[g]) BY <1>4, <2>1 DEF OfflineInv
  <2> QED BY <1>1, <1>4, <2>1, <2>2, RedoType, RedoNoLink, OfflineConcat
<1>5. CASE h = g /\ DisconnectMain(g)
  <2>1. evq'[g] = Append(evq[g], Ev("mainDisconnected"))
    BY <1>1, <1>5 DEF DisconnectMain, Submit
  <2>2. Ev("mainDisconnected") \in Msg /\ Ev("mainDisconnected").name = "mainDisconnected"
    BY EvType, EventParts DEF LinkEvent, Ev
  <2> QED BY <1>1, <1>5, <2>1, <2>2, OfflineAppend
<1> QED BY <1>2, <1>3, <1>4, <1>5 DEF Links

LEMMA DbMsgType == \A m \in DbMsg : m \in Msg /\ m.name # "mainConnected"
BY EventParts DEF DbMsg, Msg, DbEvent

(* The events the other slots of the main thread submit. *)
LEMMA OfflineSlots ==
  ASSUME TypeOK, OfflineInv, AnswersInv, NEW g \in Gate,
         \/ Visitors(g)
         \/ \E e \in CrossboardEvent : Report(g, e)
         \/ \E i \in Timer : TimerFires(g, i)
         \/ \E e \in {"certOK", "certFail"} : CertReply(g, e)
         \/ DbAnswer(g)
         \/ \E c \in WidgetCmds : GateCommand(g, c)
  PROVE  OfflineInv'
<1>1. \A e \in Event : Ev(e) \in Msg /\ Ev(e).name = e BY EvType DEF Ev
<1>2. CASE Visitors(g)
  <2>1. PICK b \in Barcode : ScanEntry(g, b) \/ ScanExit(g, b) BY <1>2 DEF Visitors
  <2>2. [name |-> "ex.barcode", bc |-> b] \in Msg
    BY EventParts DEF ReaderEvent, Msg, Keys
  <2>3. Ev("en.barcode") \in Msg /\ Ev("en.barcode").name = "en.barcode"
    BY <1>1, EventParts DEF ReaderEvent
  <2> QED BY <2>1, <2>2, <2>3, OfflineSubmit DEF ScanEntry, ScanExit, chart
<1>3. ASSUME NEW e \in CrossboardEvent, Report(g, e) PROVE OfflineInv'
  <2>1. Ev(e) \in Msg /\ Ev(e).name = e /\ e # "mainConnected"
    BY <1>1, EventParts DEF CrossboardEvent
  <2> QED BY <1>3, <2>1, OfflineSubmit DEF Report, chart
<1>4. ASSUME NEW i \in Timer, TimerFires(g, i) PROVE OfflineInv'
  <2>1. TimeoutOf[i] # "mainConnected" BY DEF Timer, TimeoutOf
  <2>2. Ev(TimeoutOf[i]) \in Msg /\ Ev(TimeoutOf[i]).name # "mainConnected"
    BY <1>1, <2>1, TimeoutType
  <2> QED BY <1>4, <2>2, OfflineSubmit DEF TimerFires
<1>5. ASSUME NEW e \in {"certOK", "certFail"}, CertReply(g, e) PROVE OfflineInv'
  <2>1. Ev(e) \in Msg /\ Ev(e).name # "mainConnected"
    BY <1>1, EventParts DEF CertEvent
  <2> QED BY <1>5, <2>1, OfflineSubmit DEF CertReply, chart
<1>6. CASE DbAnswer(g)
  <2>1. Head(dbAns[g]) \in DbMsg
    BY <1>6, HeadTailProperties DEF DbAnswer, AnswersInv
  <2> QED BY <1>6, <2>1, DbMsgType, OfflineSubmit DEF DbAnswer, chart
<1>7. ASSUME NEW c \in WidgetCmds, GateCommand(g, c) PROVE OfflineInv'
  <2>1. /\ Ev("cmd.arm") \in Msg /\ Ev("cmd.arm").name # "mainConnected"
        /\ Ev("cmd.unlock") \in Msg /\ Ev("cmd.unlock").name # "mainConnected"
    BY <1>1, EventParts DEF CommandEvent
  <2>2. UNCHANGED <<st, links>> BY <1>7 DEF GateCommand, chart
  <2>3. CASE Submit(g, Ev("cmd.arm")) \/ Submit(g, Ev("cmd.unlock"))
    BY <2>1, <2>2, <2>3, OfflineSubmit
  <2>4. CASE UNCHANGED evq BY <2>2, <2>4 DEF OfflineInv
  <2> QED BY <1>7, <2>3, <2>4 DEF GateCommand
<1> QED BY <1>2, <1>3, <1>4, <1>5, <1>6, <1>7

LEMMA AnswersDb ==
  ASSUME TypeOK, AnswersInv, WicketAssumption, NEW g \in Gate,
         Database(g) \/ DbAnswer(g)
  PROVE  AnswersInv'
<1>1. \A m \in DbMsg : Answer(g, m) => AnswersInv'
  BY AppendProperties DEF Answer, AnswersInv
<1>2. CASE DbCheck(g)
  <2> DEFINE r == Head(dbReq[g])
             m == [name |-> CheckAnswer(r),
                   bc |-> IF CheckAnswer(r) = "ticketFail" THEN NoBarcode ELSE r.bc]
  <2>1. dbReq[g] \in Seq(Request) /\ dbReq[g] # <<>> BY <1>2 DEF TypeOK, DbCheck
  <2>2. r \in Request BY <2>1, HeadTailProperties
  <2>3. CheckAnswer(r) \in DbEvent BY <2>2, CheckAnswerType
  <2>4. m \in DbMsg BY <2>2, <2>3 DEF DbMsg, Request, Keys
  <2>5. Answer(g, m) BY <1>2 DEF DbCheck
  <2> QED BY <1>1, <2>4, <2>5
<1>3. CASE DbConfirm(g) BY <1>3 DEF DbConfirm, AnswersInv
<1>4. ASSUME NEW f \in DbFaults, DbFails(g, f) PROVE AnswersInv'
  <2>1. Ev("dbTimeout") \in DbMsg BY DEF Ev, DbMsg, DbEvent, Keys
  <2> QED BY <1>1, <1>4, <2>1 DEF DbFails, AnswersInv
<1>5. CASE DbAnswer(g)
  <2>1. dbAns[g] \in Seq(DbMsg) BY DEF AnswersInv
  <2>2. Tail(dbAns[g]) \in Seq(DbMsg) BY <1>5, <2>1, HeadTailProperties DEF DbAnswer
  <2> QED BY <1>5, <2>2 DEF DbAnswer, AnswersInv
<1> QED BY <1>2, <1>3, <1>4, <1>5 DEF Database

LEMMA OfflineInductive == Spec => [](OfflineInv /\ AnswersInv)
<1>1. Init => OfflineInv /\ AnswersInv
  <2> SUFFICES ASSUME Init PROVE OfflineInv /\ AnswersInv OBVIOUS
  <2>1. <<>> \in Seq(DbMsg) BY EmptySeq
  <2> QED BY <2>1, NoneHeld DEF Init, OfflineInv, AnswersInv, EndsOffline
<1>2. TypeOK /\ OfflineInv /\ AnswersInv /\ [Next]_vars => OfflineInv' /\ AnswersInv'
  <2> SUFFICES ASSUME TypeOK, OfflineInv, AnswersInv, [Next]_vars
               PROVE  OfflineInv' /\ AnswersInv'
    OBVIOUS
  <2>1. ASSUME NEW g \in Gate, Drain(g) PROVE OfflineInv' /\ AnswersInv'
    <3>1. UNCHANGED dbAns BY <2>1 DEF Drain, Move, Discard, db
    <3> QED BY <2>1, <3>1, OfflineDrain DEF AnswersInv
  <2>2. ASSUME NEW g \in Gate, Links(g) PROVE OfflineInv' /\ AnswersInv'
    <3>1. UNCHANGED dbAns BY <2>2 DEF Links, ConnectMain, ConnectSlave, DisconnectMain, db
    <3> QED BY <2>2, <3>1, OfflineLinks DEF AnswersInv
  <2>3. ASSUME NEW g \in Gate,
               \/ Visitors(g)
               \/ \E e \in CrossboardEvent : Report(g, e)
               \/ \E i \in Timer : TimerFires(g, i)
               \/ \E e \in {"certOK", "certFail"} : CertReply(g, e)
               \/ \E c \in WidgetCmds : GateCommand(g, c)
        PROVE  OfflineInv' /\ AnswersInv'
    <3>1. UNCHANGED dbAns
      BY <2>3 DEF Visitors, ScanEntry, ScanExit, Report, TimerFires, CertReply,
                  GateCommand, db
    <3> QED BY <2>3, <3>1, OfflineSlots DEF AnswersInv
  <2>4. ASSUME NEW g \in Gate, DbAnswer(g) PROVE OfflineInv' /\ AnswersInv'
    BY <2>4, OfflineSlots, AnswersDb, WicketAssumption
  <2>5. ASSUME NEW g \in Gate, Database(g) PROVE OfflineInv' /\ AnswersInv'
    <3>1. UNCHANGED <<st, evq, links>>
      BY <2>5 DEF Database, DbCheck, DbConfirm, DbFails, chart
    <3> QED BY <2>5, <3>1, AnswersDb, WicketAssumption DEF OfflineInv
  <2>6. ASSUME NEW c \in WidgetCmds, ServerCommand(c) PROVE OfflineInv' /\ AnswersInv'
    BY <2>6 DEF ServerCommand, OfflineInv, AnswersInv, chart, db
  <2>7. CASE UNCHANGED vars
    BY <2>7 DEF vars, chart, db, OfflineInv, AnswersInv
  <2> QED BY <2>1, <2>2, <2>3, <2>4, <2>5, <2>6, <2>7 DEF Next
<1> QED BY <1>1, <1>2, TypeCorrect, PTL DEF Spec

(* A turnstile none of whose main connections is left is off line as soon  *)
(* as its queue is drained, in whatever order old and new connections came *)
(* and went, for any number of them.                                       *)
THEOREM OfflineSeenHolds == Spec => []OfflineSeen
<1>1. TypeOK /\ OfflineInv => OfflineSeen
  <2> SUFFICES ASSUME OfflineInv, NEW g \in Gate, links[g] = 0, evq[g] = <<>>
               PROVE  st[g] = "onMainDisconnected"
    BY DEF OfflineSeen
  <2>1. EndsOffline(<<>>, st[g]) BY DEF OfflineInv
  <2>2. DOMAIN <<>> = {} OBVIOUS
  <2> QED BY <2>1, <2>2 DEF EndsOffline, Disconnects
<1> QED BY <1>1, OfflineInductive, TypeCorrect, PTL

-----------------------------------------------------------------------------
(***************************************************************************)
(* The double scan check implements ScanLock: for any bound on the queues, *)
(* any kinds of barcodes, any faults and any commands.                     *)
(***************************************************************************)

(* More about queues. *)

LEMMA HoldsTailOnly ==
  ASSUME NEW q \in Seq(Msg), q # <<>>, NEW E, Holds(Tail(q), E)
  PROVE  Holds(q, E) /\ Len(q) # 1
<1>1. /\ DOMAIN q = 1..Len(q) /\ Len(q) \in Nat
      /\ Tail(q) \in Seq(Msg) /\ Len(Tail(q)) = Len(q) - 1
      /\ \A k \in 1..Len(Tail(q)) : Tail(q)[k] = q[k + 1]
  BY LenProperties, HeadTailProperties
<1>2. DOMAIN Tail(q) = 1 .. (Len(q) - 1) BY <1>1, LenProperties
<1>3. PICK k \in 1 .. (Len(q) - 1) : Tail(q)[k].name \in E BY <1>2 DEF Holds
<1>4. k + 1 \in DOMAIN q /\ q[k + 1].name \in E BY <1>1, <1>3
<1> QED BY <1>1, <1>3, <1>4 DEF Holds

LEMMA HoldsConcatOnly ==
  ASSUME NEW q \in Seq(Msg), NEW r \in Seq(Msg), NEW E, Holds(q \o r, E)
  PROVE  Holds(q, E) \/ Holds(r, E)
<1>1. /\ DOMAIN q = 1..Len(q) /\ Len(q) \in Nat
      /\ DOMAIN r = 1..Len(r) /\ Len(r) \in Nat
      /\ q \o r \in Seq(Msg) /\ Len(q \o r) = Len(q) + Len(r)
      /\ \A k \in 1..(Len(q) + Len(r)) :
           (q \o r)[k] = IF k <= Len(q) THEN q[k] ELSE r[k - Len(q)]
  BY LenProperties, ConcatProperties
<1>2. DOMAIN (q \o r) = 1 .. (Len(q) + Len(r)) BY <1>1, LenProperties
<1>3. PICK k \in 1 .. (Len(q) + Len(r)) : (q \o r)[k].name \in E
  BY <1>2 DEF Holds
<1>4. CASE k <= Len(q)
  <2>1. k \in DOMAIN q /\ q[k].name \in E BY <1>1, <1>3, <1>4
  <2> QED BY <2>1 DEF Holds
<1>5. CASE ~(k <= Len(q))
  <2>1. k - Len(q) \in DOMAIN r /\ r[k - Len(q)].name \in E BY <1>1, <1>3, <1>5
  <2> QED BY <2>1 DEF Holds
<1> QED BY <1>4, <1>5

LEMMA HoldsAppendOnly ==
  ASSUME NEW q \in Seq(Msg), NEW m \in Msg, NEW E, Holds(Append(q, m), E)
  PROVE  Holds(q, E) \/ m.name \in E
<1>1. Append(q, m) = q \o <<m>> /\ <<m>> \in Seq(Msg)
  BY AppendIsConcat
<1>2. Holds(q, E) \/ Holds(<<m>>, E) BY <1>1, HoldsConcatOnly
<1> QED BY <1>2 DEF Holds

LEMMA HoldsNone == \A E : ~Holds(<<>>, E)
BY DEF Holds

LEMMA VerdictsHeld ==
  \A q : /\ Verdicts(q) = {v \in DoubleScanEvent : Holds(q, {v})}
         /\ Verdicts(q) \subseteq DoubleScanEvent
BY DEF Verdicts, Holds

(* An event that is no verdict is handled: the verdicts stay.              *)
LEMMA VerdictsTail ==
  ASSUME NEW q \in Seq(Msg), q # <<>>, Head(q).name \notin DoubleScanEvent
  PROVE  Verdicts(Tail(q)) = Verdicts(q)
<1>1. \A v \in DoubleScanEvent : Holds(Tail(q), {v}) <=> Holds(q, {v})
  BY HoldsTail, HoldsTailOnly
<1> QED BY <1>1, VerdictsHeld

(* A verdict is handled: at most it goes.                                  *)
LEMMA VerdictsTaken ==
  ASSUME NEW q \in Seq(Msg), q # <<>>, Head(q).name \in DoubleScanEvent
  PROVE  /\ Head(q).name \in Verdicts(q)
         /\ Verdicts(Tail(q)) \in {Verdicts(q), Verdicts(q) \ {Head(q).name}}
<1>1. Holds(q, {Head(q).name})
  <2>1. DOMAIN q = 1..Len(q) /\ Len(q) \in Nat \ {0} BY LenProperties, EmptySeq
  <2>2. 1 \in DOMAIN q /\ Head(q) = q[1] BY <2>1
  <2> QED BY <2>2 DEF Holds
<1>2. \A v \in DoubleScanEvent :
        /\ Holds(Tail(q), {v}) => Holds(q, {v})
        /\ v # Head(q).name => (Holds(q, {v}) => Holds(Tail(q), {v}))
  BY HoldsTail, HoldsTailOnly
<1>3. Head(q).name \in Verdicts(q) BY <1>1, VerdictsHeld
<1>4. /\ Verdicts(Tail(q)) \subseteq Verdicts(q)
      /\ Verdicts(q) \ {Head(q).name} \subseteq Verdicts(Tail(q))
  BY <1>2, VerdictsHeld
<1> QED BY <1>3, <1>4

LEMMA VerdictsConcat ==
  ASSUME NEW q \in Seq(Msg), NEW r \in Seq(Msg)
  PROVE  Verdicts(q \o r) = Verdicts(q) \cup Verdicts(r)
<1>1. \A v \in DoubleScanEvent :
        Holds(q \o r, {v}) <=> Holds(q, {v}) \/ Holds(r, {v})
  BY HoldsConcat, HoldsConcatOnly
<1> QED BY <1>1, VerdictsHeld

LEMMA VerdictsAppend ==
  ASSUME NEW q \in Seq(Msg), NEW m \in Msg, m.name \notin DoubleScanEvent
  PROVE  Verdicts(Append(q, m)) = Verdicts(q)
<1>1. \A v \in DoubleScanEvent : Holds(Append(q, m), {v}) <=> Holds(q, {v})
  BY HoldsAppend, HoldsAppendOnly
<1> QED BY <1>1, VerdictsHeld

-----------------------------------------------------------------------------
(* The chart: how the locked composites are entered and left. *)

Outside == {"onReady", "onSecurityTimeout", "setUnlocked", "onUnlocked",
            "onMainDisconnected"}

LEMMA ScanApart ==
  /\ EntryLocked \cap ExitLocked = {} /\ EntryScan \cap ExitScan = {}
  /\ (EntryLocked \cup ExitLocked) \cap (EntryScan \cup ExitScan) = {}
BY DEF EntryLocked, ExitLocked, EntryScan, ExitScan

LEMMA ArcOutside ==
  /\ \A e, t : <<e, t>> \in EntryArc \cup ExitArc \cup ArmedArc \cup ConnectedArc =>
        t \in Outside
  /\ \A t \in Outside :
        t \notin EntryLocked \cup ExitLocked \cup EntryScan \cup ExitScan
BY DEF Outside, EntryArc, ExitArc, ArmedArc, ConnectedArc,
       EntryLocked, ExitLocked, EntryScan, ExitScan

(* A scan state is left by the check's verdict.                            *)
LEMMA ArcOutOfScan ==
  ASSUME NEW s, NEW e \in DoubleScanEvent, NEW t, Arc(s, e, t), IsScan(s)
  PROVE  /\ ~IsScan(t)
         /\ e = "ok.dblscn" /\ s \in EntryScan => t \in EntryLocked
         /\ e = "ok.dblscn" /\ s \in ExitScan => t \in ExitLocked
         /\ e = "fail.dblscn" => t \notin EntryLocked \cup ExitLocked
<1>1. <<s, e, t>> \in LeafArc
  BY DEF Arc, FromConnected, DoubleScanEvent, EntryArc, ExitArc, ArmedArc, ConnectedArc
<1>2. \/ /\ e = "ok.dblscn" /\ s \in EntryScan
         /\ t \in {"onCheckTypeBarcode", "onCheckCertCtrl", "onCheckTicket"}
      \/ e = "ok.dblscn" /\ s \in ExitScan /\ t = "onCheckExitTicket"
      \/ e = "fail.dblscn" /\ t \in {"onShowEntryDoubleScanFail", "onShowExitDoubleScanFail"}
  BY <1>1 DEF LeafArc, IsScan, EntryScan, ExitScan, DoubleScanEvent
<1> QED
  BY <1>2 DEF IsScan, EntryScan, ExitScan, EntryLocked, ExitLocked

(* Elsewhere a locked composite is entered from within only, but for the   *)
(* way through onShowEnCertCtrlFail that a covid controller opens.         *)
LEMMA ArcIntoLocked ==
  ASSUME NEW s, NEW e, NEW t, Arc(s, e, t), ~IsScan(s),
         s # "onShowEnCertCtrlFail"
  PROVE  /\ t \in EntryLocked => s \in EntryLocked
         /\ t \in ExitLocked => s \in ExitLocked
<1> SUFFICES ASSUME t \in EntryLocked \cup ExitLocked
             PROVE  (t \in EntryLocked => s \in EntryLocked)
                    /\ (t \in ExitLocked => s \in ExitLocked)
  OBVIOUS
<1>1. <<s, e, t>> \in LeafArc BY ArcOutside DEF Arc, FromConnected
<1>2. \/ s \in {"onPassEntry", "onCheckCert", "onCheckTicket", "onCheckCertCtrl",
                "onCheckTypeBarcode"} /\ t \notin ExitLocked
      \/ s \in {"onPassExit", "onCheckExitTicket"} /\ t \notin EntryLocked
  BY <1>1 DEF LeafArc, IsScan, EntryScan, ExitScan, EntryLocked, ExitLocked
<1> QED BY <1>2 DEF EntryLocked, ExitLocked

(* In the leaf between, a covid controller is shown away, and comes back   *)
(* to wait for a ticket.                                                   *)
LEMMA ArcOutOfCertFail ==
  ASSUME NEW e, NEW t, Arc("onShowEnCertCtrlFail", e, t)
  PROVE  t = "onWaitEntryTicket" \/ t \in Outside
<1>1. CASE <<"onShowEnCertCtrlFail", e, t>> \in LeafArc
  BY <1>1 DEF LeafArc
<1>2. CASE <<"onShowEnCertCtrlFail", e, t>> \notin LeafArc
  BY <1>2, ArcOutside DEF Arc, FromConnected
<1> QED BY <1>1, <1>2

LEMMA ArcIntoCertFail ==
  ASSUME NEW s, NEW e, Arc(s, e, "onShowEnCertCtrlFail")
  PROVE  s = "onCheckTicket"
<1>1. <<s, e, "onShowEnCertCtrlFail">> \in LeafArc
  BY DEF Arc, FromConnected, EntryArc, ExitArc, ArmedArc, ConnectedArc
<1> QED BY <1>1 DEF LeafArc

(* Only a machine that asks takes a verdict, and every other event takes   *)
(* it out of the service.                                                  *)
LEMMA ArcOnVerdict ==
  ASSUME NEW s, NEW e, NEW t, Arc(s, e, t)
  PROVE  /\ e \in DoubleScanEvent => IsScan(s)
         /\ e \notin DoubleScanEvent /\ IsScan(s) => t \in Outside
<1>1. CASE <<s, e, t>> \in LeafArc
  BY <1>1 DEF LeafArc, IsScan, EntryScan, ExitScan, DoubleScanEvent
<1>2. CASE <<s, e, t>> \notin LeafArc
  <2>1. <<e, t>> \in EntryArc \cup ExitArc \cup ArmedArc \cup ConnectedArc
    BY <1>2 DEF Arc, FromConnected
  <2> QED
    BY <2>1, ArcOutside DEF EntryArc, ExitArc, ArmedArc, ConnectedArc, DoubleScanEvent
<1> QED BY <1>1, <1>2

-----------------------------------------------------------------------------
(* What a leaf submits to itself when it is entered. *)
LEMMA SubmitsScan ==
  ASSUME TypeOK, NEW g \in Gate, NEW t, NEW reg, IsScan(t)
  PROVE  LET q == Submits(g, t, reg)
         IN  /\ Len(q) = 1 /\ Head(q).name \in DoubleScanEvent
             /\ \A E : Holds(q, E) => "ok.dblscn" \in E \/ "fail.dblscn" \in E
             /\ Holds(q, {"ok.dblscn"}) <=> ~Refused(reg, ScanKey(g, t))
<1>1. CASE Refused(reg, ScanKey(g, t))
  <2>1. Submits(g, t, reg) = <<Ev("fail.dblscn")>>
    BY <1>1 DEF Submits, IsScan, EntryScan, ExitScan, Onward
  <2> QED BY <1>1, <2>1 DEF Holds, Ev, DoubleScanEvent
<1>2. CASE ~Refused(reg, ScanKey(g, t))
  <2>1. Submits(g, t, reg) = <<[name |-> "ok.dblscn", bc |-> ScanKey(g, t)]>>
    BY <1>2 DEF Submits, IsScan, EntryScan, ExitScan, Onward
  <2> QED BY <1>2, <2>1 DEF Holds, DoubleScanEvent
<1> QED BY <1>1, <1>2

LEMMA SubmitsPlain ==
  ASSUME NEW g \in Gate, NEW t, NEW reg, ~IsScan(t)
  PROVE  \A E : Holds(Submits(g, t, reg), E) =>
                  E \cap {"isCovidQR", "certFail", "passed", "ready"} # {}
<1>1. Submits(g, t, reg) \in
        {<<>>, <<Ev("certFail")>>, <<Ev("passed")>>, <<Ev("ready")>>,
         <<[name |-> "isCovidQR", bc |-> lockedEn[g]]>>}
  BY DEF Submits, Onward
<1> QED BY <1>1 DEF Holds, Ev

LEMMA SubmitsVerdict ==
  ASSUME NEW g \in Gate, NEW t, NEW reg
  PROVE  Verdicts(Submits(g, t, reg)) =
           IF IsScan(t)
           THEN {IF Refused(reg, ScanKey(g, t)) THEN "fail.dblscn" ELSE "ok.dblscn"}
           ELSE {}
<1>1. CASE IsScan(t)
  <2>1. /\ Holds(Submits(g, t, reg), {"ok.dblscn"}) <=> ~Refused(reg, ScanKey(g, t))
        /\ Holds(Submits(g, t, reg), {"fail.dblscn"}) <=> Refused(reg, ScanKey(g, t))
    <3>1. CASE Refused(reg, ScanKey(g, t))
      <4>1. Submits(g, t, reg) = <<Ev("fail.dblscn")>>
        BY <1>1, <3>1 DEF Submits, IsScan, EntryScan, ExitScan, Onward
      <4> QED BY <3>1, <4>1 DEF Holds, Ev
    <3>2. CASE ~Refused(reg, ScanKey(g, t))
      <4>1. Submits(g, t, reg) = <<[name |-> "ok.dblscn", bc |-> ScanKey(g, t)]>>
        BY <1>1, <3>2 DEF Submits, IsScan, EntryScan, ExitScan, Onward
      <4> QED BY <3>2, <4>1 DEF Holds
    <3> QED BY <3>1, <3>2
  <2> DEFINE q == Submits(g, t, reg)
             v == IF Refused(reg, ScanKey(g, t)) THEN "fail.dblscn" ELSE "ok.dblscn"
  <2>2. /\ v \in DoubleScanEvent
        /\ \A w \in DoubleScanEvent : Holds(q, {w}) <=> w = v
    BY <2>1 DEF DoubleScanEvent
  <2>3. Verdicts(q) = {w \in DoubleScanEvent : Holds(q, {w})} BY VerdictsHeld
  <2> HIDE DEF q, v
  <2>4. Verdicts(q) = {v} BY <2>2, <2>3
  <2> QED BY <1>1, <2>4 DEF q, v
<1>2. CASE ~IsScan(t)
  <2>1. \A v \in DoubleScanEvent : ~Holds(Submits(g, t, reg), {v})
    BY <1>2, SubmitsPlain DEF DoubleScanEvent
  <2> QED BY <1>2, <2>1, VerdictsHeld
<1> QED BY <1>1, <1>2

-----------------------------------------------------------------------------
(* The state of the lock, as a step of one gate changes it. *)

LEMMA VisitCases ==
  ASSUME NEW s, NEW en, NEW ex
  PROVE  /\ s \in EntryScan => Visit(s, en, ex) = [phase |-> "asking", key |-> en]
         /\ s \in ExitScan => Visit(s, en, ex) = [phase |-> "asking", key |-> ex]
         /\ s \in EntryLocked => Visit(s, en, ex) = [phase |-> "serving", key |-> en]
         /\ s \in ExitLocked => Visit(s, en, ex) = [phase |-> "serving", key |-> ex]
         /\ s = "onShowEnCertCtrlFail" =>
               Visit(s, en, ex) = [phase |-> "paused", key |-> en]
         /\ /\ ~IsScan(s) /\ s \notin EntryLocked \cup ExitLocked
            /\ s # "onShowEnCertCtrlFail"
            => Visit(s, en, ex) = [phase |-> "away", key |-> NoBarcode]
<1>1. "onShowEnCertCtrlFail" \notin EntryLocked \cup ExitLocked \cup EntryScan \cup ExitScan
  BY DEF EntryLocked, ExitLocked, EntryScan, ExitScan
<1> QED BY <1>1, ScanApart DEF Visit, IsScan

LEMMA OutsideAway ==
  ASSUME NEW s \in Outside, NEW en, NEW ex
  PROVE  Visit(s, en, ex) = [phase |-> "away", key |-> NoBarcode]
<1>1. s # "onShowEnCertCtrlFail" BY DEF Outside
<1> QED BY <1>1, ArcOutside, VisitCases DEF IsScan

LEMMA OneVisit ==
  ASSUME NEW g \in Gate,
         \A h \in Gate : h # g => /\ st'[h] = st[h]
                                  /\ lockedEn'[h] = lockedEn[h]
                                  /\ lockedEx'[h] = lockedEx[h]
  PROVE  visits' = [visits EXCEPT ![g] = Visit(st'[g], lockedEn'[g], lockedEx'[g])]
BY DEF visits

LEMMA OneQueue ==
  ASSUME NEW g \in Gate, \A h \in Gate : h # g => evq'[h] = evq[h]
  PROVE  verdictsQueued' = [verdictsQueued EXCEPT ![g] = Verdicts(evq'[g])]
BY DEF verdictsQueued

(* A step that leaves the machines, the container and the verdicts alone. *)
Unseen == UNCHANGED Loan!lockVars

LEMMA UnseenStep ==
  ASSUME UNCHANGED <<st, lockedEn, lockedEx, registry, dblSwitch>>,
         \A h \in Gate : Verdicts(evq'[h]) = Verdicts(evq[h])
  PROVE  Unseen
<1>1. visits' = visits BY DEF visits
<1>2. verdictsQueued' = verdictsQueued BY DEF verdictsQueued
<1> QED BY <1>1, <1>2 DEF Unseen, Loan!lockVars

-----------------------------------------------------------------------------
(* A transition.  The verdict of the check admits or refuses; every other  *)
(* event makes a machine that asks leave; the onexit of a locked composite *)
(* gives back what the machine serves.                                     *)

(* What all transitions of gate g have in common. *)
Moves(g, t) ==
  LET reg == RegistryAfterExit(g, st[g], t)
  IN  /\ Arc(st[g], Head(evq[g]).name, t)
      /\ visits' = [visits EXCEPT ![g] = Visit(t, lockedEn'[g], lockedEx'[g])]
      /\ verdictsQueued' =
           [verdictsQueued EXCEPT ![g] =
              Verdicts(Tail(evq[g])) \cup Verdicts(Submits(g, t, reg))]
      /\ lockedEn'[g] = IF t \in EntryScan THEN ScanKey(g, t) ELSE lockedEn[g]
      /\ lockedEx'[g] = IF t \in ExitScan THEN ScanKey(g, t) ELSE lockedEx[g]
      /\ registry' = IF IsScan(t) /\ ~Refused(reg, ScanKey(g, t))
                     THEN [reg EXCEPT ![ScanKey(g, t)] = g] ELSE reg
      /\ dblSwitch' = dblSwitch

LEMMA MoveMoves ==
  ASSUME TypeOK, NEW g \in Gate, Move(g)
  PROVE  \E t \in Leaf : Moves(g, t)
<1> DEFINE reg(t) == RegistryAfterExit(g, st[g], t)
<1>1. PICK t \in Leaf :
        /\ Arc(st[g], Head(evq[g]).name, t)
        /\ st' = [st EXCEPT ![g] = t]
        /\ evq' = [evq EXCEPT ![g] = Tail(@) \o Submits(g, t, reg(t))]
        /\ lockedEn' = IF t \in EntryScan
                       THEN [lockedEn EXCEPT ![g] = entryBc[g]] ELSE lockedEn
        /\ lockedEx' = IF t \in ExitScan
                       THEN [lockedEx EXCEPT ![g] = exitBc[g]] ELSE lockedEx
        /\ registry' = IF IsScan(t) /\ ~Refused(reg(t), ScanKey(g, t))
                       THEN [reg(t) EXCEPT ![ScanKey(g, t)] = g] ELSE reg(t)
  BY DEF Move, Targets
<1>2. evq[g] # <<>> /\ dblSwitch' = dblSwitch BY DEF Move, Draining
<1> HIDE DEF reg
<1>3. /\ st'[g] = t /\ evq'[g] = Tail(evq[g]) \o Submits(g, t, reg(t))
      /\ lockedEn'[g] = IF t \in EntryScan THEN ScanKey(g, t) ELSE lockedEn[g]
      /\ lockedEx'[g] = IF t \in ExitScan THEN ScanKey(g, t) ELSE lockedEx[g]
      /\ \A h \in Gate : h # g =>
           /\ st'[h] = st[h] /\ evq'[h] = evq[h]
           /\ lockedEn'[h] = lockedEn[h] /\ lockedEx'[h] = lockedEx[h]
  BY <1>1, ScanApart DEF TypeOK, ScanKey
<1>4. visits' = [visits EXCEPT ![g] = Visit(t, lockedEn'[g], lockedEx'[g])]
  BY <1>3, OneVisit
<1>5. Tail(evq[g]) \in Seq(Msg) /\ Submits(g, t, reg(t)) \in Seq(Msg)
  BY <1>2, HeadOfQueue, SubmitsType
<1>6. verdictsQueued' =
        [verdictsQueued EXCEPT ![g] =
           Verdicts(Tail(evq[g])) \cup Verdicts(Submits(g, t, reg(t)))]
  <2>1. Verdicts(Tail(evq[g]) \o Submits(g, t, reg(t))) =
          Verdicts(Tail(evq[g])) \cup Verdicts(Submits(g, t, reg(t)))
    BY <1>5, VerdictsConcat
  <2>2. verdictsQueued' = [verdictsQueued EXCEPT ![g] = Verdicts(evq'[g])]
    BY <1>3, OneQueue
  <2> QED BY <1>3, <2>1, <2>2
<1> QED BY <1>1, <1>2, <1>3, <1>4, <1>6 DEF Moves, reg

(* What the onexit frees, when the machine leaves the locked composites.   *)
LEMMA ReleasedIsFreed ==
  ASSUME TypeOK, NEW g \in Gate, NEW t, t \notin EntryLocked \cup ExitLocked
  PROVE  RegistryAfterExit(g, st[g], t) = Loan!Freed(g)
<1> DEFINE s == st[g]
           v == Visit(s, lockedEn[g], lockedEx[g])
           reg == RegistryAfterExit(g, s, t)
<1>0. /\ registry \in [Keys -> Gate \cup {NoGate}]
      /\ lockedEn[g] \in Keys /\ lockedEx[g] \in Keys
      /\ visits[g] = v
  BY DEF TypeOK, visits
<1> HIDE DEF s, v
<1>1. Loan!Freed(g) = IF v.phase = "serving"
                      THEN [registry EXCEPT ![v.key] = NoGate] ELSE registry
  BY <1>0 DEF Loan!Freed
<1>2. CASE s \in EntryLocked
  <2>1. v = [phase |-> "serving", key |-> lockedEn[g]]
    BY <1>2, VisitCases DEF v
  <2>2. reg = [registry EXCEPT ![lockedEn[g]] = NoGate]
    BY <1>0, <1>2 DEF RegistryAfterExit, Released
  <2> QED BY <1>1, <2>1, <2>2 DEF s
<1>3. CASE s \in ExitLocked
  <2>1. v = [phase |-> "serving", key |-> lockedEx[g]]
    BY <1>3, VisitCases DEF v
  <2>2. reg = [registry EXCEPT ![lockedEx[g]] = NoGate]
    BY <1>0, <1>3, ScanApart DEF RegistryAfterExit, Released
  <2> QED BY <1>1, <2>1, <2>2 DEF s
<1>4. CASE s \notin EntryLocked \cup ExitLocked
  <2>1. v.phase # "serving"
    BY <1>4, VisitCases DEF v, IsScan
  <2>2. reg = registry BY <1>0, <1>4 DEF RegistryAfterExit, Released
  <2> QED BY <1>1, <2>1, <2>2 DEF s
<1> QED BY <1>2, <1>3, <1>4

LEMMA AskMoves ==
  ASSUME TypeOK, NEW g \in Gate, NEW t \in Leaf, Moves(g, t), evq[g] # <<>>,
         ~IsScan(st[g]), IsScan(t)
  PROVE  \E b \in Keys : Loan!Grant(g, b) \/ Loan!Deny(g, b)
<1> DEFINE b == ScanKey(g, t)
           reg == RegistryAfterExit(g, st[g], t)
           v == IF Refused(reg, b) THEN "fail.dblscn" ELSE "ok.dblscn"
<1>1. b \in Keys BY ScanKeyType DEF TypeOK
<1>2. reg = Loan!Freed(g) BY ReleasedIsFreed, ScanApart DEF IsScan
<1>3. visits' = [visits EXCEPT ![g] = [phase |-> "asking", key |-> b]]
  <2>1. Visit(t, lockedEn'[g], lockedEx'[g]) = [phase |-> "asking", key |-> b]
    BY VisitCases DEF Moves, IsScan
  <2> QED BY <2>1 DEF Moves
<1>4. verdictsQueued' = [verdictsQueued EXCEPT ![g] = @ \cup {v}]
  <2>1. Head(evq[g]).name \notin DoubleScanEvent BY ArcOnVerdict DEF Moves
  <2>2. Verdicts(Tail(evq[g])) = Verdicts(evq[g])
    BY <2>1, VerdictsTail DEF TypeOK
  <2>3. Verdicts(Submits(g, t, reg)) = {v} BY SubmitsVerdict
  <2>4. verdictsQueued[g] = Verdicts(evq[g]) BY DEF verdictsQueued
  <2> QED BY <2>2, <2>3, <2>4 DEF Moves
<1>5. visits[g].phase # "asking"
  <2>1. visits[g] = Visit(st[g], lockedEn[g], lockedEx[g]) BY DEF visits
  <2> QED BY <2>1, VisitCases DEF IsScan
<1>6. dblSwitch' = dblSwitch
      /\ registry' = IF ~Refused(reg, b) THEN [reg EXCEPT ![b] = g] ELSE reg
  BY DEF Moves
<1> HIDE DEF reg, b, v
<1>7. Loan!Ask(g, b, v)
  BY <1>3, <1>4, <1>5, <1>6 DEF Loan!Ask, Loan!Becomes
<1>8. CASE Refused(reg, b)
  <2>1. v = "fail.dblscn" /\ dblSwitch /\ reg[b] # NoGate BY <1>8 DEF v, Refused
  <2>2. Loan!Deny(g, b) BY <1>2, <1>6, <1>7, <1>8, <2>1 DEF Loan!Deny
  <2> QED BY <1>1, <2>2
<1>9. CASE ~Refused(reg, b)
  <2>1. v = "ok.dblscn" /\ (dblSwitch => reg[b] = NoGate) BY <1>9 DEF v, Refused
  <2>2. Loan!Grant(g, b) BY <1>2, <1>6, <1>7, <1>9, <2>1 DEF Loan!Grant
  <2> QED BY <1>1, <2>2
<1> QED BY <1>8, <1>9

LEMMA VerdictMoves ==
  ASSUME TypeOK, NEW g \in Gate, NEW t \in Leaf, Moves(g, t), evq[g] # <<>>,
         IsScan(st[g])
  PROVE  Loan!Admit(g) \/ Loan!Refuse(g) \/ Loan!Leave(g)
<1> DEFINE s == st[g]
           e == Head(evq[g]).name
           q == evq[g]
<1>0. q \in Seq(Msg) /\ Arc(s, e, t) BY DEF TypeOK, Moves
<1>1. ~IsScan(t)
  <2>1. e \in DoubleScanEvent => ~IsScan(t) BY <1>0, ArcOutOfScan
  <2>2. e \notin DoubleScanEvent => t \in Outside BY <1>0, ArcOnVerdict
  <2> QED BY <2>1, <2>2, ArcOutside DEF IsScan
<1>2. /\ lockedEn'[g] = lockedEn[g] /\ lockedEx'[g] = lockedEx[g]
      /\ registry' = registry /\ dblSwitch' = dblSwitch
  <2>1. RegistryAfterExit(g, s, t) = registry
    BY ScanApart DEF RegistryAfterExit, Released, IsScan, TypeOK
  <2> QED BY <1>1, <2>1 DEF Moves, IsScan
<1>3. verdictsQueued' = [verdictsQueued EXCEPT ![g] = Verdicts(Tail(q))]
      /\ verdictsQueued[g] = Verdicts(q)
  BY <1>1, SubmitsVerdict DEF Moves, verdictsQueued
<1>4. /\ visits[g] = Visit(s, lockedEn[g], lockedEx[g])
      /\ visits' = [visits EXCEPT ![g] = Visit(t, lockedEn[g], lockedEx[g])]
  BY <1>2 DEF Moves, visits
<1>5. visits[g].phase = "asking"
      /\ visits[g].key = IF s \in EntryScan THEN lockedEn[g] ELSE lockedEx[g]
  BY <1>4, VisitCases, ScanApart DEF IsScan
<1> HIDE DEF s, e, q
<1>6. CASE e \in DoubleScanEvent
  <2>1. e \in verdictsQueued[g]
        /\ \E rest \in {verdictsQueued[g], verdictsQueued[g] \ {e}} :
             verdictsQueued' = [verdictsQueued EXCEPT ![g] = rest]
    BY <1>0, <1>3, <1>6, VerdictsTaken DEF e, q
  <2>2. Loan!Take(g, e) BY <1>2, <1>5, <2>1 DEF Loan!Take
  <2>3. CASE e = "ok.dblscn"
    <3>1. /\ s \in EntryScan => t \in EntryLocked
          /\ s \notin EntryScan => t \in ExitLocked
      BY <1>0, <1>6, <2>3, ArcOutOfScan DEF IsScan, s
    <3>2. Visit(t, lockedEn[g], lockedEx[g]) =
            [phase |-> "serving", key |-> visits[g].key]
      BY <1>5, <3>1, VisitCases
    <3>3. Loan!Becomes(g, "serving", visits[g].key)
      BY <1>4, <3>2 DEF Loan!Becomes
    <3> QED BY <2>2, <2>3, <3>3 DEF Loan!Admit
  <2>4. CASE e = "fail.dblscn"
    <3>1. t \notin EntryLocked \cup ExitLocked
      BY <1>0, <1>6, <2>4, ArcOutOfScan DEF s
    <3>2. t # "onShowEnCertCtrlFail"
      BY <1>0, ArcIntoCertFail DEF s, IsScan, EntryScan, ExitScan
    <3>3. Visit(t, lockedEn[g], lockedEx[g]) = [phase |-> "away", key |-> NoBarcode]
      BY <1>1, <3>1, <3>2, VisitCases
    <3>4. Loan!Becomes(g, "away", NoBarcode) BY <1>4, <3>3 DEF Loan!Becomes
    <3> QED BY <2>2, <2>4, <3>4 DEF Loan!Refuse
  <2> QED BY <1>6, <2>3, <2>4 DEF DoubleScanEvent
<1>7. CASE e \notin DoubleScanEvent
  <2>1. t \in Outside BY <1>0, <1>7, ArcOnVerdict DEF s
  <2>2. Loan!Becomes(g, "away", NoBarcode)
    BY <1>4, <2>1, OutsideAway DEF Loan!Becomes
  <2>3. Verdicts(Tail(q)) = Verdicts(q) BY <1>0, <1>7, VerdictsTail DEF e, q
  <2>4. verdictsQueued' = verdictsQueued BY <1>3, <2>3 DEF verdictsQueued
  <2> QED BY <1>2, <1>5, <2>2, <2>4 DEF Loan!Leave
<1> QED BY <1>6, <1>7

LEMMA ServeMoves ==
  ASSUME TypeOK, NEW g \in Gate, NEW t \in Leaf, Moves(g, t), evq[g] # <<>>,
         ~IsScan(st[g]), ~IsScan(t)
  PROVE  \/ Loan!GiveBack(g) \/ Loan!Pause(g)
         \/ Loan!Return(g) \/ Loan!Leave(g)
         \/ Unseen
<1> DEFINE s == st[g]
           e == Head(evq[g]).name
           q == evq[g]
           key == visits[g].key
<1>0. /\ q \in Seq(Msg) /\ Arc(s, e, t) /\ e \notin DoubleScanEvent
      /\ registry \in [Keys -> Gate \cup {NoGate}]
  BY ArcOnVerdict DEF TypeOK, Moves
<1>1. /\ lockedEn'[g] = lockedEn[g] /\ lockedEx'[g] = lockedEx[g]
      /\ registry' = RegistryAfterExit(g, s, t) /\ dblSwitch' = dblSwitch
  BY DEF Moves, IsScan
<1>2. verdictsQueued' = verdictsQueued
  <2>1. Verdicts(Tail(q)) = Verdicts(q) BY <1>0, VerdictsTail
  <2> QED BY <2>1, SubmitsVerdict DEF Moves, verdictsQueued
<1>3. /\ visits[g] = Visit(s, lockedEn[g], lockedEx[g])
      /\ visits' = [visits EXCEPT ![g] = Visit(t, lockedEn[g], lockedEx[g])]
  BY <1>1 DEF Moves, visits
<1>4. t \notin EntryLocked \cup ExitLocked => registry' = Loan!Freed(g)
  BY <1>1, ReleasedIsFreed
<1>5. ASSUME RegistryAfterExit(g, s, t) = registry,
             Visit(t, lockedEn[g], lockedEx[g]) = visits[g]
      PROVE  Unseen
  <2>1. visits' = visits BY <1>3, <1>5 DEF visits
  <2> QED BY <1>1, <1>2, <1>5, <2>1 DEF Unseen, Loan!lockVars
<1>6. s # "onShowEnCertCtrlFail" =>
        /\ t \in EntryLocked => s \in EntryLocked
        /\ t \in ExitLocked => s \in ExitLocked
  BY <1>0, ArcIntoLocked
<1>7. t = "onShowEnCertCtrlFail" => s = "onCheckTicket" BY <1>0, ArcIntoCertFail
<1>8. "onShowEnCertCtrlFail" \notin EntryLocked \cup ExitLocked
      /\ "onWaitEntryTicket" \in EntryLocked /\ "onCheckTicket" \in EntryLocked
  BY DEF EntryLocked, ExitLocked
<1>9. s = "onShowEnCertCtrlFail" => t = "onWaitEntryTicket" \/ t \in Outside
  BY <1>0, ArcOutOfCertFail
<1>10. /\ ~IsScan(s) /\ ~IsScan(t)
       /\ s \in EntryLocked /\ t \in EntryLocked
            => RegistryAfterExit(g, s, t) = registry
       /\ s \in ExitLocked /\ t \in ExitLocked
            => RegistryAfterExit(g, s, t) = registry
       /\ s \notin EntryLocked \cup ExitLocked => RegistryAfterExit(g, s, t) = registry
  BY <1>0, ScanApart DEF RegistryAfterExit, Released
<1> HIDE DEF s, e, q
<1>11. CASE s \in EntryLocked \cup ExitLocked /\ t \notin EntryLocked \cup ExitLocked
  <2>1. visits[g].phase = "serving"
    BY <1>3, <1>11, VisitCases
  <2>2. CASE t = "onShowEnCertCtrlFail"
    <3>1. s \in EntryLocked BY <1>7, <1>8, <2>2
    <3>2. key = lockedEn[g] BY <1>3, <3>1, VisitCases
    <3>3. Visit(t, lockedEn[g], lockedEx[g]) = [phase |-> "paused", key |-> key]
      BY <2>2, <3>2, VisitCases
    <3>4. Loan!Becomes(g, "paused", key) BY <1>3, <3>3 DEF Loan!Becomes
    <3> QED BY <1>1, <1>2, <1>4, <1>11, <2>1, <3>4 DEF Loan!Pause
  <2>3. CASE t # "onShowEnCertCtrlFail"
    <3>1. Visit(t, lockedEn[g], lockedEx[g]) = [phase |-> "away", key |-> NoBarcode]
      BY <1>10, <1>11, <2>3, VisitCases
    <3>2. Loan!Becomes(g, "away", NoBarcode) BY <1>3, <3>1 DEF Loan!Becomes
    <3> QED BY <1>1, <1>2, <1>4, <1>11, <2>1, <3>2 DEF Loan!GiveBack
  <2> QED BY <2>2, <2>3
<1>12. CASE s \in EntryLocked \cup ExitLocked /\ t \in EntryLocked \cup ExitLocked
  <2>1. s # "onShowEnCertCtrlFail" BY <1>8, <1>12
  <2>2. \/ s \in EntryLocked /\ t \in EntryLocked
        \/ s \in ExitLocked /\ t \in ExitLocked
    BY <1>6, <1>12, <2>1
  <2>3. Visit(t, lockedEn[g], lockedEx[g]) = visits[g]
    BY <1>3, <2>2, VisitCases
  <2>4. RegistryAfterExit(g, s, t) = registry BY <1>10, <2>2
  <2> QED BY <1>5, <2>3, <2>4
<1>13. CASE s = "onShowEnCertCtrlFail"
  <2>1. visits[g] = [phase |-> "paused", key |-> lockedEn[g]]
    BY <1>3, <1>13, VisitCases
  <2>2. registry' = registry BY <1>1, <1>8, <1>10, <1>13
  <2>3. CASE t = "onWaitEntryTicket"
    <3>1. Visit(t, lockedEn[g], lockedEx[g]) = [phase |-> "serving", key |-> key]
      BY <1>8, <2>1, <2>3, VisitCases
    <3>2. Loan!Becomes(g, "serving", key) BY <1>3, <3>1 DEF Loan!Becomes
    <3> QED BY <1>1, <1>2, <2>1, <2>2, <3>2 DEF Loan!Return
  <2>4. CASE t \in Outside
    <3>1. Loan!Becomes(g, "away", NoBarcode)
      BY <1>3, <2>4, OutsideAway DEF Loan!Becomes
    <3> QED BY <1>1, <1>2, <2>1, <2>2, <3>1 DEF Loan!Leave
  <2> QED BY <1>9, <1>13, <2>3, <2>4
<1>14. CASE s \notin EntryLocked \cup ExitLocked /\ s # "onShowEnCertCtrlFail"
  <2>1. t \notin EntryLocked \cup ExitLocked /\ t # "onShowEnCertCtrlFail"
    BY <1>6, <1>7, <1>8, <1>14
  <2>2. Visit(t, lockedEn[g], lockedEx[g]) = visits[g]
    BY <1>3, <1>10, <1>14, <2>1, VisitCases
  <2> QED BY <1>5, <1>10, <1>14, <2>2
<1> QED BY <1>11, <1>12, <1>13, <1>14

-----------------------------------------------------------------------------
(* An event that is dropped, and the slots that submit one. *)

LEMMA DiscardMoves ==
  ASSUME TypeOK, NEW g \in Gate, Discard(g) PROVE Loan!Forget(g) \/ Unseen
<1> DEFINE q == evq[g]
           e == Head(q).name
<1>1. /\ q \in Seq(Msg) /\ q # <<>> /\ Targets(g) = {} /\ st[g] \in Leaf
      /\ UNCHANGED <<st, lockedEn, lockedEx, registry, dblSwitch>>
      /\ evq' = [evq EXCEPT ![g] = Tail(q)] /\ evq \in [Gate -> Seq(Msg)]
  BY DEF Discard, Draining, TypeOK, chart, server
<1>2. /\ verdictsQueued' = [verdictsQueued EXCEPT ![g] = Verdicts(Tail(q))]
      /\ verdictsQueued[g] = Verdicts(q)
  <2>1. evq'[g] = Tail(q) /\ \A h \in Gate : h # g => evq'[h] = evq[h] BY <1>1
  <2> QED BY <2>1, OneQueue DEF verdictsQueued
<1>3. CASE e \notin DoubleScanEvent
  <2>1. Verdicts(Tail(q)) = Verdicts(q) BY <1>1, <1>3, VerdictsTail
  <2>2. verdictsQueued' = verdictsQueued BY <1>2, <2>1 DEF verdictsQueued
  <2>3. visits' = visits BY <1>1 DEF visits
  <2> QED BY <1>1, <2>2, <2>3 DEF Unseen, Loan!lockVars
<1>4. CASE e \in DoubleScanEvent
  <2>1. ~IsScan(st[g])
    <3> SUFFICES ASSUME IsScan(st[g]) PROVE FALSE OBVIOUS
    <3>1. e \in OwnEvents(st[g])
      BY <1>4 DEF OwnEvents, IsScan, EntryScan, ExitScan
    <3>2. e # "en.barcode" /\ \E t \in Leaf : Arc(st[g], e, t)
      BY <1>1, <3>1, OwnEventTaken
    <3> QED BY <1>1, <3>2 DEF Targets, Cond
  <2>2. visits[g].phase # "asking"
    <3>1. visits[g] = Visit(st[g], lockedEn[g], lockedEx[g]) BY DEF visits
    <3> QED BY <2>1, <3>1, VisitCases DEF IsScan
  <2>3. Verdicts(Tail(q)) \in SUBSET verdictsQueued[g]
    BY <1>1, <1>2, <1>4, VerdictsTaken
  <2>4. visits' = visits BY <1>1 DEF visits
  <2> QED BY <1>1, <1>2, <2>2, <2>3, <2>4 DEF Loan!Forget
<1> QED BY <1>3, <1>4

LEMMA SubmitUnseen ==
  ASSUME TypeOK, NEW g \in Gate, NEW m \in Msg, m.name \notin DoubleScanEvent,
         Submit(g, m), UNCHANGED <<st, lockedEn, lockedEx, registry, dblSwitch>>
  PROVE  Unseen
<1>1. evq \in [Gate -> Seq(Msg)] BY DEF TypeOK
<1>2. \A h \in Gate : evq'[h] = evq[h] \/ evq'[h] = Append(evq[h], m)
  BY <1>1 DEF Submit
<1>3. \A h \in Gate : Verdicts(evq'[h]) = Verdicts(evq[h])
  BY <1>1, <1>2, VerdictsAppend
<1> QED BY <1>3, UnseenStep

LEMMA LinksUnseen ==
  ASSUME TypeOK, NEW g \in Gate, Links(g) PROVE Unseen
<1>1. /\ evq \in [Gate -> Seq(Msg)]
      /\ UNCHANGED <<st, lockedEn, lockedEx, registry, dblSwitch>>
  BY DEF TypeOK, Links, ConnectMain, ConnectSlave, DisconnectMain, chart, server
<1>2. \A e \in {"mainConnected", "mainDisconnected"} :
        Ev(e) \in Msg /\ Ev(e).name \notin DoubleScanEvent
  BY EvType, EventParts DEF LinkEvent, Ev, DoubleScanEvent
<1>3. RedoSubmits(g) \in Seq(Msg) /\ Verdicts(RedoSubmits(g)) = {}
  <2>1. RedoSubmits(g) \in Seq(Msg) BY RedoType
  <2>2. CASE Redoes(g)
    <3>1. ~IsScan(st[g]) BY <2>2 DEF Redoes, IsScan, EntryScan, ExitScan
    <3> QED BY <2>1, <2>2, <3>1, SubmitsVerdict DEF RedoSubmits
  <2>3. CASE ~Redoes(g)
    <3>1. RedoSubmits(g) = <<>> BY <2>3 DEF RedoSubmits
    <3> QED BY <2>1, <3>1, VerdictsHeld, HoldsNone
  <2> QED BY <2>2, <2>3
<1>4. ASSUME NEW q \in Seq(Msg), Verdicts(q) = Verdicts(evq[g]),
             evq' = [evq EXCEPT ![g] = q \o RedoSubmits(g)]
      PROVE  Unseen
  <2>1. Verdicts(q \o RedoSubmits(g)) = Verdicts(evq[g])
    <3>1. Verdicts(q \o RedoSubmits(g)) = Verdicts(q) \cup Verdicts(RedoSubmits(g))
      BY <1>3, VerdictsConcat
    <3> QED BY <1>3, <1>4, <3>1
  <2>2. \A h \in Gate : Verdicts(evq'[h]) = Verdicts(evq[h])
    BY <1>1, <1>4, <2>1
  <2> QED BY <1>1, <2>2, UnseenStep
<1>5. CASE DisconnectMain(g) BY <1>1, <1>2, <1>5, SubmitUnseen DEF DisconnectMain
<1>6. CASE ConnectMain(g)
  <2> DEFINE q == Append(evq[g], Ev("mainConnected"))
  <2>1. q \in Seq(Msg) /\ Verdicts(q) = Verdicts(evq[g])
    BY <1>1, <1>2, AppendProperties, VerdictsAppend
  <2>2. evq' = [evq EXCEPT ![g] = q \o RedoSubmits(g)] BY <1>6 DEF ConnectMain
  <2> HIDE DEF q
  <2> QED BY <1>4, <2>1, <2>2
<1>7. CASE ConnectSlave(g) BY <1>1, <1>4, <1>7 DEF ConnectSlave
<1> QED BY <1>5, <1>6, <1>7 DEF Links

LEMMA SlotsUnseen ==
  ASSUME TypeOK, AnswersInv, NEW g \in Gate,
         \/ Visitors(g)
         \/ \E e \in CrossboardEvent : Report(g, e)
         \/ \E i \in Timer : TimerFires(g, i)
         \/ \E e \in {"certOK", "certFail"} : CertReply(g, e)
         \/ DbAnswer(g)
         \/ Database(g)
         \/ \E c \in WidgetCmds : GateCommand(g, c)
  PROVE  Unseen
<1>0. \A e \in Event : Ev(e) \in Msg /\ Ev(e).name = e BY EvType DEF Ev
<1>00. ASSUME UNCHANGED <<st, lockedEn, lockedEx, registry, dblSwitch, evq>>
       PROVE  Unseen
  BY <1>00, UnseenStep
<1>1. ASSUME NEW b \in Barcode, ScanEntry(g, b) PROVE Unseen
  <2>1. Ev("en.barcode") \in Msg /\ Ev("en.barcode").name \notin DoubleScanEvent
    BY <1>0, EventParts DEF ReaderEvent, DoubleScanEvent
  <2> QED BY <1>1, <2>1, SubmitUnseen DEF ScanEntry, chart, server
<1>2. ASSUME NEW b \in Barcode, ScanExit(g, b) PROVE Unseen
  <2> DEFINE m == [name |-> "ex.barcode", bc |-> b]
  <2>1. m \in Msg /\ m.name \notin DoubleScanEvent
    BY EventParts DEF ReaderEvent, DoubleScanEvent, Msg, Keys
  <2>2. Submit(g, m) BY <1>2 DEF ScanExit
  <2> HIDE DEF m
  <2> QED BY <1>2, <2>1, <2>2, SubmitUnseen DEF ScanExit, chart, server
<1>3. ASSUME NEW e \in CrossboardEvent, Report(g, e) PROVE Unseen
  <2>1. Ev(e) \in Msg /\ Ev(e).name \notin DoubleScanEvent
    BY <1>0, EventParts DEF CrossboardEvent, DoubleScanEvent
  <2> QED BY <1>3, <2>1, SubmitUnseen DEF Report, chart, server
<1>4. ASSUME NEW i \in Timer, TimerFires(g, i) PROVE Unseen
  <2>1. TimeoutOf[i] \notin DoubleScanEvent BY DEF Timer, TimeoutOf, DoubleScanEvent
  <2>2. Ev(TimeoutOf[i]) \in Msg /\ Ev(TimeoutOf[i]).name \notin DoubleScanEvent
    BY <1>0, <2>1, TimeoutType
  <2> QED BY <1>4, <2>2, SubmitUnseen DEF TimerFires, server
<1>5. ASSUME NEW e \in {"certOK", "certFail"}, CertReply(g, e) PROVE Unseen
  <2>1. Ev(e) \in Msg /\ Ev(e).name \notin DoubleScanEvent
    BY <1>0, EventParts DEF CertEvent, DoubleScanEvent
  <2> QED BY <1>5, <2>1, SubmitUnseen DEF CertReply, chart, server
<1>6. CASE DbAnswer(g)
  <2>1. Head(dbAns[g]) \in DbMsg
    BY <1>6, HeadTailProperties DEF DbAnswer, AnswersInv
  <2>2. Head(dbAns[g]) \in Msg /\ Head(dbAns[g]).name \notin DoubleScanEvent
    BY <2>1, DbMsgType DEF DbMsg, DbEvent, DoubleScanEvent
  <2> QED BY <1>6, <2>2, SubmitUnseen DEF DbAnswer, chart, server
<1>7. CASE Database(g)
  BY <1>00, <1>7 DEF Database, DbCheck, DbConfirm, DbFails, chart, server
<1>8. ASSUME NEW c \in WidgetCmds, GateCommand(g, c) PROVE Unseen
  <2>1. /\ Ev("cmd.arm") \in Msg /\ Ev("cmd.arm").name \notin DoubleScanEvent
        /\ Ev("cmd.unlock") \in Msg /\ Ev("cmd.unlock").name \notin DoubleScanEvent
    BY <1>0, EventParts DEF CommandEvent, DoubleScanEvent
  <2>2. UNCHANGED <<st, lockedEn, lockedEx, registry, dblSwitch>>
    BY <1>8 DEF GateCommand, chart, server
  <2>3. CASE Submit(g, Ev("cmd.arm")) \/ Submit(g, Ev("cmd.unlock"))
    BY <2>1, <2>2, <2>3, SubmitUnseen
  <2>4. CASE UNCHANGED evq BY <1>00, <2>2, <2>4
  <2> QED BY <1>8, <2>3, <2>4 DEF GateCommand
<1> QED BY <1>1, <1>2, <1>3, <1>4, <1>5, <1>6, <1>7, <1>8 DEF Visitors

LEMMA CommandMoves ==
  ASSUME TypeOK, NEW c \in WidgetCmds, ServerCommand(c)
  PROVE  Loan!Switch \/ Loan!Clear
<1>1. UNCHANGED <<st, lockedEn, lockedEx, evq>> BY DEF ServerCommand, chart
<1>2. visits' = visits /\ verdictsQueued' = verdictsQueued
  BY <1>1 DEF visits, verdictsQueued
<1>3. CASE c = "dblScnClr"
  <2>1. dblSwitch' = dblSwitch /\ registry' = [b \in Keys |-> NoGate]
    BY <1>3 DEF ServerCommand
  <2> QED BY <1>2, <2>1 DEF Loan!Clear
<1>4. CASE c # "dblScnClr"
  <2>1. registry' = registry /\ dblSwitch' \in BOOLEAN
    BY <1>4 DEF ServerCommand, TypeOK
  <2> QED BY <1>2, <2>1 DEF Loan!Switch
<1> QED BY <1>3, <1>4

-----------------------------------------------------------------------------
(* The turnstile server implements the abstract lock, whatever waits in    *)
(* the queues, whoever comes and whatever the widget commands: a barcode   *)
(* enters wicketGateListByBarcode for the turnstile that asked and leaves  *)
(* it in the onexit of the one that serves it, and a turnstile starts to   *)
(* serve on a verdict of checkDoubleScan only.                             *)
THEOREM LockImplemented == Spec => ImplementsScanLock
<1>1. Init => Loan!LockInit
  <2> SUFFICES ASSUME Init PROVE Loan!LockInit OBVIOUS
  <2>1. "onMainDisconnected" \in Outside BY DEF Outside
  <2>2. visits = [g \in Gate |-> [phase |-> "away", key |-> NoBarcode]]
    BY <2>1, OutsideAway DEF Init, visits
  <2>3. Verdicts(<<>>) = {} BY VerdictsHeld, HoldsNone
  <2>4. verdictsQueued = [g \in Gate |-> {}] BY <2>3 DEF Init, verdictsQueued
  <2> QED BY <2>2, <2>4 DEF Init, Loan!LockInit
<1>2. TypeOK /\ AnswersInv /\ [Next]_vars => [Loan!LockNext]_(Loan!lockVars)
  <2> SUFFICES ASSUME TypeOK, AnswersInv, [Next]_vars
               PROVE  Loan!LockNext \/ Unseen
    BY DEF Unseen
  <2>1. ASSUME NEW g \in Gate, Move(g) PROVE Loan!LockNext \/ Unseen
    <3>1. evq[g] # <<>> BY <2>1 DEF Move, Draining
    <3>2. PICK t \in Leaf : Moves(g, t) BY <2>1, MoveMoves
    <3>3. CASE IsScan(st[g])
      BY <3>1, <3>2, <3>3, VerdictMoves DEF Loan!LockNext
    <3>4. CASE ~IsScan(st[g]) /\ IsScan(t)
      BY <3>1, <3>2, <3>4, AskMoves DEF Loan!LockNext
    <3>5. CASE ~IsScan(st[g]) /\ ~IsScan(t)
      BY <3>1, <3>2, <3>5, ServeMoves DEF Loan!LockNext
    <3> QED BY <3>3, <3>4, <3>5
  <2>2. ASSUME NEW g \in Gate, Discard(g) PROVE Loan!LockNext \/ Unseen
    BY <2>2, DiscardMoves DEF Loan!LockNext
  <2>3. ASSUME NEW c \in WidgetCmds, ServerCommand(c) PROVE Loan!LockNext
    BY <2>3, CommandMoves DEF Loan!LockNext
  <2>4. CASE UNCHANGED vars
    <3>1. UNCHANGED <<st, lockedEn, lockedEx, registry, dblSwitch, evq>>
      BY <2>4 DEF vars, chart, server
    <3> QED BY <3>1, UnseenStep
  <2> QED
    BY <2>1, <2>2, <2>3, <2>4, LinksUnseen, SlotsUnseen DEF Next, Drain
<1> QED
  BY <1>1, <1>2, TypeCorrect, OfflineInductive, PTL
     DEF Spec, ImplementsScanLock, Loan!LockSpec

-----------------------------------------------------------------------------
(***************************************************************************)
(* The counters.  Each conjunct of CountsAgree but the first is needed.    *)
(***************************************************************************)

(* The barcodes are tickets, no query fails, the widget does not reset the *)
(* counters, and the server starts with counters that cover the base.      *)
CountsAgree ==
  /\ IsFiniteSet(Gate) /\ IsFiniteSet(Barcode)
  /\ \A b \in Barcode : Kind[b] = "ticket"
  /\ DbFaults = {} /\ "rstCntrs" \notin WidgetCmds
  /\ SumFunction([b \in Barcode |-> RowsAtStart[b].pass]) <= PassCounts.inHall
  /\ PassCounts.inHall <= PassCounts.visited

-----------------------------------------------------------------------------
(* The passes in a queue of calls. *)

LEMMA PassType ==
  ASSUME NEW r \in Request, NEW b
  PROVE  Pass(r, b) \in Int
BY DEF Pass, Request, Directions, In, Out

PassSeq(q, b) == [k \in DOMAIN q |-> Pass(q[k], b)]

LEMMA PassSeqType ==
  ASSUME NEW q \in Seq(Request), NEW b
  PROVE  /\ PassSeq(q, b) \in Seq(Int) /\ Len(PassSeq(q, b)) = Len(q)
         /\ \A k \in 1..Len(q) : PassSeq(q, b)[k] = Pass(q[k], b)
<1>1. DOMAIN q = 1..Len(q) /\ Len(q) \in Nat /\ \A k \in 1..Len(q) : q[k] \in Request
  BY LenProperties
<1>2. \A k \in 1..Len(q) : Pass(q[k], b) \in Int BY <1>1, PassType
<1> QED BY <1>1, <1>2 DEF PassSeq

LEMMA PassesType ==
  ASSUME NEW q \in Seq(Request), NEW b
  PROVE  Passes(q, b) \in Int
BY PassSeqType, SeqSumType DEF Passes, PassSeq

LEMMA PassesNone == ASSUME NEW b PROVE Passes(<<>>, b) = 0
<1>1. PassSeq(<<>>, b) = <<>> BY DEF PassSeq
<1> QED BY <1>1, SeqSumEmpty DEF Passes, PassSeq

LEMMA PassesAppend ==
  ASSUME NEW q \in Seq(Request), NEW r \in Request, NEW b
  PROVE  Passes(Append(q, r), b) = Passes(q, b) + Pass(r, b)
<1> DEFINE p == PassSeq(q, b)
           t == Append(q, r)
           v == Pass(r, b)
<1>1. p \in Seq(Int) /\ Len(p) = Len(q) /\ Len(q) \in Nat /\ v \in Int
      /\ \A k \in 1..Len(q) : p[k] = Pass(q[k], b)
  BY PassSeqType, PassType, LenProperties
<1>2. t \in Seq(Request) /\ Len(t) = Len(q) + 1 /\ t[Len(q) + 1] = r
      /\ \A k \in 1..Len(q) : t[k] = q[k]
  BY AppendProperties
<1>3. PassSeq(t, b) \in Seq(Int) /\ Len(PassSeq(t, b)) = Len(t)
      /\ \A k \in 1..Len(t) : PassSeq(t, b)[k] = Pass(t[k], b)
  BY <1>2, PassSeqType
<1>4. Append(p, v) \in Seq(Int) /\ Len(Append(p, v)) = Len(q) + 1
      /\ Append(p, v)[Len(q) + 1] = v
      /\ \A k \in 1..Len(q) : Append(p, v)[k] = p[k]
  BY <1>1, AppendProperties
<1> HIDE DEF p, t, v
<1>5. ASSUME NEW k \in 1..Len(t) PROVE PassSeq(t, b)[k] = Append(p, v)[k]
  <2>1. CASE k = Len(q) + 1 BY <1>2, <1>3, <1>4, <2>1 DEF v
  <2>2. CASE k \in 1..Len(q) BY <1>1, <1>2, <1>3, <1>4, <2>2
  <2> QED BY <1>1, <1>2, <2>1, <2>2
<1>6. PassSeq(t, b) = Append(p, v) BY <1>2, <1>3, <1>4, <1>5, SeqEqual
<1>7. SumFunction(Append(p, v)) = SumFunction(p) + v BY <1>1, SeqSumAppend
<1> QED BY <1>6, <1>7 DEF Passes, PassSeq, p, t, v

LEMMA PassesTail ==
  ASSUME NEW q \in Seq(Request), q # <<>>, NEW b
  PROVE  Passes(q, b) = Pass(Head(q), b) + Passes(Tail(q), b)
<1> DEFINE p == PassSeq(q, b)
<1>1. p \in Seq(Int) /\ Len(p) = Len(q) /\ Len(q) \in Nat \ {0}
      /\ \A k \in 1..Len(q) : p[k] = Pass(q[k], b)
  BY PassSeqType, EmptySeq
<1>2. Tail(q) \in Seq(Request) /\ Len(Tail(q)) = Len(q) - 1
      /\ \A k \in 1..Len(Tail(q)) : Tail(q)[k] = q[k + 1]
  BY HeadTailProperties
<1>3. PassSeq(Tail(q), b) \in Seq(Int) /\ Len(PassSeq(Tail(q), b)) = Len(q) - 1
      /\ \A k \in 1..(Len(q) - 1) : PassSeq(Tail(q), b)[k] = Pass(q[k + 1], b)
  <2>1. PassSeq(Tail(q), b) \in Seq(Int)
        /\ Len(PassSeq(Tail(q), b)) = Len(Tail(q))
        /\ \A k \in 1..Len(Tail(q)) : PassSeq(Tail(q), b)[k] = Pass(Tail(q)[k], b)
    BY <1>2, PassSeqType
  <2> QED BY <1>2, <2>1
<1> HIDE DEF p
<1>4. p # <<>> BY <1>1, EmptySeq
<1>5. Tail(p) \in Seq(Int) /\ Len(Tail(p)) = Len(q) - 1
      /\ \A k \in 1..(Len(q) - 1) : Tail(p)[k] = p[k + 1]
  BY <1>1, <1>4, HeadTailProperties
<1>6. \A k \in 1..(Len(q) - 1) : k + 1 \in 1..Len(q) BY <1>1
<1>7. Tail(p) = PassSeq(Tail(q), b) BY <1>1, <1>3, <1>5, <1>6, SeqEqual
<1>8. Head(p) = Pass(Head(q), b) BY <1>1
<1>9. SumFunction(p) = Head(p) + SumFunction(Tail(p)) BY <1>1, <1>4, SeqSumTail
<1> QED BY <1>7, <1>8, <1>9 DEF Passes, PassSeq, p

(* The passes in the calls a leaf makes when it is entered. *)
LEMMA PassesCalls ==
  ASSUME TypeOK, NEW g \in Gate, NEW q \in Seq(Request), NEW t, NEW b
  PROVE  Passes(q \o Calls(g, t), b) = Passes(q, b) +
           (IF t = "onEntryPassed" /\ lockedEn[g] = b THEN 1
            ELSE IF t = "onExitPassed" /\ lockedEx[g] = b THEN -1 ELSE 0)
<1>1. ASSUME NEW r \in Request, Calls(g, t) = <<r>>
      PROVE  Passes(q \o Calls(g, t), b) = Passes(q, b) + Pass(r, b)
  <2>1. Append(q, r) = q \o <<r>> BY AppendIsConcat
  <2>2. Passes(Append(q, r), b) = Passes(q, b) + Pass(r, b) BY PassesAppend
  <2> QED BY <1>1, <2>1, <2>2
<1>2. /\ [op |-> "check", dir |-> In, bc |-> lockedEn[g]] \in Request
      /\ [op |-> "check", dir |-> Out, bc |-> lockedEx[g]] \in Request
      /\ [op |-> "confirm", dir |-> In, bc |-> lockedEn[g]] \in Request
      /\ [op |-> "confirm", dir |-> Out, bc |-> lockedEx[g]] \in Request
  BY DEF TypeOK, Request, Directions
<1>3. Passes(q, b) \in Int BY PassesType
<1>4. CASE t = "onEntryPassed"
  <2>1. Calls(g, t) = <<[op |-> "confirm", dir |-> In, bc |-> lockedEn[g]]>>
    BY <1>4 DEF Calls
  <2> QED BY <1>1, <1>2, <1>3, <1>4, <2>1 DEF Pass, In
<1>5. CASE t = "onExitPassed"
  <2>1. Calls(g, t) = <<[op |-> "confirm", dir |-> Out, bc |-> lockedEx[g]]>>
    BY <1>5 DEF Calls
  <2> QED BY <1>1, <1>2, <1>3, <1>5, <2>1 DEF Pass, Out
<1>6. CASE t # "onEntryPassed" /\ t # "onExitPassed"
  <2>1. \/ Calls(g, t) = <<>>
        \/ Calls(g, t) = <<[op |-> "check", dir |-> In, bc |-> lockedEn[g]]>>
        \/ Calls(g, t) = <<[op |-> "check", dir |-> Out, bc |-> lockedEx[g]]>>
    BY <1>6 DEF Calls
  <2>2. CASE Calls(g, t) = <<>>
    <3>1. q \o Calls(g, t) = q BY <2>2, ConcatEmptySeq
    <3> QED BY <1>3, <1>6, <3>1
  <2>3. CASE Calls(g, t) # <<>>
    <3>1. PICK r \in Request : Calls(g, t) = <<r>> /\ r.op = "check"
      BY <1>2, <2>1, <2>3
    <3>2. Pass(r, b) = 0 BY <3>1 DEF Pass
    <3> QED BY <1>1, <1>3, <1>6, <3>1, <3>2
  <2> QED BY <2>2, <2>3
<1> QED BY <1>4, <1>5, <1>6

-----------------------------------------------------------------------------
(* The visitors inside, gate by gate and ticket by ticket. *)

Hall == SumFunction([b \in Barcode |-> Inside(b)])

LEMMA InsideType ==
  ASSUME TypeOK, IsFiniteSet(Gate), NEW b \in Keys PROVE Inside(b) \in Int
<1> DEFINE f == [g \in Gate |-> Passes(dbReq[g], b)]
<1>1. \A g \in Gate : f[g] \in Int BY PassesType DEF TypeOK
<1>2. DOMAIN f = Gate OBVIOUS
<1> HIDE DEF f
<1>3. SumFunction(f) \in Int BY <1>1, <1>2, SumType DEF SumFunction
<1>4. tickets[b].pass \in Int BY DEF TypeOK, Rows
<1> QED BY <1>3, <1>4 DEF Inside, f

(* One gate's calls change: so does every ticket, by what they add and by  *)
(* what its row gains.                                                     *)
LEMMA InsideStep ==
  ASSUME TypeOK, IsFiniteSet(Gate), NEW g \in Gate, NEW q \in Seq(Request),
         dbReq' = [dbReq EXCEPT ![g] = q], NEW b \in Keys,
         tickets'[b].pass \in Int
  PROVE  Inside(b)' = Inside(b) + (tickets'[b].pass - tickets[b].pass)
                                + (Passes(q, b) - Passes(dbReq[g], b))
<1> DEFINE f == [h \in Gate |-> Passes(dbReq[h], b)]
           k == [h \in Gate |-> Passes(dbReq'[h], b)]
<1>1. \A h \in Gate : f[h] \in Int BY PassesType DEF TypeOK
<1>2. dbReq' \in [Gate -> Seq(Request)] /\ dbReq'[g] = q
      /\ \A h \in Gate \ {g} : dbReq'[h] = dbReq[h]
  BY DEF TypeOK
<1>3. k[g] = Passes(q, b) /\ f[g] = Passes(dbReq[g], b) /\ k[g] \in Int
  BY <1>2, PassesType
<1>4. \A h \in Gate \ {g} : k[h] = f[h] BY <1>2
<1>5. DOMAIN f = Gate /\ DOMAIN k = Gate OBVIOUS
<1>6. Inside(b) = tickets[b].pass + SumFunction(f)
      /\ Inside(b)' = tickets'[b].pass + SumFunction(k)
  BY DEF Inside
<1> HIDE DEF f, k
<1>7. SumFunction(k) = SumFunction(f) + (k[g] - f[g])
  BY <1>1, <1>3, <1>4, <1>5, SumUpdate DEF SumFunction
<1>8. SumFunction(f) \in Int BY <1>1, <1>5, SumType DEF SumFunction
<1>9. tickets[b].pass \in Int BY DEF TypeOK, Rows
<1> QED BY <1>1, <1>3, <1>6, <1>7, <1>8, <1>9

LEMMA HallType ==
  ASSUME TypeOK, IsFiniteSet(Gate), IsFiniteSet(Barcode) PROVE Hall \in Int
<1> DEFINE f == [b \in Barcode |-> Inside(b)]
<1>1. \A b \in Barcode : f[b] \in Int BY InsideType DEF Keys
<1>2. DOMAIN f = Barcode OBVIOUS
<1> HIDE DEF f
<1>3. SumFunction(f) \in Int BY <1>1, <1>2, SumType DEF SumFunction
<1> QED BY <1>3 DEF Hall, f

LEMMA HallSame ==
  ASSUME \A b \in Barcode : Inside(b)' = Inside(b) PROVE Hall' = Hall
<1>1. [b \in Barcode |-> Inside(b)'] = [b \in Barcode |-> Inside(b)] OBVIOUS
<1> QED BY <1>1 DEF Hall

LEMMA HallOne ==
  ASSUME TypeOK, IsFiniteSet(Gate), IsFiniteSet(Barcode),
         NEW x \in Barcode, NEW d \in Int, Inside(x)' = Inside(x) + d,
         \A b \in Barcode \ {x} : Inside(b)' = Inside(b)
  PROVE  Hall' = Hall + d
<1> DEFINE f == [b \in Barcode |-> Inside(b)]
           k == [b \in Barcode |-> Inside(b)']
<1>1. \A b \in Barcode : f[b] \in Int BY InsideType DEF Keys
<1>2. k[x] = f[x] + d /\ \A b \in Barcode \ {x} : k[b] = f[b] OBVIOUS
<1>3. DOMAIN f = Barcode /\ DOMAIN k = Barcode OBVIOUS
<1>4. Hall = SumFunction(f) /\ Hall' = SumFunction(k) BY DEF Hall
<1> HIDE DEF f, k
<1>5. k[x] \in Int /\ k[x] - f[x] = d BY <1>1, <1>2
<1>6. SumFunction(k) = SumFunction(f) + (k[x] - f[x])
  BY <1>1, <1>2, <1>3, <1>5, SumUpdate DEF SumFunction
<1> QED BY <1>4, <1>5, <1>6

-----------------------------------------------------------------------------
(* Whoever leaves by the exit lane has a barcode.  An entry counts one more *)
(* in the hall whatever its barcode; an exit without one would count one   *)
(* less and be nobody's in the base.                                       *)

ExitEvent == {"ex.barcode"}

ExitKnown ==
  \A g \in Gate :
    /\ st[g] \in ExitScan \cup ExitLocked => lockedEx[g] \in Barcode
    /\ Holds(evq[g], ExitEvent) => exitBc[g] \in Barcode

LEMMA ArcIntoExit ==
  ASSUME NEW s, NEW e, NEW t, Arc(s, e, t)
  PROVE  /\ t \in ExitScan => e = "ex.barcode"
         /\ t \in ExitLocked => s \in ExitScan \cup ExitLocked
<1> SUFFICES ASSUME t \in ExitScan \cup ExitLocked
             PROVE  /\ t \in ExitScan => e = "ex.barcode"
                    /\ t \in ExitLocked => s \in ExitScan \cup ExitLocked
  OBVIOUS
<1>1. <<s, e, t>> \in LeafArc BY ArcOutside DEF Arc, FromConnected
<1>2. \/ t = "onCheckExitDoubleScan" /\ e = "ex.barcode"
      \/ t # "onCheckExitDoubleScan" /\ s \in {"onCheckExitDoubleScan", "onPassExit", "onCheckExitTicket"}
  BY <1>1 DEF LeafArc, ExitScan, ExitLocked
<1> QED BY <1>2 DEF ExitScan, ExitLocked

(* A step that neither moves a machine nor reads a barcode for the exit. *)
LEMMA ExitKept ==
  ASSUME ExitKnown, UNCHANGED <<st, lockedEx, exitBc>>,
         \A h \in Gate : Holds(evq'[h], ExitEvent) => Holds(evq[h], ExitEvent)
  PROVE  ExitKnown'
BY DEF ExitKnown, Holds

LEMMA ExitSubmit ==
  ASSUME TypeOK, ExitKnown, NEW g \in Gate, NEW m \in Msg,
         Submit(g, m), m.name # "ex.barcode", UNCHANGED <<st, lockedEx, exitBc>>
  PROVE  ExitKnown'
<1> SUFFICES ASSUME NEW h \in Gate, Holds(evq'[h], ExitEvent)
             PROVE  Holds(evq[h], ExitEvent)
  BY ExitKept
<1>1. evq \in [Gate -> Seq(Msg)] BY DEF TypeOK
<1>2. h = g => evq'[h] = Append(evq[h], m) BY <1>1 DEF Submit
<1>3. h # g => evq'[h] = evq[h] BY <1>1 DEF Submit
<1> QED BY <1>1, <1>2, <1>3, HoldsAppendOnly DEF ExitEvent

LEMMA SubmitsNoExit ==
  ASSUME TypeOK, NEW g \in Gate, NEW t, NEW reg
  PROVE  ~Holds(Submits(g, t, reg), ExitEvent)
BY SubmitsScan, SubmitsPlain DEF ExitEvent

LEMMA ExitDrain ==
  ASSUME TypeOK, ExitKnown, NEW g \in Gate, Drain(g) PROVE ExitKnown'
<1> DEFINE q == evq[g]
<1>1. /\ q \in Seq(Msg) /\ q # <<>> /\ exitBc' = exitBc
      /\ evq \in [Gate -> Seq(Msg)] /\ st \in [Gate -> Leaf]
      /\ lockedEx \in [Gate -> Keys]
  BY DEF TypeOK, Drain, Move, Discard, Draining, scanned
<1>2. Tail(q) \in Seq(Msg) /\ (Holds(Tail(q), ExitEvent) => Holds(q, ExitEvent))
  BY <1>1, HoldsTailOnly, HeadTailProperties
<1>3. ASSUME Discard(g) PROVE ExitKnown'
  <2>1. UNCHANGED <<st, lockedEx>> /\ evq' = [evq EXCEPT ![g] = Tail(q)]
    BY <1>3 DEF Discard, chart
  <2> HIDE DEF q
  <2>2. ASSUME NEW h \in Gate, Holds(evq'[h], ExitEvent) PROVE Holds(evq[h], ExitEvent)
    <3>1. CASE h = g BY <1>1, <1>2, <2>1, <2>2, <3>1 DEF q
    <3>2. CASE h # g BY <1>1, <2>1, <2>2, <3>2
    <3> QED BY <3>1, <3>2
  <2> QED BY <1>1, <2>1, <2>2, ExitKept
<1>4. ASSUME Move(g) PROVE ExitKnown'
  <2>1. PICK t \in Targets(g) :
          /\ st' = [st EXCEPT ![g] = t]
          /\ lockedEx' = IF t \in ExitScan
                         THEN [lockedEx EXCEPT ![g] = exitBc[g]] ELSE lockedEx
          /\ evq' = [evq EXCEPT ![g] = Tail(@) \o Submits(g, t, RegistryAfterExit(g, st[g], t))]
    BY <1>4 DEF Move
  <2> DEFINE r == Submits(g, t, RegistryAfterExit(g, st[g], t))
  <2>2. st'[g] = t /\ evq'[g] = Tail(q) \o r BY <1>1, <2>1
  <2>3. r \in Seq(Msg) /\ ~Holds(r, ExitEvent) BY SubmitsType, SubmitsNoExit
  <2> HIDE DEF r
  <2>4. Arc(st[g], Head(q).name, t) BY DEF Targets
  <2>5. \A h \in Gate : h # g => /\ st'[h] = st[h] /\ evq'[h] = evq[h]
                                /\ lockedEx'[h] = lockedEx[h]
    BY <1>1, <2>1
  <2>6. Holds(evq'[g], ExitEvent) => Holds(q, ExitEvent)
    BY <1>2, <2>2, <2>3, HoldsConcatOnly
  <2>7. ASSUME t \in ExitScan PROVE lockedEx'[g] \in Barcode
    <3>1. Head(q).name = "ex.barcode" BY <2>4, <2>7, ArcIntoExit
    <3>2. 1 \in DOMAIN q /\ Head(q) = q[1]
      <4>1. DOMAIN q = 1..Len(q) /\ Len(q) \in Nat \ {0} BY <1>1, LenProperties, EmptySeq
      <4> QED BY <1>1, <4>1
    <3>3. Holds(q, ExitEvent) BY <3>1, <3>2 DEF Holds, ExitEvent
    <3> QED BY <1>1, <2>1, <2>7, <3>3 DEF ExitKnown
  <2>8. ASSUME t \in ExitLocked PROVE lockedEx'[g] \in Barcode
    <3>1. t \notin ExitScan BY <2>8, ScanApart
    <3>2. st[g] \in ExitScan \cup ExitLocked BY <2>4, <2>8, ArcIntoExit
    <3> QED BY <2>1, <3>1, <3>2 DEF ExitKnown
  <2> HIDE DEF q
  <2> SUFFICES ASSUME NEW h \in Gate
               PROVE  /\ st'[h] \in ExitScan \cup ExitLocked => lockedEx'[h] \in Barcode
                      /\ Holds(evq'[h], ExitEvent) => exitBc'[h] \in Barcode
    BY DEF ExitKnown, Holds
  <2>9. CASE h = g BY <1>1, <2>2, <2>6, <2>7, <2>8, <2>9 DEF ExitKnown, q
  <2>10. CASE h # g BY <1>1, <2>5, <2>10 DEF ExitKnown
  <2> QED BY <2>9, <2>10
<1> QED BY <1>3, <1>4 DEF Drain

LEMMA ExitLinks ==
  ASSUME TypeOK, ExitKnown, NEW g \in Gate, Links(g) PROVE ExitKnown'
<1>1. /\ evq \in [Gate -> Seq(Msg)] /\ UNCHANGED <<st, lockedEx, exitBc>>
  BY DEF TypeOK, Links, ConnectMain, ConnectSlave, DisconnectMain, chart, scanned
<1>2. \A e \in {"mainConnected", "mainDisconnected"} : Ev(e) \in Msg /\ Ev(e).name = e
  BY EvType, EventParts DEF LinkEvent, Ev
<1>3. RedoSubmits(g) \in Seq(Msg) /\ ~Holds(RedoSubmits(g), ExitEvent)
  BY RedoType, SubmitsNoExit, HoldsNone DEF RedoSubmits
<1>4. CASE DisconnectMain(g) BY <1>1, <1>2, <1>4, ExitSubmit DEF DisconnectMain
<1>5. ASSUME NEW q \in Seq(Msg), Holds(q, ExitEvent) => Holds(evq[g], ExitEvent),
             evq' = [evq EXCEPT ![g] = q \o RedoSubmits(g)]
      PROVE  ExitKnown'
  <2>1. ASSUME NEW h \in Gate, Holds(evq'[h], ExitEvent) PROVE Holds(evq[h], ExitEvent)
    <3>1. CASE h = g
      <4>1. evq'[g] = q \o RedoSubmits(g) BY <1>1, <1>5
      <4> QED BY <1>3, <1>5, <2>1, <3>1, <4>1, HoldsConcatOnly
    <3>2. CASE h # g BY <1>1, <1>5, <2>1, <3>2
    <3> QED BY <3>1, <3>2
  <2> QED BY <1>1, <2>1, ExitKept
<1>6. CASE ConnectMain(g)
  <2> DEFINE q == Append(evq[g], Ev("mainConnected"))
  <2>1. q \in Seq(Msg) /\ (Holds(q, ExitEvent) => Holds(evq[g], ExitEvent))
    BY <1>1, <1>2, AppendProperties, HoldsAppendOnly DEF ExitEvent
  <2>2. evq' = [evq EXCEPT ![g] = q \o RedoSubmits(g)] BY <1>6 DEF ConnectMain
  <2> HIDE DEF q
  <2> QED BY <1>5, <2>1, <2>2
<1>7. CASE ConnectSlave(g) BY <1>1, <1>5, <1>7 DEF ConnectSlave
<1> QED BY <1>4, <1>6, <1>7 DEF Links

LEMMA ExitSlots ==
  ASSUME TypeOK, AnswersInv, ExitKnown, NEW g \in Gate,
         \/ Visitors(g)
         \/ \E e \in CrossboardEvent : Report(g, e)
         \/ \E i \in Timer : TimerFires(g, i)
         \/ \E e \in {"certOK", "certFail"} : CertReply(g, e)
         \/ DbAnswer(g)
         \/ \E c \in WidgetCmds : GateCommand(g, c)
  PROVE  ExitKnown'
<1>1. \A e \in Event : Ev(e) \in Msg /\ Ev(e).name = e BY EvType DEF Ev
<1>2. ASSUME NEW b \in Barcode, ScanEntry(g, b) PROVE ExitKnown'
  <2>1. Ev("en.barcode") \in Msg /\ Ev("en.barcode").name # "ex.barcode"
    BY <1>1, EventParts DEF ReaderEvent
  <2> QED BY <1>2, <2>1, ExitSubmit DEF ScanEntry, chart
<1>3. ASSUME NEW b \in Barcode, ScanExit(g, b) PROVE ExitKnown'
  <2>1. /\ UNCHANGED <<st, lockedEx>> /\ exitBc' = [exitBc EXCEPT ![g] = b]
        /\ exitBc \in [Gate -> Keys]
        /\ \A h \in Gate : h # g => evq'[h] = evq[h]
    BY <1>3 DEF ScanExit, Submit, TypeOK, chart
  <2> QED BY <2>1 DEF ExitKnown, Holds
<1>4. ASSUME NEW e \in CrossboardEvent, Report(g, e) PROVE ExitKnown'
  <2>1. Ev(e) \in Msg /\ Ev(e).name # "ex.barcode"
    BY <1>1, EventParts DEF CrossboardEvent
  <2> QED BY <1>4, <2>1, ExitSubmit DEF Report, chart, scanned
<1>5. ASSUME NEW i \in Timer, TimerFires(g, i) PROVE ExitKnown'
  <2>1. TimeoutOf[i] # "ex.barcode" BY DEF Timer, TimeoutOf
  <2>2. Ev(TimeoutOf[i]) \in Msg /\ Ev(TimeoutOf[i]).name # "ex.barcode"
    BY <1>1, <2>1, TimeoutType
  <2> QED BY <1>5, <2>2, ExitSubmit DEF TimerFires, scanned
<1>6. ASSUME NEW e \in {"certOK", "certFail"}, CertReply(g, e) PROVE ExitKnown'
  <2>1. Ev(e) \in Msg /\ Ev(e).name # "ex.barcode"
    BY <1>1, EventParts DEF CertEvent
  <2> QED BY <1>6, <2>1, ExitSubmit DEF CertReply, chart, scanned
<1>7. CASE DbAnswer(g)
  <2>1. Head(dbAns[g]) \in DbMsg
    BY <1>7, HeadTailProperties DEF DbAnswer, AnswersInv
  <2>2. Head(dbAns[g]) \in Msg /\ Head(dbAns[g]).name # "ex.barcode"
    BY <2>1, DbMsgType DEF DbMsg, DbEvent
  <2> QED BY <1>7, <2>2, ExitSubmit DEF DbAnswer, chart, scanned
<1>8. ASSUME NEW c \in WidgetCmds, GateCommand(g, c) PROVE ExitKnown'
  <2>1. /\ Ev("cmd.arm") \in Msg /\ Ev("cmd.arm").name # "ex.barcode"
        /\ Ev("cmd.unlock") \in Msg /\ Ev("cmd.unlock").name # "ex.barcode"
    BY <1>1, EventParts DEF CommandEvent
  <2>2. UNCHANGED <<st, lockedEx, exitBc>> BY <1>8 DEF GateCommand, chart, scanned
  <2>3. CASE Submit(g, Ev("cmd.arm")) \/ Submit(g, Ev("cmd.unlock"))
    BY <2>1, <2>2, <2>3, ExitSubmit
  <2>4. CASE UNCHANGED evq BY <2>2, <2>4 DEF ExitKnown, Holds
  <2> QED BY <1>8, <2>3, <2>4 DEF GateCommand
<1> QED BY <1>2, <1>3, <1>4, <1>5, <1>6, <1>7, <1>8 DEF Visitors

LEMMA ExitInductive == Spec => []ExitKnown
<1>1. Init => ExitKnown
  <2>1. "onMainDisconnected" \notin ExitScan \cup ExitLocked
    BY DEF ExitScan, ExitLocked
  <2> QED BY <2>1, HoldsNone DEF Init, ExitKnown
<1>2. TypeOK /\ AnswersInv /\ ExitKnown /\ [Next]_vars => ExitKnown'
  <2> SUFFICES ASSUME TypeOK, AnswersInv, ExitKnown, [Next]_vars PROVE ExitKnown'
    OBVIOUS
  <2>1. ASSUME UNCHANGED <<st, lockedEx, exitBc, evq>> PROVE ExitKnown'
    BY <2>1 DEF ExitKnown, Holds
  <2>2. ASSUME NEW g \in Gate, Database(g) PROVE ExitKnown'
    BY <2>1, <2>2 DEF Database, DbCheck, DbConfirm, DbFails, chart, scanned
  <2>3. ASSUME NEW c \in WidgetCmds, ServerCommand(c) PROVE ExitKnown'
    BY <2>1, <2>3 DEF ServerCommand, chart, scanned
  <2>4. CASE UNCHANGED vars BY <2>1, <2>4 DEF vars, chart, scanned
  <2> QED
    BY <2>2, <2>3, <2>4, ExitDrain, ExitLinks, ExitSlots DEF Next
<1> QED BY <1>1, <1>2, TypeCorrect, OfflineInductive, PTL DEF Spec

-----------------------------------------------------------------------------
(* The steps that touch the counters, the rows or the queued calls. *)

Covers == current >= Hall /\ total >= current

LEMMA CoversSame ==
  ASSUME Covers, UNCHANGED <<current, total>>,
         \A b \in Barcode : Inside(b)' = Inside(b)
  PROVE  Covers'
<1>1. Hall' = Hall BY HallSame
<1> QED BY <1>1 DEF Covers

LEMMA CoversUnchanged ==
  ASSUME Covers, UNCHANGED <<current, total, tickets, dbReq>> PROVE Covers'
BY CoversSame DEF Inside

(* A machine that opens for one visitor counts it and asks the base to. *)
LEMMA CoversMove ==
  ASSUME TypeOK, CountsAgree, ExitKnown, Covers, NEW g \in Gate, Move(g)
  PROVE  Covers'
<1>0. IsFiniteSet(Gate) /\ IsFiniteSet(Barcode) BY DEF CountsAgree
<1>1. PICK t \in Targets(g) :
        /\ dbReq' = [dbReq EXCEPT ![g] = @ \o Calls(g, t)]
        /\ CASE t = "onEntryPassed" -> Counted(In)
             [] t = "onExitPassed"  -> Counted(Out)
             [] OTHER               -> UNCHANGED <<current, total>>
  BY DEF Move
<1>2. tickets' = tickets BY DEF Move
<1> DEFINE q == dbReq[g] \o Calls(g, t)
           D(b) == IF t = "onEntryPassed" /\ lockedEn[g] = b THEN 1
                   ELSE IF t = "onExitPassed" /\ lockedEx[g] = b THEN -1 ELSE 0
<1>3. dbReq[g] \in Seq(Request) /\ q \in Seq(Request)
      /\ dbReq' = [dbReq EXCEPT ![g] = q]
  BY <1>1, CallsType, ConcatProperties DEF TypeOK
<1>4. ASSUME NEW b \in Barcode PROVE Inside(b)' = Inside(b) + D(b)
  <2>1. b \in Keys BY DEF Keys
  <2>2. Passes(q, b) = Passes(dbReq[g], b) + D(b) BY <1>3, PassesCalls
  <2>3. Passes(dbReq[g], b) \in Int /\ D(b) \in Int BY <1>3, PassesType
  <2>4. tickets'[b].pass \in Int /\ tickets'[b].pass = tickets[b].pass
    BY <1>2, <2>1 DEF TypeOK, Rows
  <2>5. Inside(b) \in Int BY <1>0, <2>1, InsideType
  <2> HIDE DEF q, D
  <2>6. Inside(b)' = Inside(b) + (tickets'[b].pass - tickets[b].pass)
                               + (Passes(q, b) - Passes(dbReq[g], b))
    BY <1>0, <1>3, <2>1, <2>4, InsideStep
  <2> QED BY <2>2, <2>3, <2>4, <2>5, <2>6
<1>5. \A b \in Barcode : Inside(b) \in Int BY <1>0, InsideType DEF Keys
<1>6. Hall \in Int /\ current \in Nat /\ total \in Nat
  BY <1>0, HallType DEF TypeOK
<1>7. CASE t = "onEntryPassed"
  <2>1. current' = current + 1 /\ total' = total + 1
    BY <1>1, <1>6, <1>7 DEF Counted, In
  <2>2. Hall' = Hall \/ Hall' = Hall + 1
    <3>1. CASE lockedEn[g] \in Barcode
      <4>0. PICK x \in Barcode : x = lockedEn[g] BY <3>1
      <4>1. Inside(x)' = Inside(x) + 1 BY <1>4, <1>7, <4>0
      <4>2. \A b \in Barcode \ {x} : Inside(b)' = Inside(b)
        BY <1>4, <1>5, <1>7, <4>0
      <4> QED BY <1>0, <4>1, <4>2, HallOne
    <3>2. CASE lockedEn[g] \notin Barcode
      <4>1. \A b \in Barcode : Inside(b)' = Inside(b) BY <1>4, <1>5, <1>7, <3>2
      <4> QED BY <4>1, HallSame
    <3> QED BY <3>1, <3>2
  <2> QED BY <1>6, <2>1, <2>2 DEF Covers
<1>8. CASE t = "onExitPassed"
  <2>1. /\ current' = IF current - 1 < 0 THEN 0 ELSE current - 1
        /\ total' = total
    BY <1>1, <1>6, <1>8 DEF Counted, Out
  <2>2. lockedEx[g] \in Barcode
    <3>1. Arc(st[g], Head(evq[g]).name, t) BY DEF Targets
    <3>2. t \in ExitLocked BY <1>8 DEF ExitLocked
    <3>3. st[g] \in ExitScan \cup ExitLocked BY <3>1, <3>2, ArcIntoExit
    <3> QED BY <3>3 DEF ExitKnown
  <2>3. PICK x \in Barcode : x = lockedEx[g] BY <2>2
  <2>4. /\ Inside(x)' = Inside(x) + (-1)
        /\ \A b \in Barcode \ {x} : Inside(b)' = Inside(b)
    BY <1>4, <1>5, <1>8, <2>3
  <2>5. Hall' = Hall + (-1) BY <1>0, <2>4, HallOne
  <2>6. current' = current - 1 \/ (current' = 0 /\ current = 0)
    BY <1>6, <2>1
  <2> QED BY <1>6, <2>1, <2>5, <2>6 DEF Covers
<1>9. CASE t # "onEntryPassed" /\ t # "onExitPassed"
  <2>1. UNCHANGED <<current, total>> BY <1>1, <1>9
  <2>2. \A b \in Barcode : Inside(b)' = Inside(b) BY <1>4, <1>5, <1>9
  <2> QED BY <2>1, <2>2, CoversSame
<1> QED BY <1>7, <1>8, <1>9

(* The entry script a reconnection runs once more confirms nothing. *)
LEMMA CoversRedo ==
  ASSUME TypeOK, CountsAgree, Covers, NEW g \in Gate, Redo(g),
         UNCHANGED <<current, total, tickets>>
  PROVE  Covers'
<1>0. IsFiniteSet(Gate) BY DEF CountsAgree
<1>1. CASE ~Redoes(g) BY <1>1, CoversUnchanged DEF Redo
<1>2. CASE Redoes(g)
  <2> DEFINE q == dbReq[g] \o Calls(g, st[g])
  <2>1. dbReq[g] \in Seq(Request) /\ q \in Seq(Request)
        /\ dbReq' = [dbReq EXCEPT ![g] = q]
    BY <1>2, CallsType, ConcatProperties DEF TypeOK, Redo
  <2>2. ASSUME NEW b \in Barcode PROVE Inside(b)' = Inside(b)
    <3>1. b \in Keys BY DEF Keys
    <3>2. st[g] # "onEntryPassed" /\ st[g] # "onExitPassed" BY <1>2 DEF Redoes
    <3>3. Passes(dbReq[g], b) \in Int BY <2>1, PassesType
    <3>4. Passes(q, b) = Passes(dbReq[g], b) BY <2>1, <3>2, <3>3, PassesCalls
    <3>5. tickets'[b].pass \in Int /\ tickets'[b].pass = tickets[b].pass
      BY <3>1 DEF TypeOK, Rows
    <3>6. Inside(b) \in Int BY <1>0, <3>1, InsideType
    <3> HIDE DEF q
    <3>7. Inside(b)' = Inside(b) + (tickets'[b].pass - tickets[b].pass)
                                 + (Passes(q, b) - Passes(dbReq[g], b))
      BY <1>0, <2>1, <3>1, <3>5, InsideStep
    <3> QED BY <3>3, <3>4, <3>5, <3>6, <3>7
  <2> QED BY <2>2, CoversSame
<1> QED BY <1>1, <1>2

(* The base does what was asked of it: a pass leaves the queue as it       *)
(* enters the row.                                                         *)
LEMMA CoversDatabase ==
  ASSUME TypeOK, CountsAgree, Covers, NEW g \in Gate, Database(g)
  PROVE  Covers'
<1> DEFINE r == Head(dbReq[g])
           q == Tail(dbReq[g])
<1>0. IsFiniteSet(Gate) BY DEF CountsAgree
<1>1. DbCheck(g) \/ DbConfirm(g) BY DEF Database, CountsAgree
<1>2. /\ dbReq[g] \in Seq(Request) /\ dbReq[g] # <<>>
      /\ dbReq' = [dbReq EXCEPT ![g] = q] /\ UNCHANGED <<current, total>>
  BY <1>1 DEF TypeOK, DbCheck, DbConfirm, server
<1>3. r \in Request /\ q \in Seq(Request) BY <1>2, HeadTailProperties
<1>4. ASSUME NEW b \in Barcode
      PROVE  tickets'[b].pass = tickets[b].pass + Pass(r, b)
  <2>1. b \in Keys /\ tickets[b].pass \in Int BY DEF Keys, TypeOK, Rows
  <2>2. CASE DbCheck(g)
    <3>1. tickets' = tickets /\ r.op = "check" BY <2>2 DEF DbCheck
    <3> QED BY <2>1, <3>1 DEF Pass
  <2>3. CASE DbConfirm(g)
    <3>1. /\ r.op = "confirm"
          /\ tickets' = IF Kind[r.bc] = "ticket"
                        THEN [tickets EXCEPT ![r.bc] = Confirmed(r.dir, @)] ELSE tickets
      BY <2>3 DEF DbConfirm
    <3>2. tickets \in [Keys -> Rows] /\ r.bc \in Keys BY <1>3 DEF TypeOK, Request
    <3> HIDE DEF r
    <3>3. CASE r.bc = b
      <4>1. Kind[b] = "ticket" BY DEF CountsAgree
      <4>2. tickets'[b] = Confirmed(r.dir, tickets[b]) BY <2>1, <3>1, <3>2, <3>3, <4>1
      <4> QED BY <3>1, <3>3, <4>2 DEF Confirmed, Pass
    <3>4. CASE r.bc # b
      <4>1. tickets'[b] = tickets[b] BY <2>1, <3>1, <3>2, <3>4
      <4> QED BY <2>1, <3>4, <4>1 DEF Pass
    <3> QED BY <3>3, <3>4
  <2> QED BY <1>1, <2>2, <2>3
<1>5. ASSUME NEW b \in Barcode PROVE Inside(b)' = Inside(b)
  <2>1. b \in Keys /\ tickets[b].pass \in Int BY DEF Keys, TypeOK, Rows
  <2>2. Pass(r, b) \in Int BY <1>3, PassType
  <2>3. Passes(q, b) \in Int BY <1>3, PassesType
  <2>4. Passes(dbReq[g], b) = Pass(r, b) + Passes(q, b) BY <1>2, PassesTail
  <2>5. Inside(b) \in Int BY <1>0, <2>1, InsideType
  <2>6. tickets'[b].pass = tickets[b].pass + Pass(r, b) BY <1>4
  <2> HIDE DEF q, r
  <2>7. tickets'[b].pass \in Int BY <2>1, <2>2, <2>6
  <2>8. Inside(b)' = Inside(b) + (tickets'[b].pass - tickets[b].pass)
                               + (Passes(q, b) - Passes(dbReq[g], b))
    BY <1>0, <1>2, <1>3, <2>1, <2>7, InsideStep
  <2> QED BY <2>1, <2>2, <2>3, <2>4, <2>5, <2>6, <2>8
<1> QED BY <1>2, <1>5, CoversSame

LEMMA CoversInit == ASSUME WicketAssumption, CountsAgree, Init PROVE Covers
<1>1. current = PassCounts.inHall /\ total = PassCounts.visited
  BY DEF Init, StartCounts, CountsAgree
<1>2. TypeOK BY InitType
<1>3. ASSUME NEW b \in Barcode PROVE Inside(b) = RowsAtStart[b].pass
  <2> DEFINE f == [g \in Gate |-> Passes(dbReq[g], b)]
             z == [g \in Gate |-> 0]
  <2>1. \A g \in Gate : f[g] = 0 BY PassesNone DEF Init
  <2>2. DOMAIN f = Gate OBVIOUS
  <2>3. Inside(b) = tickets[b].pass + SumFunction(f) BY DEF Inside
  <2> HIDE DEF f
  <2>4. SumFunction(f) = 0
    BY <2>1, <2>2, SumZero DEF SumFunction, CountsAgree
  <2>5. tickets[b].pass = RowsAtStart[b].pass /\ tickets[b].pass \in Int
    BY <1>2 DEF Init, TypeOK, Rows, Keys
  <2> QED BY <2>3, <2>4, <2>5
<1>4. Hall = SumFunction([b \in Barcode |-> RowsAtStart[b].pass])
  <2>1. [b \in Barcode |-> Inside(b)] = [b \in Barcode |-> RowsAtStart[b].pass]
    BY <1>3
  <2> QED BY <2>1 DEF Hall
<1>5. Hall \in Int BY <1>2, HallType DEF CountsAgree
<1> QED BY <1>1, <1>4, <1>5 DEF CountsAgree, Covers, WicketAssumption

(* The counters of the server cover what the ticket base will say: whoever *)
(* the base has inside once its queued calls are done is counted in the    *)
(* hall, and whoever is counted in the hall was counted as a visitor.      *)
THEOREM HallCovered == ASSUME CountsAgree PROVE Spec => []HallCountCovers
<1>1. Init => Covers BY CoversInit, WicketAssumption
<1>2. TypeOK /\ ExitKnown /\ Covers /\ [Next]_vars => Covers'
  <2> SUFFICES ASSUME TypeOK, ExitKnown, Covers, [Next]_vars PROVE Covers'
    OBVIOUS
  <2>1. ASSUME UNCHANGED <<current, total, tickets, dbReq>> PROVE Covers'
    BY <2>1, CoversUnchanged
  <2>2. ASSUME NEW g \in Gate, Drain(g) PROVE Covers'
    <3>1. CASE Move(g) BY <3>1, CoversMove
    <3>2. CASE Discard(g) BY <2>1, <3>2 DEF Discard, server, db
    <3> QED BY <2>2, <3>1, <3>2 DEF Drain
  <2>3. ASSUME NEW g \in Gate, Links(g) PROVE Covers'
    <3>1. CASE ConnectMain(g) BY <3>1, CoversRedo DEF ConnectMain, server
    <3>2. CASE ConnectSlave(g) BY <3>2, CoversRedo DEF ConnectSlave, server
    <3>3. CASE DisconnectMain(g) BY <2>1, <3>3 DEF DisconnectMain, server, db
    <3> QED BY <2>3, <3>1, <3>2, <3>3 DEF Links
  <2>4. ASSUME NEW g \in Gate,
               \/ Visitors(g)
               \/ \E e \in CrossboardEvent : Report(g, e)
               \/ \E i \in Timer : TimerFires(g, i)
               \/ \E e \in {"certOK", "certFail"} : CertReply(g, e)
               \/ DbAnswer(g)
               \/ \E c \in WidgetCmds : GateCommand(g, c)
        PROVE  Covers'
    BY <2>1, <2>4 DEF Visitors, ScanEntry, ScanExit, Report, TimerFires, CertReply,
                      DbAnswer, GateCommand, server, db
  <2>5. ASSUME NEW c \in WidgetCmds, ServerCommand(c) PROVE Covers'
    <3>1. c # "rstCntrs" BY DEF CountsAgree
    <3> QED BY <2>1, <2>5, <3>1 DEF ServerCommand, db
  <2>6. CASE UNCHANGED vars BY <2>1, <2>6 DEF vars, server, db
  <2> QED BY <2>2, <2>3, <2>4, <2>5, <2>6, CoversDatabase DEF Next
<1>3. Covers => HallCountCovers BY DEF Covers, HallCountCovers, Hall
<1> QED BY <1>1, <1>2, <1>3, TypeCorrect, ExitInductive, PTL DEF Spec
=============================================================================
