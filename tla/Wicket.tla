-------------------------------- MODULE Wicket --------------------------------
(***************************************************************************)
(* The turnstile server: the main thread (main_server, every wicketGate,   *)
(* its state machine and its model), one database thread per gate, and the *)
(* environment (visitors, crossboards, reader links, the widget, the       *)
(* certificate service).                                                   *)
(*                                                                         *)
(* submitEvent only appends to the machine's external queue; the queue is  *)
(* drained later, in one go, from the main event loop.  "busy" names the   *)
(* gate whose queue is being drained: until it is empty no other slot of   *)
(* the main thread runs.  Several slots may run between a submitEvent and  *)
(* the drain it asked for; MaxBacklog bounds how many events wait then.    *)
(***************************************************************************)
EXTENDS Integers, Sequences, Functions, TicketDb, WicketChart

CONSTANTS
  Gate,          \* the turnstiles of dbo.Gate2
  NoGate,        \* the null gate pointer
  Barcode,       \* the barcodes visitors carry
  NoBarcode,     \* the empty string a barcode variable starts with
  Kind,          \* what each barcode is to the ticket base
  MaxPass,       \* CheckTicket.MaxPass of each barcode that is a ticket
  RowsAtStart,   \* the rows of dbo.CheckTicket when the server starts
  PassCounts,    \* what dbo.get_ticket_pass_count says of them
  CovidQR,       \* the barcodes that are links to a covid certificate
  BadQR,         \* those whose link has no recognised path
  CertCheck,     \* the gates whose gateData.certCheck is set
  WidgetCmds,    \* the widget commands that may arrive
  DbFaults,      \* how a query may fail: "closed", "error", "caught"
  MaxBacklog,    \* events a queue may hold when another one is submitted
  Workload       \* how many scans, reports, link changes and commands may come

Keys == Barcode \cup {NoBarcode}

ASSUME WicketAssumption ==
  /\ NoGate \notin Gate
  /\ NoBarcode \notin Barcode
  /\ Kind \in [Keys -> Kinds] /\ Kind[NoBarcode] = "unknown"
  /\ MaxPass \in [Keys -> Nat]
  /\ RowsAtStart \in [Keys -> Rows]
  /\ PassCounts \in [inHall : Nat, visited : Nat]
  /\ CovidQR \subseteq Barcode /\ BadQR \subseteq CovidQR
  /\ CertCheck \subseteq Gate
  /\ MaxBacklog \in Nat \ {0}
  /\ Workload \subseteq [{"scan", "report", "link", "cmd"} -> Nat]
  /\ DbFaults \subseteq {"closed", "error", "caught"}

VARIABLES
  st,         \* [Gate -> Leaf]: the active leaf of region Main
  evq,        \* [Gate -> Seq(Msg)]: the external event queue of the machine
  timers,     \* [Gate -> [Timer -> Nat]]: delayed sends not yet fired
  lockedEn,   \* [Gate -> Keys]: IModel::lockedEntryBarcode
  lockedEx,   \* [Gate -> Keys]: IModel::lockedExitBarcode
  entryBc,    \* [Gate -> Keys]: IModel::entryBarcode
  exitBc,     \* [Gate -> Keys]: IModel::exitBarcode
  certCheck,  \* [Gate -> BOOLEAN]: IModel::certCheckEnable
  certAsk,    \* [Gate -> Nat]: certificate requests not answered yet
  links,      \* [Gate -> Nat]: main reader connections not yet closed
  busy,       \* the gate whose queue is being drained, or NoGate
  registry,   \* [Keys -> Gate or NoGate]: wicketGateListByBarcode
  dblSwitch,  \* doubleScanSwitcher
  current,    \* current_count
  total,      \* total_count
  dbReq,      \* [Gate -> Seq(Request)]: calls queued to the gate's db_worker
  dbAns,      \* [Gate -> Seq(Msg)]: its signals queued to the main thread
  tickets,    \* [Keys -> Rows]: dbo.CheckTicket
  left        \* what the environment may still do

chart == <<st, timers, lockedEn, lockedEx>>
scanned == <<entryBc, exitBc>>
server == <<registry, dblSwitch, current, total>>
db == <<dbReq, dbAns, tickets>>
vars == <<chart, evq, scanned, certCheck, certAsk, links, busy, server, db, left>>

Msg == [name : Event, bc : Keys]
Request == [op : {"check", "confirm"}, dir : Directions, bc : Keys]
Ev(e) == [name |-> e, bc |-> NoBarcode]

(* main_server::get_ticket_pass_count: the counters a start or a restart   *)
(* begins with; zero when the base does not answer.                        *)
StartCounts ==
  {PassCounts} \cup
  (IF DbFaults \cap {"closed", "error"} # {} THEN {[inHall |-> 0, visited |-> 0]} ELSE {})

Init ==
  /\ st = [g \in Gate |-> "onMainDisconnected"]
  /\ evq = [g \in Gate |-> <<>>]
  /\ timers = [g \in Gate |-> [i \in Timer |-> 0]]
  /\ lockedEn = [g \in Gate |-> NoBarcode]
  /\ lockedEx = [g \in Gate |-> NoBarcode]
  /\ entryBc = [g \in Gate |-> NoBarcode]
  /\ exitBc = [g \in Gate |-> NoBarcode]
  /\ certCheck = [g \in Gate |-> g \in CertCheck]
  /\ certAsk = [g \in Gate |-> 0]
  /\ links = [g \in Gate |-> 0]
  /\ busy = NoGate
  /\ registry = [b \in Keys |-> NoGate]
  /\ dblSwitch = TRUE
  /\ \E c \in StartCounts : current = c.inHall /\ total = c.visited
  /\ dbReq = [g \in Gate |-> <<>>]
  /\ dbAns = [g \in Gate |-> <<>>]
  /\ tickets = RowsAtStart
  /\ left \in Workload

-----------------------------------------------------------------------------
(* The main thread runs a slot: no queue is being drained, and the queue   *)
(* the slot submits to is not yet at the bound.                            *)
Idle == busy = NoGate
Room(g) == Idle /\ Len(evq[g]) < MaxBacklog

Submit(g, m) == evq' = [evq EXCEPT ![g] = Append(@, m)]

Spend(what) == left[what] > 0 /\ left' = [left EXCEPT ![what] = @ - 1]

(* Mutant: the switch read the wrong way round. *)
RefusedWhenOff(reg, b) == ~dblSwitch /\ reg[b] # NoGate

(* main_server::checkDoubleScan: refused when the check is on and some     *)
(* gate, be it the asking one, is registered for the barcode.              *)
Refused(reg, b) == dblSwitch /\ reg[b] # NoGate

(* Mutant: current_count is not kept from going below zero. *)
CountedUnfloored(dir) ==
  /\ current' = current + dir
  /\ total' = IF dir > 0 THEN total + dir ELSE total

(* main_server::ticketCounter, called when a model emits s_confirmPass. *)
Counted(dir) ==
  /\ current' = IF current + dir < 0 THEN 0 ELSE current + dir
  /\ total' = IF dir > 0 THEN total + dir ELSE total

-----------------------------------------------------------------------------
(* What a machine does when it moves from leaf s to leaf t on the first    *)
(* event of its queue: the onexit of the composites it leaves, then the    *)
(* onentry of t, whose script is a method of wicketModel.                  *)

(* Mutants: the exit lane resets nothing; the reset hangs on the onexit of *)
(* onEntry and onExit, which the refused visitor leaves too.               *)
ReleasedEntryOnly(g, s, t) ==
  IF s \in EntryLocked /\ t \notin EntryLocked THEN {lockedEn[g]} ELSE {}
ReleasedByLane(g, s, t) ==
  IF s \in OnEntry /\ t \notin OnEntry THEN {lockedEn[g]}
  ELSE IF s \in OnExit /\ t \notin OnExit THEN {lockedEx[g]}
  ELSE {}

(* resetEntryDoubleScan / resetExitDoubleScan -> m_resetDoubleScan: the    *)
(* entry is removed whoever it belongs to.                                 *)
Released(g, s, t) ==
  IF s \in EntryLocked /\ t \notin EntryLocked THEN {lockedEn[g]}
  ELSE IF s \in ExitLocked /\ t \notin ExitLocked THEN {lockedEx[g]}
  ELSE {}

RegistryAfterExit(g, s, t) ==
  [b \in Keys |-> IF b \in Released(g, s, t) THEN NoGate ELSE registry[b]]

IsScan(t) == t \in EntryScan \cup ExitScan

(* onCheckEntryDoubleScan / onCheckExitDoubleScan copy the last barcode    *)
(* read, which need not be the one whose event is handled.                 *)
ScanKey(g, t) == IF t \in EntryScan THEN entryBc[g] ELSE exitBc[g]

(* The send in the onentry of the leaves that end a service.  Its mutants  *)
(* leave out the one of the drop leaves, or that of the exit lane.         *)
OnwardNoReady(t) ==
  IF t \in {"onEntryPassed", "onExitPassed"} THEN <<Ev("passed")>> ELSE <<>>
OnwardNoExit(t) ==
  CASE t = "onEntryPassed"                   -> <<Ev("passed")>>
    [] t \in {"onEntryDrop", "onExitDrop"}   -> <<Ev("ready")>>
    [] OTHER                                 -> <<>>
Onward(t) ==
  CASE t \in {"onEntryPassed", "onExitPassed"} -> <<Ev("passed")>>
    [] t \in {"onEntryDrop", "onExitDrop"}     -> <<Ev("ready")>>
    [] OTHER                                   -> <<>>

(* The events the entry scripts and sends of t append to the queue. *)
Submits(g, t, reg) ==
  CASE IsScan(t) /\ Refused(reg, ScanKey(g, t))  -> <<Ev("fail.dblscn")>>
    [] IsScan(t) /\ ~Refused(reg, ScanKey(g, t)) ->
         <<[name |-> "ok.dblscn", bc |-> ScanKey(g, t)]>>
    [] t = "onCheckTypeBarcode" /\ lockedEn[g] \in CovidQR ->
         <<[name |-> "isCovidQR", bc |-> lockedEn[g]]>>
    [] t = "onCheckCert" /\ lockedEn[g] \notin CovidQR \ BadQR -> <<Ev("certFail")>>
    [] OTHER -> Onward(t)

(* The calls t queues to the database thread of its gate. *)
Calls(g, t) ==
  CASE \/ t \in {"onCheckTicket", "onCheckCertCtrl"}
       \/ t = "onCheckTypeBarcode" /\ lockedEn[g] \notin CovidQR ->
         <<[op |-> "check", dir |-> In, bc |-> lockedEn[g]]>>
    [] t = "onCheckExitTicket" -> <<[op |-> "check", dir |-> Out, bc |-> lockedEx[g]]>>
    [] t = "onEntryPassed" -> <<[op |-> "confirm", dir |-> In, bc |-> lockedEn[g]]>>
    [] t = "onExitPassed"  -> <<[op |-> "confirm", dir |-> Out, bc |-> lockedEx[g]]>>
    [] OTHER               -> <<>>

AsksCert(g, t) == t = "onCheckCert" /\ lockedEn[g] \in CovidQR \ BadQR

(* onexit cancels one delayed send of the sendid, if there is one. *)
TimersAfter(g, s, t) ==
  [i \in Timer |->
     LET kept == IF i \in Cancels(s) /\ timers[g][i] > 0
                 THEN timers[g][i] - 1 ELSE timers[g][i]
     IN  IF i \in Arms(t) THEN kept + 1 ELSE kept]

(* The cond of the guarded arcs. *)
Cond(g, s, e, t) ==
  /\ (s = "onReady" /\ e = "en.barcode") =>
        (t = IF certCheck[g] THEN "onCheckCertDblScn" ELSE "onCheckTicketDblScn")
  /\ (s \in {"onWaitCovidContoller", "onWaitEntryTicket"} /\ e = "en.barcode") =>
        lockedEn[g] # entryBc[g]

Targets(g) ==
  {t \in Leaf : /\ Arc(st[g], Head(evq[g]).name, t)
                /\ Cond(g, st[g], Head(evq[g]).name, t)}

(* A drain starts on any gate that has events, and goes on until its queue *)
(* is empty.                                                               *)
Draining(g) == busy \in {NoGate, g} /\ evq[g] # <<>>
DrainGoesOn(g) == busy' = IF evq'[g] = <<>> THEN NoGate ELSE g

-----------------------------------------------------------------------------
(* The state machine takes a transition on the first event of its queue. *)
Move(g) ==
  /\ Draining(g)
  /\ \E t \in Targets(g) :
       LET s == st[g]
           reg == RegistryAfterExit(g, s, t)
       IN  /\ st' = [st EXCEPT ![g] = t]
           /\ timers' = [timers EXCEPT ![g] = TimersAfter(g, s, t)]
           /\ lockedEn' = IF t \in EntryScan
                          THEN [lockedEn EXCEPT ![g] = entryBc[g]] ELSE lockedEn
           /\ lockedEx' = IF t \in ExitScan
                          THEN [lockedEx EXCEPT ![g] = exitBc[g]] ELSE lockedEx
           /\ registry' = IF IsScan(t) /\ ~Refused(reg, ScanKey(g, t))
                          THEN [reg EXCEPT ![ScanKey(g, t)] = g] ELSE reg
           /\ evq' = [evq EXCEPT ![g] = Tail(@) \o Submits(g, t, reg)]
           /\ dbReq' = [dbReq EXCEPT ![g] = @ \o Calls(g, t)]
           /\ certAsk' = IF AsksCert(g, t) THEN [certAsk EXCEPT ![g] = @ + 1] ELSE certAsk
           /\ CASE t = "onEntryPassed" -> Counted(In)
                [] t = "onExitPassed"  -> Counted(Out)
                [] OTHER               -> UNCHANGED <<current, total>>
  /\ DrainGoesOn(g)
  /\ UNCHANGED <<scanned, certCheck, links, dblSwitch, dbAns, tickets, left>>

(* An event no active state takes is dropped. *)
Discard(g) ==
  /\ Draining(g)
  /\ Targets(g) = {}
  /\ evq' = [evq EXCEPT ![g] = Tail(@)]
  /\ DrainGoesOn(g)
  /\ UNCHANGED <<chart, scanned, certCheck, certAsk, links, server, db, left>>

-----------------------------------------------------------------------------
(* wicketGate::entryCMD_Parse / exitCMD_Parse on command::onBarcode: the   *)
(* event carries no barcode that anything reads; the barcode is left in a  *)
(* variable of the model.                                                  *)
ScanEntry(g, b) ==
  /\ Room(g) /\ Spend("scan")
  /\ Submit(g, Ev("en.barcode"))
  /\ entryBc' = [entryBc EXCEPT ![g] = b]
  /\ UNCHANGED <<chart, exitBc, certCheck, certAsk, links, busy, server, db>>

ScanExit(g, b) ==
  /\ Room(g) /\ Spend("scan")
  /\ Submit(g, [name |-> "ex.barcode", bc |-> b])
  /\ exitBc' = [exitBc EXCEPT ![g] = b]
  /\ UNCHANGED <<chart, entryBc, certCheck, certAsk, links, busy, server, db>>

(* wicketGate::mainCMD_Parse: the crossboard reports its state, on its own *)
(* or in reply to getState.                                                *)
Report(g, e) ==
  /\ Room(g) /\ Spend("report")
  /\ links[g] > 0
  /\ Submit(g, Ev(e))
  /\ UNCHANGED <<chart, scanned, certCheck, certAsk, links, busy, server, db>>

(* resetCurrentW, the end of setReader, runs the entry script of the       *)
(* active leaf once more, without its sends.  Of the scripts it knows only *)
(* these two change state in a leaf a drain can end in.                    *)
Redoes(g) == st[g] \in {"onCheckTypeBarcode", "onCheckCert"}
RedoSubmits(g) == IF Redoes(g) THEN Submits(g, st[g], registry) ELSE <<>>
Redo(g) ==
  /\ dbReq' = IF Redoes(g) THEN [dbReq EXCEPT ![g] = @ \o Calls(g, st[g])] ELSE dbReq
  /\ certAsk' = IF Redoes(g) /\ AsksCert(g, st[g])
                THEN [certAsk EXCEPT ![g] = @ + 1] ELSE certAsk

(* wicketGate::setReader for the main reader. *)
ConnectMain(g) ==
  /\ Room(g) /\ Spend("link")
  /\ links' = [links EXCEPT ![g] = @ + 1]
  /\ evq' = [evq EXCEPT ![g] = Append(@, Ev("mainConnected")) \o RedoSubmits(g)]
  /\ Redo(g)
  /\ UNCHANGED <<chart, scanned, certCheck, busy, server, dbAns, tickets>>

(* wicketGate::setReader for the slave reader: no event of region Main. *)
ConnectSlave(g) ==
  /\ Room(g) /\ Spend("link")
  /\ evq' = [evq EXCEPT ![g] = @ \o RedoSubmits(g)]
  /\ Redo(g)
  /\ UNCHANGED <<chart, scanned, certCheck, links, busy, server, dbAns, tickets>>

(* wicketGate::readerMainDisconnected, run for whichever connection of the *)
(* main reader closes, the newest or an older one.                         *)
DisconnectMain(g) ==
  /\ Room(g) /\ Spend("link")
  /\ links[g] > 0
  /\ links' = [links EXCEPT ![g] = @ - 1]
  /\ Submit(g, Ev("mainDisconnected"))
  /\ UNCHANGED <<chart, scanned, certCheck, certAsk, busy, server, db>>

-----------------------------------------------------------------------------
(* A delayed send is due. *)
TimerFires(g, i) ==
  /\ Room(g)
  /\ timers[g][i] > 0
  /\ timers' = [timers EXCEPT ![g][i] = @ - 1]
  /\ Submit(g, Ev(TimeoutOf[i]))
  /\ UNCHANGED <<st, lockedEn, lockedEx, scanned, certCheck, certAsk, links,
                 busy, server, db, left>>

(* covidCertChecker::managerFinished: the reply is not matched with the    *)
(* barcode, nor with the visitor, it was asked for.                        *)
CertReply(g, e) ==
  /\ Room(g)
  /\ certAsk[g] > 0
  /\ certAsk' = [certAsk EXCEPT ![g] = @ - 1]
  /\ Submit(g, Ev(e))
  /\ UNCHANGED <<chart, scanned, certCheck, links, busy, server, db, left>>

(* The lambdas of wicketGate::dbWorker: a signal of the database thread    *)
(* reaches the main thread; dbFail is submitted as dbTimeout.              *)
DbAnswer(g) ==
  /\ Room(g)
  /\ dbAns[g] # <<>>
  /\ Submit(g, Head(dbAns[g]))
  /\ dbAns' = [dbAns EXCEPT ![g] = Tail(@)]
  /\ UNCHANGED <<chart, scanned, certCheck, certAsk, links, busy, server,
                 dbReq, tickets, left>>

-----------------------------------------------------------------------------
(* The database thread of a gate. *)
Answer(g, m) == dbAns' = [dbAns EXCEPT ![g] = Append(@, m)]

CheckAnswer(r) ==
  AnswerTo(CheckResult(r.dir, Kind[r.bc], tickets[r.bc], MaxPass[r.bc]))

(* db_worker::checkTicket, the query done. *)
DbCheck(g) ==
  /\ dbReq[g] # <<>> /\ Head(dbReq[g]).op = "check"
  /\ LET r == Head(dbReq[g])
         a == CheckAnswer(r)
     IN  Answer(g, [name |-> a, bc |-> IF a = "ticketFail" THEN NoBarcode ELSE r.bc])
  /\ dbReq' = [dbReq EXCEPT ![g] = Tail(@)]
  /\ UNCHANGED <<chart, evq, scanned, certCheck, certAsk, links, busy, server,
                 tickets, left>>

(* db_worker::confirmPass, the update done.  Its signal count is connected *)
(* to nothing.                                                             *)
DbConfirm(g) ==
  /\ dbReq[g] # <<>> /\ Head(dbReq[g]).op = "confirm"
  /\ LET r == Head(dbReq[g])
     IN  tickets' = IF Kind[r.bc] = "ticket"
                    THEN [tickets EXCEPT ![r.bc] = Confirmed(r.dir, @)] ELSE tickets
  /\ dbReq' = [dbReq EXCEPT ![g] = Tail(@)]
  /\ UNCHANGED <<chart, evq, scanned, certCheck, certAsk, links, busy, server,
                 dbAns, left>>

(* Either of them, failing: "closed", the base cannot be opened and        *)
(* nothing is answered; "error", the query fails and dbFail is signalled;  *)
(* "caught", the procedure catches an SQL error and its result is ignored. *)
DbFails(g, fault) ==
  /\ dbReq[g] # <<>>
  /\ dbReq' = [dbReq EXCEPT ![g] = Tail(@)]
  /\ IF fault = "error" THEN Answer(g, Ev("dbTimeout")) ELSE UNCHANGED dbAns
  /\ UNCHANGED <<chart, evq, scanned, certCheck, certAsk, links, busy, server,
                 tickets, left>>

-----------------------------------------------------------------------------
(* main_server::slot_widget_readyRead. *)
GateCommand(g, c) ==
  /\ Idle /\ Spend("cmd")
  /\ c \in WidgetCmds \cap {"armed", "unlock", "certOn", "certOff"}
  /\ \/ c = "armed" /\ Room(g) /\ Submit(g, Ev("cmd.arm")) /\ UNCHANGED certCheck
     \/ c = "unlock" /\ Room(g) /\ Submit(g, Ev("cmd.unlock")) /\ UNCHANGED certCheck
     \/ /\ c \in {"certOn", "certOff"}
        /\ certCheck' = [certCheck EXCEPT ![g] = c = "certOn"]
        /\ UNCHANGED evq
  /\ UNCHANGED <<chart, scanned, certAsk, links, busy, server, db>>

ServerCommand(c) ==
  /\ Idle /\ Spend("cmd")
  /\ c \in WidgetCmds \cap
          {"setIron", "setNormal", "dblScnOff", "dblScnOn", "dblScnClr", "rstCntrs"}
  /\ dblSwitch' = CASE c \in {"setIron", "setNormal", "dblScnOff"} -> FALSE
                    [] c = "dblScnOn" -> TRUE
                    [] OTHER          -> dblSwitch
  /\ registry' = IF c = "dblScnClr" THEN [b \in Keys |-> NoGate] ELSE registry
  /\ current' = IF c = "rstCntrs" THEN 0 ELSE current
  /\ total' = IF c = "rstCntrs" THEN 0 ELSE total
  /\ UNCHANGED <<chart, evq, scanned, certCheck, certAsk, links, busy, db>>

-----------------------------------------------------------------------------
Drain(g) == Move(g) \/ Discard(g)

Database(g) ==
  \/ DbCheck(g)
  \/ DbConfirm(g)
  \/ \E f \in DbFaults : DbFails(g, f)

Visitors(g) == \E b \in Barcode : ScanEntry(g, b) \/ ScanExit(g, b)

Links(g) == ConnectMain(g) \/ ConnectSlave(g) \/ DisconnectMain(g)

Next ==
  \/ \E g \in Gate :
       \/ Drain(g)
       \/ Visitors(g)
       \/ \E e \in CrossboardEvent : Report(g, e)
       \/ Links(g)
       \/ \E i \in Timer : TimerFires(g, i)
       \/ \E e \in {"certOK", "certFail"} : CertReply(g, e)
       \/ DbAnswer(g)
       \/ Database(g)
       \/ \E c \in WidgetCmds : GateCommand(g, c)
  \/ \E c \in WidgetCmds : ServerCommand(c)

Spec == Init /\ [][Next]_vars

(* The event loop runs what is due: a queue that holds events is drained,  *)
(* some timer that is armed fires.  Nothing is assumed of visitors, readers,  *)
(* the crossboard, the database or the certificate service.                *)
Fairness ==
  \A g \in Gate : /\ WF_vars(Drain(g))
                  /\ WF_vars(\E i \in Timer : TimerFires(g, i))

FairSpec == Spec /\ Fairness

(***************************************************************************)
(* Properties.                                                             *)
(***************************************************************************)

(* Every variable keeps the type its declaration gives it. *)
TypeOK ==
  /\ st \in [Gate -> Leaf]
  /\ evq \in [Gate -> Seq(Msg)]
  /\ timers \in [Gate -> [Timer -> Nat]]
  /\ lockedEn \in [Gate -> Keys] /\ lockedEx \in [Gate -> Keys]
  /\ entryBc \in [Gate -> Keys] /\ exitBc \in [Gate -> Keys]
  /\ certCheck \in [Gate -> BOOLEAN]
  /\ certAsk \in [Gate -> Nat]
  /\ links \in [Gate -> Nat]
  /\ busy \in Gate \cup {NoGate}
  /\ registry \in [Keys -> Gate \cup {NoGate}]
  /\ dblSwitch \in BOOLEAN
  /\ current \in Nat /\ total \in Nat
  /\ dbReq \in [Gate -> Seq(Request)]
  /\ dbAns \in [Gate -> Seq(Msg)]
  /\ tickets \in [Keys -> Rows]
  /\ left \in [{"scan", "report", "link", "cmd"} -> Nat]

Queued(g, E) == \E k \in DOMAIN evq[g] : evq[g][k].name \in E

(* The event a leaf that arms no timer submits to itself when it is        *)
(* entered, and waits for.                                                 *)
OwnEvents(s) ==
  CASE IsScan(s)                             -> DoubleScanEvent
    [] s \in {"onEntryPassed", "onExitPassed"} -> {"passed"}
    [] s \in {"onEntryDrop", "onExitDrop"}     -> {"ready"}
    [] OTHER                                   -> {}

(* A turnstile that serves a visitor, or pauses after one, is never left   *)
(* waiting for the outside world alone: the delayed send that ends the     *)
(* state is armed or its event is already queued, whatever stale timers,   *)
(* cancels of foreign sendids and repeated entry scripts did before.       *)
NeverStuck ==
  \A g \in Gate :
    /\ \A i \in Arms(st[g]) : timers[g][i] > 0 \/ Queued(g, {TimeoutOf[i]})
    /\ OwnEvents(st[g]) # {} => Queued(g, OwnEvents(st[g]))

(* When a slot of the main thread runs, no machine is in a leaf it was to  *)
(* leave within the drain that entered it: resetCurrentW can therefore     *)
(* never confirm a pass twice nor repeat a double scan check.              *)
SettledBetweenDrains ==
  busy = NoGate => \A g \in Gate : OwnEvents(st[g]) = {}

(* A turnstile whose main reader has gone, every connection of it closed,  *)
(* stops serving once its queue is drained: readerMainDisconnected is the  *)
(* last word, in whatever order old and new connections come and go.       *)
OfflineSeen ==
  \A g \in Gate : links[g] = 0 /\ evq[g] = <<>> => st[g] = "onMainDisconnected"

(* The visitors of ticket b inside the hall, by the ticket base once the   *)
(* calls queued to the database threads are done.                          *)
Pass(r, b) == IF r.op = "confirm" /\ r.bc = b THEN r.dir ELSE 0
Passes(q, b) == SumFunction([k \in DOMAIN q |-> Pass(q[k], b)])
Inside(b) == tickets[b].pass + SumFunction([g \in Gate |-> Passes(dbReq[g], b)])

(* The counters of the server and the ticket base, which count the same    *)
(* passes in different threads, agree when no query fails: the hall count  *)
(* covers everyone the base has inside (it may exceed it, because it never *)
(* goes below zero), and the total covers the hall count.                  *)
HallCountCovers ==
  /\ current >= SumFunction([b \in Barcode |-> Inside(b)])
  /\ total >= current

(* Gate g serves the visitor with barcode b: the double scan check has let *)
(* him in and has not been told that he is gone.                           *)
Serves(g, b) ==
  \/ st[g] \in EntryLocked /\ lockedEn[g] = b
  \/ st[g] \in ExitLocked /\ lockedEx[g] = b

(* How far a machine is with the double scan check, for which barcode, and *)
(* the verdicts of the check that are in its queue.                        *)
Visit(s, en, ex) ==
  CASE s \in EntryScan              -> [phase |-> "asking", key |-> en]
    [] s \in ExitScan               -> [phase |-> "asking", key |-> ex]
    [] s \in EntryLocked            -> [phase |-> "serving", key |-> en]
    [] s \in ExitLocked             -> [phase |-> "serving", key |-> ex]
    [] s = "onShowEnCertCtrlFail"   -> [phase |-> "paused", key |-> en]
    [] OTHER                        -> [phase |-> "away", key |-> NoBarcode]

Verdicts(q) == {v \in DoubleScanEvent : \E k \in DOMAIN q : q[k].name = v}

visits == [g \in Gate |-> Visit(st[g], lockedEn[g], lockedEx[g])]
verdictsQueued == [g \in Gate |-> Verdicts(evq[g])]

(* The double scan check implements the abstract lock: whatever waits in   *)
(* the queues, and whoever comes, a barcode enters the container only for  *)
(* the turnstile that asked, leaves it only when the turnstile that serves *)
(* it leaves the locked composite (or the widget clears it), and nobody    *)
(* starts to be served but by a verdict of the check.                      *)
Loan == INSTANCE ScanLock WITH
          NoKey <- NoBarcode,
          holder <- registry,
          checked <- dblSwitch,
          visit <- visits,
          verdicts <- verdictsQueued
ImplementsScanLock == Loan!LockSpec

(* The barcode of a visitor who is served is freed again, whatever the     *)
(* queues hold and whatever the crossboard, the readers and the database   *)
(* do or fail to do.  One that was only asked for need not be: a turnstile *)
(* that leaves onCheck*DblScn before its verdict (an event queued ahead of *)
(* it: crsbrd.armed, mainDisconnected) runs no onexit that frees it.       *)
BarcodeFreed ==
  \A g \in Gate : \A b \in Barcode : Serves(g, b) ~> registry[b] = NoGate

(* A turnstile that starts on a visitor finishes with it. *)
ServiceEnds ==
  \A g \in Gate : st[g] \in Serving ~> st[g] \notin Serving

-----------------------------------------------------------------------------
(* What the sources say of the program and the program does not do; each   *)
(* is refuted by a run of its own.                                         *)

(* "Для контроля кол-ва проходов": no ticket passes more often than its    *)
(* MaxPass allows.                                                         *)
PassLimit ==
  \A b \in Barcode : Kind[b] = "ticket" => tickets[b].pass <= MaxPass[b]

(* "При значении false выключает проверку двойного прохода": while the     *)
(* switch is on, no two turnstiles serve one barcode at the same time.     *)
NoDoubleService ==
  \A g, h \in Gate : \A b \in Keys : Serves(g, b) /\ Serves(h, b) => g = h

(* "Билет не зарегистрирован на мероприятии!" is a refusal: the turnstile  *)
(* does not open for a barcode that is neither a ticket nor a controller.  *)
OnlyRegisteredAdmitted ==
  \A g \in Gate : /\ st[g] = "onPassEntry" => Kind[lockedEn[g]] # "unknown"
                  /\ st[g] = "onPassExit" => Kind[lockedEx[g]] # "unknown"

=============================================================================
