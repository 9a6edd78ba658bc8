----------------------------- MODULE StandAlone -----------------------------
(***************************************************************************)
(* A turnstile and its readers when it is switched between the turnstile   *)
(* chart and the stand-alone checker (checker.scxml), which only looks at  *)
(* covid certificates: the connections of its two readers, each with a     *)
(* thread of its own that posts signals to the main thread, the switch,    *)
(* which builds a new machine and registers the readers once more, and the *)
(* checker with its requests to the certificate service.  What the         *)
(* turnstile chart does is in Wicket; here it only sees the main reader    *)
(* come and go.                                                            *)
(***************************************************************************)
EXTENDS Integers, SequencesExt

CONSTANTS
  Conn,        \* the connections that readers may open
  NoConn,      \* nullptr
  Side,        \* [Mac -> Sides]: where the main and the slave reader stand
  Barcode,
  NoBarcode,   \* the empty string
  CovidQR,     \* the barcodes checkType takes for a link to a certificate
  BadQR,       \* those whose link has no path that getCertCheck knows
  Valid,       \* those with a certificate that is in force
  MaxBacklog,  \* events the queue may hold when another one is submitted
  Workload     \* bounds on what the readers and the widget do

Mac == {"main", "slave"}
Sides == {"entry", "exit"}
Keys == Barcode \cup {NoBarcode}

ASSUME StandAloneAssumption ==
  /\ NoConn \notin Conn /\ NoBarcode \notin Barcode
  /\ Side \in [Mac -> Sides] /\ Side["main"] # Side["slave"]
  /\ CovidQR \subseteq Barcode /\ BadQR \subseteq CovidQR
  /\ Valid \subseteq CovidQR \ BadQR
  /\ MaxBacklog \in Nat \ {0}
  /\ Workload \subseteq [register : Nat, scan : Nat, switch : Nat, seen : SUBSET Barcode]

VARIABLES
  (* the machine and its model, new ones after each switch *)
  kind,      \* "checker" or "wicket"
  st,        \* the active leaf of the region _checker
  online,    \* whether region Main is in onMainConnected
  evq,       \* the external event queue
  busy,      \* whether it is being drained
  timers,    \* the delayed sends that are armed
  scanned,   \* entryBarcode and exitBarcode
  locked,    \* lockedEntryBarcode
  certInfo,  \* the barcode whose certificate is in certInfo
  asked,     \* requests to the certificate service that have no answer
  told,      \* connections that the model's commands are connected to
  (* the gate *)
  reader,    \* mainReader, slaveReader, entryReader and exitReader
  (* the connections *)
  conn,      \* which reader has opened it, and whether it is open
  slots,     \* how often setReader has connected its signals to the gate
  posted,    \* slots of the main thread that its thread has posted
  (* for the properties, and bounds *)
  crashed,   \* a pointer to a deleted connector was used, and the process ended
  left

modelVars == <<scanned, locked, certInfo, asked>>
machineVars == <<kind, st, online, evq, busy, timers, modelVars, told>>
connVars == <<conn, slots, posted>>
vars == <<kind, st, online, evq, busy, timers, scanned, locked, certInfo, asked, told,
          reader, conn, slots, posted, crashed, left>>

Leaf == {"onReady", "onCheckType", "onCheckCovid", "onWaitCovidContoller",
         "onShowNoTicket", "onShowCovidFail", "onShowCovidCheckCommunicationTimeout"}

Event == {"isCovidQR", "noCert", "certOK", "certFail", "en.barcode", "ex.barcode",
          "mainConnected", "mainDisconnected", "CommunicationTimeout",
          "CovidContollerCheckWaitTimeout", "showTimeout"}

NoRequest == [b \in Barcode |-> 0]

(* A machine that has been started: the first state of region Main of the  *)
(* checker is onMainConnected, that of the turnstile chart the other one.  *)
Started(k) ==
  /\ kind' = k /\ st' = "onReady" /\ online' = (k = "checker")
  /\ busy' = FALSE /\ timers' = {}
  /\ scanned' = [s \in Sides |-> NoBarcode]
  /\ locked' = NoBarcode /\ certInfo' = NoBarcode
  /\ asked' = NoRequest

Init ==
  /\ kind \in {"checker", "wicket"} /\ st = "onReady" /\ online = (kind = "checker")
  /\ evq = <<>> /\ busy = FALSE /\ timers = {}
  /\ scanned = [s \in Sides |-> NoBarcode]
  /\ locked = NoBarcode /\ certInfo = NoBarcode
  /\ asked = NoRequest /\ told = {}
  /\ reader = [r \in Mac \cup Sides |-> NoConn]
  /\ conn = [c \in Conn |-> [mac |-> "main", state |-> "new"]]
  /\ slots = [c \in Conn |-> 0]
  /\ posted = [c \in Conn |-> <<>>]
  /\ crashed = FALSE
  /\ left \in Workload

Spend(what) == left[what] > 0 /\ left' = [left EXCEPT ![what] = @ - 1]

-----------------------------------------------------------------------------
(* The chart. *)

Arcs ==
  {<<"onReady", "noCert", "onShowNoTicket">>,
   <<"onCheckType", "isCovidQR", "onCheckCovid">>,
   <<"onCheckType", "noCert", "onShowNoTicket">>,
   <<"onCheckCovid", "CommunicationTimeout", "onShowCovidCheckCommunicationTimeout">>,
   <<"onCheckCovid", "certOK", "onWaitCovidContoller">>,
   <<"onCheckCovid", "certFail", "onShowCovidFail">>,
   <<"onWaitCovidContoller", "CovidContollerCheckWaitTimeout", "onReady">>,
   <<"onShowNoTicket", "showTimeout", "onReady">>,
   <<"onShowCovidFail", "showTimeout", "onReady">>,
   <<"onShowCovidCheckCommunicationTimeout", "showTimeout", "onReady">>}
  \cup {<<s, e, "onCheckType">> : s \in {"onReady", "onCheckCovid", "onWaitCovidContoller"},
                                  e \in {"en.barcode", "ex.barcode"}}

(* Mutant of Arms: the check of a certificate has no time limit.           *)
ArmsNoTimeout(s) ==
  CASE s = "onWaitCovidContoller" -> {"WaitCovidContoller"}
    [] s \in {"onReady", "onCheckType", "onCheckCovid"} -> {}
    [] OTHER                      -> {"showTimer"}

(* The delayed send of a leaf, which its onexit cancels. *)
Arms(s) ==
  CASE s = "onCheckCovid"         -> {"certAPItimeout"}
    [] s = "onWaitCovidContoller" -> {"WaitCovidContoller"}
    [] s \in {"onReady", "onCheckType"} -> {}
    [] OTHER                      -> {"showTimer"}

TimeoutOf ==
  [certAPItimeout |-> "CommunicationTimeout",
   WaitCovidContoller |-> "CovidContollerCheckWaitTimeout",
   showTimer |-> "showTimeout"]

(* onLocEnBc and onLocExBc, which the arcs to onCheckType pass through.    *)
Latched(e) ==
  CASE e = "en.barcode" -> scanned["entry"]
    [] e = "ex.barcode" -> scanned["exit"]
    [] OTHER            -> locked

(* getCertCheck: a path that is not known fails at once.                   *)
Unknown(b) == b \notin CovidQR \ BadQR

(* What the script of t submits, with b latched: checkType, onCheckCovid.  *)
Submits(t, b) ==
  CASE t = "onCheckType" -> IF b \in CovidQR THEN <<"isCovidQR">> ELSE <<"noCert">>
    [] t = "onCheckCovid" /\ Unknown(b) -> <<"certFail">>
    [] OTHER -> <<>>

Asks(t, b) ==
  asked' = IF t = "onCheckCovid" /\ ~Unknown(b)
           THEN [asked EXCEPT ![b] = @ + 1] ELSE asked

Targets == {t \in Leaf : kind = "checker" /\ <<st, Head(evq), t>> \in Arcs}

(* The regions Main and _checker share no event, so an event is a step of  *)
(* one of them, or is dropped.                                             *)
Drain ==
  /\ evq # <<>>
  /\ \/ \E t \in Targets :
          LET b == Latched(Head(evq)) IN
          /\ st' = t /\ locked' = b
          /\ evq' = Tail(evq) \o Submits(t, b)
          /\ timers' = (timers \ Arms(st)) \cup Arms(t)
          /\ Asks(t, b)
          /\ UNCHANGED online
     \/ /\ Targets = {}
        /\ online' = CASE Head(evq) = "mainConnected"    -> TRUE
                       [] Head(evq) = "mainDisconnected" -> FALSE
                       [] OTHER                          -> online
        /\ evq' = Tail(evq)
        /\ UNCHANGED <<st, locked, timers, asked>>
  /\ busy' = (evq' # <<>>)
  /\ UNCHANGED <<kind, scanned, certInfo, told, reader, connVars, crashed, left>>

(* A slot of the main thread may submit. *)
Room == ~busy /\ Len(evq) < MaxBacklog

TimerFires ==
  /\ Room
  /\ \E i \in timers :
       /\ timers' = timers \ {i}
       /\ evq' = Append(evq, TimeoutOf[i])
  /\ UNCHANGED <<kind, st, online, busy, modelVars, told, reader, connVars, crashed, left>>

(* managerFinished: the answer may be an error for any certificate.        *)
CertReply ==
  /\ Room
  /\ \E b \in Barcode :
       /\ asked[b] > 0
       /\ asked' = [asked EXCEPT ![b] = @ - 1]
       /\ \/ /\ b \in Valid
             /\ certInfo' = b /\ evq' = Append(evq, "certOK")
          \/ UNCHANGED certInfo /\ evq' = Append(evq, "certFail")
  /\ UNCHANGED <<kind, st, online, busy, timers, scanned, locked, told, reader,
                 connVars, crashed, left>>

-----------------------------------------------------------------------------
(* readerConnector: the thread of a connection.  A signal is posted once   *)
(* for every connect that setReader has made so far.                       *)

Times(n, calls) ==
  [k \in 1..(n * Len(calls)) |-> calls[((k - 1) % Len(calls)) + 1]]

Post(c, calls) == posted' = [posted EXCEPT ![c] = @ \o calls]

CallType == [slot : {"register", "parse", "sideGone", "macGone"}, bc : Keys]

Call(slot) == [slot |-> slot, bc |-> NoBarcode]

(* newReaderConnection, and the reader's answer to getMAC, with which it   *)
(* may also register again.                                                *)
Register(c, mac) ==
  /\ conn[c].state = "new" \/ conn[c] = [mac |-> mac, state |-> "open"]
  /\ Spend("register")
  /\ conn' = [conn EXCEPT ![c] = [mac |-> mac, state |-> "open"]]
  /\ Post(c, <<Call("register")>>)
  /\ UNCHANGED <<machineVars, reader, slots, crashed>>

Scan(c, b) ==
  /\ conn[c].state = "open" /\ slots[c] > 0
  /\ b \in left.seen /\ Spend("scan")
  /\ Post(c, Times(slots[c], <<[slot |-> "parse", bc |-> b]>>))
  /\ UNCHANGED <<machineVars, reader, conn, slots, crashed>>

(* disconnected, by the reader or by the timer of ten seconds; the         *)
(* connector is deleted in its own thread.                                 *)
Disconnect(c) ==
  /\ conn[c].state = "open"
  /\ conn' = [conn EXCEPT ![c].state = "gone"]
  /\ Post(c, Times(slots[c], <<Call("sideGone"), Call("macGone")>>))
  /\ UNCHANGED <<machineVars, reader, slots, crashed, left>>

-----------------------------------------------------------------------------
(* The gate: slots of the main thread.                                     *)

(* A pointer to a connector that its thread has deleted is used: the       *)
(* process ends, or goes on as if the connector were there.                *)
MayCrash(used) ==
  crashed' \in IF \E c \in used : conn[c].state = "gone" THEN BOOLEAN ELSE {FALSE}

(* resetCurrentC: of the scripts that it runs again one changes state.     *)
RedoSubmits == IF kind = "checker" THEN Submits(st, locked) ELSE <<>>
Redoes == kind = "checker" /\ st = "onCheckCovid"

(* setReader. *)
SetReader(c) ==
  LET mac == conn[c].mac IN
  /\ reader' = [reader EXCEPT ![mac] = c, ![Side[mac]] = c]
  /\ slots' = [slots EXCEPT ![c] = @ + 1]
  /\ told' = told \cup {c}
  /\ evq' = evq \o (IF mac = "main" THEN <<"mainConnected">> ELSE <<>>)
                \o (IF Redoes THEN RedoSubmits ELSE <<>>)
  /\ IF Redoes THEN Asks(st, locked) ELSE UNCHANGED <<asked>>
  /\ MayCrash({c})
  /\ UNCHANGED <<scanned, locked, certInfo>>

(* entryCMD_Parse or exitCMD_Parse.  In the turnstile chart a barcode is   *)
(* a step of Wicket.                                                       *)
Parse(c, b) ==
  LET side == Side[conn[c].mac] IN
  /\ IF kind = "checker"
     THEN /\ evq' = Append(evq, IF side = "entry" THEN "en.barcode" ELSE "ex.barcode")
          /\ scanned' = [scanned EXCEPT ![side] = b]
     ELSE UNCHANGED <<evq, scanned>>
  /\ UNCHANGED <<reader, slots, told, locked, certInfo, asked, crashed>>

(* The lambda of setReader for the entry or the exit reader.               *)
SideGone(c) ==
  /\ reader' = [reader EXCEPT ![Side[conn[c].mac]] = NoConn]
  /\ UNCHANGED <<evq, slots, told, modelVars, crashed>>

(* readerMainDisconnected and readerSlaveDisconnected.                     *)
MacGone(c) ==
  /\ reader' = [reader EXCEPT ![conn[c].mac] = NoConn]
  /\ evq' = IF conn[c].mac = "main" THEN Append(evq, "mainDisconnected") ELSE evq
  /\ UNCHANGED <<slots, told, modelVars, crashed>>

Deliver(c) ==
  /\ Room /\ posted[c] # <<>>
  /\ LET call == Head(posted[c]) IN
     CASE call.slot = "register" -> SetReader(c)
       [] call.slot = "parse"    -> Parse(c, call.bc)
       [] call.slot = "sideGone" -> SideGone(c)
       [] call.slot = "macGone"  -> MacGone(c)
  /\ posted' = [posted EXCEPT ![c] = Tail(@)]
  /\ UNCHANGED <<kind, st, online, busy, timers, conn, left>>

(* stndAlnOn and stndAlnOff register what the four pointers point to, the  *)
(* main and the slave reader first: with each of these goes its side.      *)
Pointed(mac) == IF reader[mac] # NoConn THEN reader[mac] ELSE reader[Side[mac]]
Registered(mac) ==
  IF reader[mac] # NoConn THEN 2 ELSE IF reader[Side[mac]] # NoConn THEN 1 ELSE 0

(* Mutant of Switch: only the main and the slave reader are registered, as *)
(* if each had its side with it.                                           *)
SwitchMacsOnly(k) ==
  /\ ~busy /\ Spend("switch")
  /\ Started(k)
  /\ LET again == {mac \in Mac : reader[mac] # NoConn}
         known == {reader[mac] : mac \in again}
     IN /\ reader' = [r \in Mac \cup Sides |->
                        IF \E mac \in again : r \in {mac, Side[mac]}
                        THEN reader[CHOOSE mac \in again : r \in {mac, Side[mac]}]
                        ELSE reader[r]]
        /\ slots' = [c \in Conn |-> slots[c] + (IF c \in known THEN 1 ELSE 0)]
        /\ told' = known
        /\ evq' = IF "main" \in again THEN <<"mainConnected">> ELSE <<>>
        /\ MayCrash(known)
  /\ UNCHANGED <<conn, posted>>

Switch(k) ==
  /\ ~busy /\ Spend("switch")
  /\ Started(k)
  /\ LET known == {Pointed(mac) : mac \in Mac} \ {NoConn} IN
     /\ reader' = [r \in Mac \cup Sides |->
                     Pointed(CHOOSE mac \in Mac : r \in {mac, Side[mac]})]
     /\ slots' = [c \in Conn |->
                    IF c \in known
                    THEN slots[c] + Registered(CHOOSE mac \in Mac : Pointed(mac) = c)
                    ELSE slots[c]]
     /\ told' = known
     /\ evq' = Times(Registered("main"), <<"mainConnected">>)
     /\ MayCrash(known)
  /\ UNCHANGED <<conn, posted>>

-----------------------------------------------------------------------------

Readers(c) ==
  (\E mac \in Mac : Register(c, mac)) \/ (\E b \in Barcode : Scan(c, b)) \/ Disconnect(c)

Next ==
  /\ ~crashed
  /\ \/ Drain \/ TimerFires \/ CertReply
     \/ \E c \in Conn : Readers(c) \/ Deliver(c)
     \/ \E k \in {"checker", "wicket"} : Switch(k)

Spec == Init /\ [][Next]_vars

(* The event loop runs what is due.  Nothing is assumed of the readers and *)
(* the certificate service.                                                *)
Fairness == WF_vars(~crashed /\ Drain) /\ WF_vars(~crashed /\ TimerFires)

FairSpec == Spec /\ Fairness

-----------------------------------------------------------------------------

(* The machine and its model are well typed, and so are the gate and the   *)
(* connections of its readers.                                             *)
MachineOK ==
  /\ kind \in {"checker", "wicket"} /\ st \in Leaf /\ online \in BOOLEAN
  /\ evq \in Seq(Event) /\ busy \in BOOLEAN
  /\ timers \subseteq DOMAIN TimeoutOf
  /\ scanned \in [Sides -> Keys] /\ locked \in Keys /\ certInfo \in Keys
  /\ asked \in [Barcode -> Nat]
GateOK ==
  /\ told \subseteq Conn
  /\ reader \in [Mac \cup Sides -> Conn \cup {NoConn}]
  /\ conn \in [Conn -> [mac : Mac, state : {"new", "open", "gone"}]]
  /\ slots \in [Conn -> Nat]
  /\ posted \in [Conn -> Seq(CallType)]
  /\ crashed \in BOOLEAN
  /\ left \in [register : Nat, scan : Nat, switch : Nat, seen : SUBSET Barcode]
TypeOK == MachineOK /\ GateOK

(* A switch, at any point of a reconnection, leaves a gate whose machine    *)
(* talks to every reader it points to and, once its events are handled,     *)
(* knows of the main one; and the turnstile chart knows of no other.        *)
SwitchKeepsReaders ==
  /\ \A r \in Mac \cup Sides : reader[r] # NoConn => reader[r] \in told
  /\ evq = <<>> =>
       /\ reader["main"] # NoConn => online
       /\ kind = "wicket" /\ online => reader["main"] # NoConn

(* A check ends: whatever the certificate service and the readers do or     *)
(* fail to do, and however often a scan arrives, the checker is ready       *)
(* again.                                                                  *)
CheckEnds == st # "onReady" ~> st = "onReady" \/ crashed

-----------------------------------------------------------------------------
(* What the sources say and the program does not do; a run refutes it.     *)

(* checker.scxml: "Защелкиваем баркод что бы он не менялся до завершения   *)
(* обработки".  The green light and the certificate shown are those of the *)
(* visitor whose barcode is latched.                                       *)
VerdictIsMine ==
  st = "onWaitCovidContoller" => locked \in Valid /\ certInfo = locked

=============================================================================
