----------------------------- MODULE WicketChart -----------------------------
(***************************************************************************)
(* The state chart of a turnstile, fsm/locker.scxml, region "Main",        *)
(* flattened to its leaf states.  Composite states are sets of leaves; a   *)
(* transition of the chart is a triple <<from, event, to>> whose target is *)
(* the leaf that the default-initial chain of the real target ends in.     *)
(* The regions "Entry" and "Exit" only report whether a reader is on line  *)
(* and share no event with "Main"; they are left out.                      *)
(***************************************************************************)
EXTENDS Naturals

(* Children of onEnRstDblScn: the entry lane holds the double scan lock of *)
(* lockedEntryBarcode, and gives it back in the onexit of the composite.   *)
EntryLocked ==
  {"onCheckTypeBarcode", "onCheckCert", "onCheckTicket", "onCheckCertCtrl",
   "onWaitCovidContoller", "onWaitEntryTicket", "onPassEntry",
   "onEntryPassed", "onEntryDrop", "onShowEntryTicketFail",
   "onShowCertCtrlFirst", "onShowEnDbTimeout", "onShowCovidContollerFail",
   "onShowCertFirst", "onShowCovidCheckCommunicationTimeout",
   "onShowCovidFail"}

EntryScan == {"onCheckCertDblScn", "onCheckCertCtrlDblScn", "onCheckTicketDblScn"}

OnEntry == EntryLocked \cup EntryScan
             \cup {"onShowEntryDoubleScanFail", "onShowEnCertCtrlFail"}

(* Children of onExRstDblScn. *)
ExitLocked ==
  {"onCheckExitTicket", "onPassExit", "onExitPassed", "onExitDrop",
   "onShowExCertCtrlFail", "onShowExitTicketFail", "onShowExitDbFail"}

ExitScan == {"onCheckExitDoubleScan"}

OnExit == ExitLocked \cup ExitScan \cup {"onShowExitDoubleScanFail"}

Serving == OnEntry \cup OnExit

OnArmed == Serving \cup {"onReady", "onSecurityTimeout"}

OnMainConnected == OnArmed \cup {"setUnlocked", "setArmed", "onUnlocked"}

Leaf == OnMainConnected \cup {"onMainDisconnected"}

-----------------------------------------------------------------------------
(* Events, by who submits them. *)
ReaderEvent == {"en.barcode", "ex.barcode"}
CrossboardEvent == {"crsbrd.armed", "crsbrd.unlocked", "crsbrd.passed"}
LinkEvent == {"mainConnected", "mainDisconnected"}
CommandEvent == {"cmd.arm", "cmd.unlock"}
DoubleScanEvent == {"ok.dblscn", "fail.dblscn"}
DbEvent == {"ticketOK", "ticketFail", "ticketControllerOK",
            "covidControllerOK", "dbTimeout"}
CertEvent == {"isCovidQR", "certOK", "certFail"}
InternalEvent == {"ready", "passed"}
TimeoutEvent == {"showTimeout", "Drop", "CommunicationTimeout",
                 "SecurityCheckTimeout"}

Event == ReaderEvent \cup CrossboardEvent \cup LinkEvent \cup CommandEvent
           \cup DoubleScanEvent \cup DbEvent \cup CertEvent
           \cup InternalEvent \cup TimeoutEvent

-----------------------------------------------------------------------------
(* Transitions whose source is a leaf. *)
LeafArc ==
  { <<"onMainDisconnected", "mainConnected", "onReady">>,
    <<"setUnlocked", "crsbrd.unlocked", "onUnlocked">>,
    <<"setArmed", "crsbrd.armed", "onReady">>,
    <<"onUnlocked", "cmd.arm", "setArmed">>,
    <<"onUnlocked", "crsbrd.armed", "onReady">>,
    <<"onUnlocked", "crsbrd.unlocked", "onUnlocked">>,
    <<"onReady", "ex.barcode", "onCheckExitDoubleScan">>,
    <<"onReady", "en.barcode", "onCheckCertDblScn">>,
    <<"onReady", "en.barcode", "onCheckTicketDblScn">>,
    <<"onSecurityTimeout", "SecurityCheckTimeout", "onReady">>,
    <<"onSecurityTimeout", "ex.barcode", "onCheckExitDoubleScan">>,
    <<"onPassEntry", "Drop", "onEntryDrop">>,
    <<"onPassEntry", "crsbrd.passed", "onEntryPassed">>,
    <<"onCheckCert", "certFail", "onShowCovidFail">>,
    <<"onCheckCert", "certOK", "onWaitCovidContoller">>,
    <<"onCheckCert", "CommunicationTimeout", "onShowCovidCheckCommunicationTimeout">>,
    <<"onWaitCovidContoller", "en.barcode", "onCheckCertCtrlDblScn">>,
    <<"onCheckTicket", "ticketControllerOK", "onPassEntry">>,
    <<"onCheckTicket", "covidControllerOK", "onShowEnCertCtrlFail">>,
    <<"onCheckTicket", "dbTimeout", "onShowEnDbTimeout">>,
    <<"onCheckTicket", "ticketFail", "onShowEntryTicketFail">>,
    <<"onCheckTicket", "ticketOK", "onPassEntry">>,
    <<"onCheckCertCtrl", "ticketOK", "onShowCertCtrlFirst">>,
    <<"onCheckCertCtrl", "dbTimeout", "onShowEnDbTimeout">>,
    <<"onCheckCertCtrl", "ticketControllerOK", "onPassEntry">>,
    <<"onCheckCertCtrl", "ticketFail", "onShowCovidContollerFail">>,
    <<"onCheckCertCtrl", "covidControllerOK", "onWaitEntryTicket">>,
    <<"onCheckTypeBarcode", "ticketOK", "onShowCertFirst">>,
    <<"onCheckTypeBarcode", "ticketControllerOK", "onPassEntry">>,
    <<"onCheckTypeBarcode", "isCovidQR", "onCheckCert">>,
    <<"onCheckTypeBarcode", "covidControllerOK", "onWaitEntryTicket">>,
    <<"onCheckTypeBarcode", "dbTimeout", "onShowEnDbTimeout">>,
    <<"onCheckTypeBarcode", "ticketFail", "onShowEntryTicketFail">>,
    <<"onWaitEntryTicket", "en.barcode", "onCheckTicketDblScn">>,
    <<"onCheckCertDblScn", "fail.dblscn", "onShowEntryDoubleScanFail">>,
    <<"onCheckCertDblScn", "ok.dblscn", "onCheckTypeBarcode">>,
    <<"onCheckCertCtrlDblScn", "fail.dblscn", "onShowEntryDoubleScanFail">>,
    <<"onCheckCertCtrlDblScn", "ok.dblscn", "onCheckCertCtrl">>,
    <<"onCheckTicketDblScn", "fail.dblscn", "onShowEntryDoubleScanFail">>,
    <<"onCheckTicketDblScn", "ok.dblscn", "onCheckTicket">>,
    <<"onShowEnCertCtrlFail", "showTimeout", "onWaitEntryTicket">>,
    <<"onCheckExitDoubleScan", "fail.dblscn", "onShowExitDoubleScanFail">>,
    <<"onCheckExitDoubleScan", "ok.dblscn", "onCheckExitTicket">>,
    <<"onPassExit", "crsbrd.passed", "onExitPassed">>,
    <<"onPassExit", "Drop", "onExitDrop">>,
    <<"onCheckExitTicket", "ticketControllerOK", "onPassExit">>,
    <<"onCheckExitTicket", "covidControllerOK", "onShowExCertCtrlFail">>,
    <<"onCheckExitTicket", "ticketOK", "onPassExit">>,
    <<"onCheckExitTicket", "ticketFail", "onShowExitTicketFail">>,
    <<"onCheckExitTicket", "dbTimeout", "onShowExitDbFail">> }

(* Transitions whose source is a composite state, innermost first; one is  *)
(* taken when no state inside takes the event.                             *)
EntryArc == { <<"ready", "onReady">>, <<"passed", "onSecurityTimeout">>,
              <<"showTimeout", "onReady">> }
ExitArc == { <<"showTimeout", "onReady">> }
ArmedArc == { <<"cmd.unlock", "setUnlocked">>, <<"crsbrd.unlocked", "onUnlocked">>,
              <<"crsbrd.armed", "onReady">>, <<"ready", "onReady">>,
              <<"passed", "onReady">> }
ConnectedArc == { <<"mainDisconnected", "onMainDisconnected">> }

(* An arc of onMainConnected.  Its mutant draws it from onArmed, which      *)
(* leaves out the unlocked states.                                         *)
ConnectedFromArmed(s, e, t) == s \in OnArmed /\ <<e, t>> \in ConnectedArc
FromConnected(s, e, t) == s \in OnMainConnected /\ <<e, t>> \in ConnectedArc

(* The arc from leaf s on event e to leaf t, the guards (cond) aside. *)
Arc(s, e, t) ==
  \/ <<s, e, t>> \in LeafArc
  \/ /\ s \in OnEntry
     /\ <<e, t>> \in EntryArc
     /\ ~(s = "onShowEnCertCtrlFail" /\ e = "showTimeout")
  \/ s \in OnExit /\ <<e, t>> \in ExitArc
  \/ /\ s \in OnArmed
     /\ <<e, t>> \in ArmedArc
     /\ ~(s \in OnEntry /\ e \in {"ready", "passed"})
  \/ FromConnected(s, e, t)

-----------------------------------------------------------------------------
(* Delayed sends: the sendid each leaf arms in its onentry, the event it   *)
(* sends, and the sendid the onexit of the leaf cancels.                   *)
Timer == {"showTimer", "passTimer", "dbTimeoutTimer", "certAPItimeout",
          "WaitCovidContoller", "CheckTicketTimer", "SecurityCheckTimer"}

ShowTimed == {"onShowEntryTicketFail", "onShowCertCtrlFirst",
  "onShowEnDbTimeout", "onShowCovidContollerFail", "onShowCertFirst",
  "onShowCovidCheckCommunicationTimeout", "onShowCovidFail",
  "onShowEntryDoubleScanFail", "onShowEnCertCtrlFail",
  "onShowExitDoubleScanFail", "onShowExCertCtrlFail",
  "onShowExitTicketFail", "onShowExitDbFail"}
PassTimed == {"onPassEntry", "onPassExit"}
(* Mutant: the exit lane waits for the base without a timer. *)
DbTimedEntry == {"onCheckTicket", "onCheckCertCtrl", "onCheckTypeBarcode"}
DbTimed == {"onCheckTicket", "onCheckCertCtrl", "onCheckTypeBarcode",
            "onCheckExitTicket"}

Arms(s) ==
  CASE s \in ShowTimed             -> {"showTimer"}
    [] s \in PassTimed             -> {"passTimer"}
    [] s \in DbTimed               -> {"dbTimeoutTimer"}
    [] s = "onCheckCert"           -> {"certAPItimeout"}
    [] s = "onWaitCovidContoller"  -> {"WaitCovidContoller"}
    [] s = "onWaitEntryTicket"     -> {"CheckTicketTimer"}
    [] s = "onSecurityTimeout"     -> {"SecurityCheckTimer"}
    [] OTHER                       -> {}

(* onShowEnCertCtrlFail and onShowExCertCtrlFail cancel a timer that is    *)
(* not theirs; every other leaf cancels the one it armed.                  *)
Cancels(s) ==
  IF s \in {"onShowEnCertCtrlFail", "onShowExCertCtrlFail"}
  THEN {"dbTimeoutTimer"} ELSE Arms(s)

TimeoutOf ==
  [ showTimer |-> "showTimeout", passTimer |-> "Drop",
    dbTimeoutTimer |-> "dbTimeout", certAPItimeout |-> "CommunicationTimeout",
    WaitCovidContoller |-> "ready", CheckTicketTimer |-> "ready",
    SecurityCheckTimer |-> "SecurityCheckTimeout" ]

=============================================================================
