----------------------------- MODULE CameraPage -----------------------------
(***************************************************************************)
(* The barcode pages docroot/1.html and docroot/s/1/index.html: video.js,  *)
(* which the parser runs, and the ZXing runtime zxing.js, an async script  *)
(* that may run before it.  video.js puts its own Module object in place,  *)
(* asks for the cameras and scans the picture of the chosen one in a       *)
(* chain of timers.                                                        *)
(***************************************************************************)
EXTENDS Integers, FiniteSets

CONSTANTS
  Pages,      \* "1" for docroot/1.html, "s1" for docroot/s/1/index.html
  Device,     \* the cameras
  NoDevice,
  Sizes,      \* pixels of a frame that a camera may deliver
  Requested,  \* pixels of a frame that the page asks for
  MaxAsked    \* bound on the calls of getUserMedia

ASSUME CameraAssumption ==
  /\ Pages \subseteq {"1", "s1"}
  /\ NoDevice \notin Device
  /\ IsFiniteSet(Device) /\ Device # {}
  /\ Sizes \subseteq Nat /\ Requested \in Sizes \ {0}
  /\ MaxAsked \in Nat

VARIABLES
  (* zxing.js *)
  zx,        \* how far the load of zxing.wasm is
  deps,      \* runDependencies
  runs,      \* how often doRun has been called
  early,     \* whether zxing.js ran before video.js
  aborted,   \* ABORT
  (* video.js: the scanner *)
  html,      \* the page that is open
  page,      \* whether the parser has run video.js
  ZXing,     \* null, the runtime's Module, or the page's without a runtime
  size,      \* imageWidth * imageHeight
  timers,    \* scanBarcode timers that are set
  thrown,    \* whether a scan has been left by an exception
  (* video.js: the cameras *)
  options,   \* whether gotDevices has filled the list
  selected,  \* the option chosen in the list
  want,      \* want[n]: the camera that the n-th getUserMedia asks for
  pending,   \* the calls of getUserMedia without an answer
  live,      \* the calls whose stream nobody has stopped
  stream,    \* window.stream: the call it came from, 0 for none
  crossed    \* how many calls were made while another was pending

zxVars == <<zx, deps, runs, early, aborted>>
scanVars == <<html, page, ZXing, size, timers, thrown>>
camVars == <<options, selected, want, pending, live, stream, crossed>>
pagesVars == <<zx, deps, runs, early, aborted, html, page, ZXing, size, timers, thrown,
          options, selected, want, pending, live, stream, crossed>>

asked == Cardinality(DOMAIN want)

CameraInit ==
  /\ zx = "start" /\ deps = 0 /\ runs = 0 /\ early = FALSE /\ aborted = FALSE
  /\ html \in Pages /\ page = FALSE
  /\ ZXing = "null" /\ size = Requested /\ timers = 0 /\ thrown = FALSE
  /\ options = FALSE /\ selected = NoDevice /\ want = [n \in {} |-> NoDevice]
  /\ pending = {} /\ live = {} /\ stream = 0 /\ crossed = 0

-----------------------------------------------------------------------------
(* The scanner. *)

(* A scan throws when the picture has no pixels, or in the compiled code.  *)
MayThrow == {TRUE} \cup IF size = 0 THEN {} ELSE {FALSE}

(* scanBarcode of 1.html: without a runtime an alert and no next scan;     *)
(* otherwise the next scan in 30 or 100 ms, unless this one threw.         *)
ScanBarcode(zxing, throws) == IF zxing = "null" \/ throws THEN 0 ELSE 1

(* scanBarcode of s/1/index.html does not look whether ZXing is null; it   *)
(* is called only with a runtime, and again after 50 ms.                   *)
ScanBarcodeS1(zxing, throws) == IF throws THEN 0 ELSE 1

Scans(zxing, throws) ==
  IF html = "1" THEN ScanBarcode(zxing, throws)
                ELSE ScanBarcodeS1(zxing, throws)

ScanTimer ==
  /\ timers > 0
  /\ \E throws \in MayThrow :
       /\ timers' = timers - 1 + Scans(ZXing, throws)
       /\ thrown' = (thrown \/ throws)
  /\ UNCHANGED <<zxVars, html, page, ZXing, size, camVars>>

(* Module.onRuntimeInitialized of video.js, with the result in threw.  When *)
(* zxing.js ran first, its functions are members of the object that        *)
(* video.js has replaced: _resize is not a function.                       *)
OnRuntimeInitialized1(threw) ==
  IF early
  THEN threw /\ ZXing' = "page" /\ UNCHANGED <<timers, thrown>>
  ELSE /\ ZXing' = "runtime"
       /\ threw \in MayThrow
       /\ timers' = timers + Scans("runtime", threw)
       /\ thrown' = (thrown \/ threw)

(* The other page's is the same text. *)
OnRuntimeInitializedS1(threw) == OnRuntimeInitialized1(threw)

ZxingHandler(threw) ==
  IF ~page
  THEN ~threw /\ UNCHANGED <<ZXing, timers, thrown>>
  ELSE IF html = "1" THEN OnRuntimeInitialized1(threw)
                     ELSE OnRuntimeInitializedS1(threw)

-----------------------------------------------------------------------------
(* zxing.js. *)

(* Mutant of ZxingScript: a dependency for each way to instantiate.        *)
ZxingScriptTwice ==
  /\ zx = "start"
  /\ zx' \in {"stream", "buffer"}
  /\ deps' = deps + 2 /\ early' = ~page
  /\ UNCHANGED <<runs, aborted, scanVars, camVars>>

ZxingScript ==
  /\ zx = "start"
  /\ zx' \in {"stream", "buffer"}
  /\ deps' = deps + 1 /\ early' = ~page
  /\ UNCHANGED <<runs, aborted, scanVars, camVars>>

(* Mutant of Receive: the dependencies are done at zero or below.          *)
ReceiveBelowZero(threw) ==
  /\ deps' = deps - 1
  /\ IF deps - 1 <= 0
     THEN runs' = runs + 1 /\ ZxingHandler(threw)
     ELSE ~threw /\ UNCHANGED <<runs, ZXing, timers, thrown>>
  /\ UNCHANGED <<early, html, page, size, camVars>>

(* receiveInstance: the last dependency starts the program.                *)
Receive(threw) ==
  /\ deps' = deps - 1
  /\ IF deps - 1 = 0 /\ runs = 0
     THEN runs' = 1 /\ ZxingHandler(threw)
     ELSE ~threw /\ UNCHANGED <<runs, ZXing, timers, thrown>>
  /\ UNCHANGED <<early, html, page, size, camVars>>

(* instantiateStreaming(..).then(receive).catch(fallback): an exception of *)
(* the page's handler is taken for a failed compilation, and the code is   *)
(* instantiated once more.                                                 *)
StreamCompiled ==
  /\ zx = "stream"
  /\ \E threw \in BOOLEAN :
       Receive(threw) /\ zx' = IF threw THEN "buffer" ELSE "ready"
  /\ UNCHANGED aborted

StreamFailed ==
  /\ zx = "stream" /\ zx' = "buffer"
  /\ UNCHANGED <<deps, runs, early, aborted, scanVars, camVars>>

(* instantiateArrayBuffer: there an exception of the handler aborts.       *)
BufferCompiled ==
  /\ zx = "buffer"
  /\ \E threw \in BOOLEAN :
       /\ Receive(threw)
       /\ zx' = IF threw THEN "failed" ELSE "ready"
       /\ aborted' = (aborted \/ threw)

BufferFailed ==
  /\ zx = "buffer" /\ zx' = "failed" /\ aborted' = TRUE
  /\ UNCHANGED <<deps, runs, early, scanVars, camVars>>

-----------------------------------------------------------------------------
(* The cameras. *)

Ask(device) ==
  /\ want' = [n \in DOMAIN want \cup {asked + 1} |->
                IF n = asked + 1 THEN device ELSE want[n]]
  /\ pending' = pending \cup {asked + 1}
  /\ crossed' = crossed + IF pending = {} THEN 0 ELSE 1

(* getStream of s/1: the old stream is left running, and the choice in the *)
(* list is not part of what is asked for.                                  *)
GetStreamS1(choice) ==
  /\ \E device \in Device \cup {NoDevice} : Ask(device)
  /\ UNCHANGED live

(* Mutant of GetStream: the old stream is left running.                    *)
GetStreamUnstopped(choice) == Ask(choice) /\ UNCHANGED live

(* getStream of 1.html stops the stream that the page has, and asks for    *)
(* the chosen camera.                                                      *)
GetStream(choice) ==
  /\ Ask(choice)
  /\ live' = live \ {stream}

AskFor(choice) ==
  /\ asked < MaxAsked
  /\ selected' = choice
  /\ IF html = "1" THEN GetStream(choice) ELSE GetStreamS1(choice)

(* The parser: the scripts stand in this order, but zxing.js is async. *)
VideoScript ==
  /\ ~page /\ page' = TRUE
  /\ UNCHANGED <<zxVars, html, ZXing, size, timers, thrown, camVars>>

(* enumerateDevices().then(gotDevices).then(getStream): each camera found  *)
(* is selected as it is added, so the first of the list stays.             *)
GotDevices ==
  /\ page /\ ~options /\ options' = TRUE
  /\ \E first \in Device \cup {NoDevice} : AskFor(first)
  /\ UNCHANGED <<zxVars, scanVars, stream>>

(* videoSelect.onchange *)
Change ==
  /\ options
  /\ \E device \in Device \ {selected} : AskFor(device)
  /\ UNCHANGED <<zxVars, scanVars, options, stream>>

(* gotStream of s/1: the picture takes the size of the stream.             *)
GotStreamS1(n) == stream' = n /\ size' \in Sizes

GotStream(n) == stream' = n /\ UNCHANGED size

(* The answers of getUserMedia come in any order. *)
StreamArrives ==
  /\ \E n \in pending :
       /\ want[n] # NoDevice
       /\ pending' = pending \ {n}
       /\ live' = live \cup {n}
       /\ IF html = "1" THEN GotStream(n) ELSE GotStreamS1(n)
  /\ UNCHANGED <<zxVars, html, page, ZXing, timers, thrown, options, selected, want,
                 crossed>>

(* handleError only writes to the console.                                 *)
StreamRefused ==
  /\ \E n \in pending : pending' = pending \ {n}
  /\ UNCHANGED <<zxVars, scanVars, options, selected, want, live, stream,
                 crossed>>

-----------------------------------------------------------------------------

Scripts == ZxingScript \/ StreamCompiled \/ StreamFailed \/ BufferCompiled
             \/ BufferFailed \/ VideoScript

Cameras == GotDevices \/ Change \/ StreamArrives \/ StreamRefused

CameraNext == Scripts \/ ScanTimer \/ Cameras

(* Scripts are fetched and run, the compiler answers, timers fire. *)
CameraFairness == WF_pagesVars(Scripts) /\ WF_pagesVars(ScanTimer)

CameraSpec == CameraInit /\ [][CameraNext]_pagesVars
FairCameraSpec == CameraSpec /\ CameraFairness

-----------------------------------------------------------------------------

(* The globals of video.js and of the runtime have their types.            *)
CameraTypeOK ==
  /\ zx \in {"start", "stream", "buffer", "ready", "failed"}
  /\ deps \in -1..1 /\ runs \in 0..1 /\ early \in BOOLEAN
  /\ aborted \in BOOLEAN /\ html \in Pages /\ page \in BOOLEAN
  /\ ZXing \in {"null", "runtime", "page"}
  /\ size \in Sizes /\ timers \in Nat /\ thrown \in BOOLEAN
  /\ options \in BOOLEAN /\ selected \in Device \cup {NoDevice}
  /\ asked \in 0..MaxAsked /\ DOMAIN want = 1..asked
  /\ \A n \in DOMAIN want : want[n] \in Device \cup {NoDevice}
  /\ pending \subseteq DOMAIN want /\ live \subseteq DOMAIN want
  /\ stream \in {0} \cup DOMAIN want /\ crossed \in Nat

(* The program is started once and has one chain of scans, although an     *)
(* exception of the handler makes zxing.js instantiate the code again and  *)
(* count its dependency down once more.                                    *)
OneStart == runs <= 1 /\ timers <= 1

(* 1.html stops only the stream it has when it asks for the next one, so   *)
(* that a camera whose stream comes after that call stays on, unseen, and  *)
(* nobody can stop it any more: but no more of them than there were calls  *)
(* of getUserMedia made while another was pending, whatever the answers    *)
(* and their order; and none but the one shown if there was no such call.  *)
CamerasLeftOn == html = "1" => Cardinality(live \ {stream}) <= crossed

(* When video.js ran before zxing.js, scanning starts, unless the runtime  *)
(* or the scan itself fails, and goes on until a scan throws; when it ran  *)
(* after, the page never scans.                                            *)
ScanningStarts ==
  /\ (page /\ zx # "start" /\ ~early) ~> (timers > 0 \/ thrown \/ aborted)
  /\ [](ZXing = "runtime" => timers > 0 \/ thrown)
  /\ [](early => timers = 0)

=============================================================================
