------------------------------ MODULE ScanPage ------------------------------
(***************************************************************************)
(* The scanner page docroot/5.html on the runtime of js/a.out.js: the      *)
(* inline script hands onRuntimeInitialized to the runtime, the handler    *)
(* asks for the camera, every `play' of the video starts a chain of        *)
(* animation frames, and each sixth frame is copied into a buffer on the   *)
(* heap of the wasm code, scanned and freed.                               *)
(***************************************************************************)
EXTENDS WasmRuntime

CONSTANTS
  HeapSlots,  \* frame buffers that fit in the heap; it never grows
  MaxChains   \* bound on the `play' events

ASSUME PageAssumption == HeapSlots \in Nat \ {0} /\ MaxChains \in Nat \ {0}

VARIABLES
  camera,   \* what became of getUserMedia
  chains,   \* animation frame callbacks that are requested
  count,    \* the frames since the last scan, of all chains together
  heap,     \* frame buffers on the wasm heap
  broken    \* scans that were left by an exception

pageVars == <<camera, chains, count, heap, broken>>
vars == <<rt, load, camera, chains, count, heap, broken>>

Period == 5   \* if ( ++count > 5)

Init ==
  /\ RtInit
  /\ camera = "off"
  /\ chains = 0 /\ count = 0 /\ heap = 0 /\ broken = 0

(* The handler of 5.html asks for the camera in the step in which the      *)
(* runtime calls it.                                                       *)
Handler == camera' = IF rt'.ready > rt.ready THEN "asked" ELSE camera

(* The parser: the inline script stands after a.out.js.  Other tasks may   *)
(* run between the two.                                                    *)
InlineScript ==
  /\ SetHandler
  /\ UNCHANGED pageVars

Load ==
  /\ Script \/ ScriptRefused \/ ScriptUnsupported \/ LoadNext
  /\ Handler
  /\ UNCHANGED <<chains, count, heap, broken>>

RuntimeTask ==
  /\ RunTimer \/ DataArrives \/ WatcherTick
  /\ Handler
  /\ UNCHANGED <<chains, count, heap, broken>>

(* The user's answer, or the device's. *)
CameraAnswers ==
  /\ camera = "asked"
  /\ camera' \in {"on", "refused"}
  /\ UNCHANGED <<rt, load, chains, count, heap, broken>>

(* The video plays, for the first time or again after a pause. *)
Play ==
  /\ camera = "on" /\ chains < MaxChains
  /\ chains' = chains + 1
  /\ UNCHANGED <<rt, load, camera, count, heap, broken>>

(* The memory of the compiled code is as large as it will ever be.         *)
HeapFull == heap = HeapSlots

(* detectSymbols.  A heap that is full aborts in create_buffer; the wasm   *)
(* code may trap in scan_image, or abort, and the buffer is not freed.     *)
DetectSymbols ==
  \/ /\ HeapFull \/ Export(rt).threw
     /\ Task(Abort(rt))
     /\ UNCHANGED <<heap, broken>>
  \/ /\ ~HeapFull /\ ~Export(rt).threw
     /\ UNCHANGED rt \/ Task(Abort(rt))
     /\ heap' = heap + 1
     /\ broken' = broken + 1
  \/ /\ ~HeapFull /\ ~Export(rt).threw
     /\ UNCHANGED <<rt, heap, broken>>

(* Mutant of FrameStep: the next frame is requested after the scan, so a   *)
(* scan that throws ends the chain.                                        *)
FrameStepAfterScan ==
  /\ chains > 0
  /\ IF count + 1 > Period
     THEN /\ count' = 0 /\ DetectSymbols
          /\ chains' = IF heap' # heap \/ heap = HeapSlots THEN chains - 1
                                                        ELSE chains
     ELSE count' = count + 1 /\ UNCHANGED <<rt, heap, broken, chains>>
  /\ UNCHANGED <<load, camera>>

(* step: the next frame is requested before the scan, so an exception of   *)
(* the scan does not end the chain.                                        *)
FrameStep ==
  /\ chains > 0
  /\ chains' = chains
  /\ IF count + 1 > Period
     THEN count' = 0 /\ DetectSymbols
     ELSE count' = count + 1 /\ UNCHANGED <<rt, heap, broken>>
  /\ UNCHANGED <<load, camera>>

Next == InlineScript \/ Load \/ RuntimeTask \/ CameraAnswers \/ Play \/ FrameStep

(* The parser, the network, the compiler and timers go on; frames are      *)
(* drawn.  The user need not answer.                                       *)
Fairness ==
  /\ WF_vars(InlineScript) /\ WF_vars(Load) /\ WF_vars(FrameStep)
  /\ WF_vars(RuntimeTask)

Spec == Init /\ [][Next]_vars
FairSpec == Spec /\ Fairness

-----------------------------------------------------------------------------

(* The globals of a.out.js and of 5.html have their types.                 *)
TypeOK ==
  /\ RtTypeOK
  /\ camera \in {"off", "asked", "on", "refused"}
  /\ chains \in 0..MaxChains /\ count \in 0..Period
  /\ heap \in 0..HeapSlots /\ broken \in Nat

(* No assertion of the runtime fails: it aborts only for a load that       *)
(* failed or in a scan, and no frame is scanned before the handler.        *)
NoStrayAbort ==
  /\ rt.abort => load = "failed" \/ broken > 0
  /\ chains > 0 => rt.initialized /\ rt.ready = 1

(* Scans go on for as long as the video plays, also after a scan that      *)
(* threw: the frame after it was requested before it.                      *)
ScansGoOn == \A k \in 0..Period : chains > 0 ~> count = k

=============================================================================
