---------------------------- MODULE WasmRuntime ----------------------------
(***************************************************************************)
(* The loader and runtime of the barcode scanner, docroot/js/a.out.js.     *)
(*                                                                         *)
(* JavaScript runs to the end of a task, so a chain of calls is one step:  *)
(* the globals of the script are the record rt, a function of the script   *)
(* is an operator from rt to rt, and `threw` says that an exception is     *)
(* leaving the chain.  The tasks of the event loop are the actions: the    *)
(* script itself, the answers of fetch and of the compiler, timers.        *)
(***************************************************************************)
EXTENDS Integers, FiniteSets

CONSTANTS
  Environments,  \* where the script may run; 5.html is a "web" page
  PreRunDeps     \* the run dependencies that a preRun hook of the page adds

Wasm == "wasm-instantiate"
Dep == {Wasm} \cup PreRunDeps

ASSUME DepAssumption ==
  /\ Environments \subseteq {"web", "worker", "node", "shell"}
  /\ Wasm \notin PreRunDeps
  /\ IsFiniteSet(PreRunDeps)

VARIABLES
  rt,    \* the globals of the script
  load   \* how far the load of a.out.wasm is

(* What the script finds where it runs: a page has fetch and no readBinary, *)
(* a worker both, node and the shell only readBinary.                      *)
CanFetch(env) == env \in {"web", "worker"}
HasReadBinary(env) == env # "web"

(* "start": the script has not run.  "fetch": the fetch whose answer is    *)
(* compiled as it comes; "compile": that compilation.  "fetch2" and        *)
(* "compile2": the same for the whole file in a buffer.  "ready" and       *)
(* "failed" end it; so does "lost", which nothing handles.                 *)
Loads == {"start", "fetch", "compile", "fetch2", "compile2", "ready",
          "failed", "lost"}

(* The page's Module object may have hooks: setStatus, and a preRun; or an *)
(* option that this version of Emscripten has no more.                     *)
RtInit ==
  /\ \E env \in Environments, setStatus, preRun, stale \in BOOLEAN :
       rt = [env |-> env, setStatus |-> setStatus, preRun |-> preRun,
           stale |-> stale, abort |-> FALSE, threw |-> FALSE, deps |-> 0, tracking |-> {},
           watcher |-> FALSE, caller |-> FALSE, called |-> FALSE,
           initialized |-> FALSE, cookie |-> FALSE, linked |-> FALSE,
           trueModule |-> FALSE,
           runTimer |-> FALSE, handler |-> FALSE, ready |-> 0]
  /\ load = "start"

-----------------------------------------------------------------------------
(* abort and assert. *)

Abort(r) == [r EXCEPT !.abort = TRUE, !.threw = TRUE]

Assert(r, condition) == IF condition THEN r ELSE Abort(r)

WriteStackCookie(r) == [r EXCEPT !.cookie = TRUE]

CheckStackCookie(r) == Assert(r, r.cookie)

-----------------------------------------------------------------------------
(* Run dependencies. *)

(* Mutant of AddRunDependency: tracked without being counted.              *)
AddRunDependencyUncounted(r, id) ==
  IF id \in r.tracking
  THEN Abort(r)
  ELSE [r EXCEPT !.tracking = @ \cup {id}, !.watcher = TRUE]

AddRunDependency(r, id) ==
  LET counted == [r EXCEPT !.deps = @ + 1] IN
  IF id \in r.tracking
  THEN Abort(counted)
  ELSE [counted EXCEPT !.tracking = @ \cup {id}, !.watcher = TRUE]

(* callRuntimeCallbacks, the callbacks being those of a hook that adds     *)
(* the dependencies ids, one after the other.                              *)
CallRuntimeCallbacks(r, ids) ==
  IF ids \cap r.tracking # {}
  THEN Abort([r EXCEPT !.deps = @ + 1])
  ELSE [r EXCEPT !.deps = @ + Cardinality(ids),
                 !.tracking = @ \cup ids,
                 !.watcher = @ \/ ids # {}]

(* Mutant of PreRun: the hooks stay on the list.                           *)
PreRunKept(r) == IF r.preRun THEN CallRuntimeCallbacks(r, PreRunDeps) ELSE r

(* preRun: the hooks of the page are taken off their list and called.      *)
PreRun(r) ==
  IF r.preRun THEN CallRuntimeCallbacks([r EXCEPT !.preRun = FALSE], PreRunDeps)
              ELSE r

(* preMain and postRun check the stack; there is no main, and the hooks    *)
(* after it have no part in the load.                                      *)
PreMain(r) == CheckStackCookie(r)
PostRun(r) == IF r.threw THEN r ELSE CheckStackCookie(r)

InitRuntime(r) ==
  IF ~r.cookie \/ r.initialized THEN Abort(r)
  ELSE [r EXCEPT !.initialized = TRUE]

(* Module.onRuntimeInitialized, if the page has set it by now. *)
OnRuntimeInitialized(r) ==
  IF r.threw \/ ~r.handler THEN r ELSE [r EXCEPT !.ready = @ + 1]

DoRun(r) ==
  IF r.called THEN r
  ELSE LET called == [r EXCEPT !.called = TRUE] IN
       IF r.abort THEN called
       ELSE PostRun(OnRuntimeInitialized(PreMain(InitRuntime(called))))

(* Mutant of Run: no cookie is written.                                    *)
RunWithoutCookie(r) ==
  IF r.deps > 0 THEN r
  ELSE LET p == PreRun(r) IN
       IF p.threw \/ p.deps > 0 THEN p
       ELSE CheckStackCookie(IF p.setStatus THEN [p EXCEPT !.runTimer = TRUE]
                                          ELSE DoRun(p))

(* Mutant of Run: the dependencies are not looked at first.                *)
RunAtOnce(r) ==
  LET p == PreRun(WriteStackCookie(r)) IN
  IF p.threw THEN p
  ELSE CheckStackCookie(IF p.setStatus THEN [p EXCEPT !.runTimer = TRUE]
                                     ELSE DoRun(p))

(* With a setStatus in the page, doRun is left to a timer. *)
Run(r) ==
  IF r.deps > 0 THEN r
  ELSE LET p == PreRun(WriteStackCookie(r)) IN
       IF p.threw \/ p.deps > 0 THEN p
       ELSE CheckStackCookie(IF p.setStatus THEN [p EXCEPT !.runTimer = TRUE]
                                          ELSE DoRun(p))

(* runCaller: tried again at the next zero for as long as run has not      *)
(* called doRun.                                                           *)
RunCaller(r) ==
  LET ran == IF r.called THEN r ELSE Run(r) IN
  IF ran.threw \/ ran.called THEN ran ELSE [ran EXCEPT !.caller = TRUE]

RemoveRunDependency(r, id) ==
  LET counted == [r EXCEPT !.deps = @ - 1]
      untracked == [counted EXCEPT !.tracking = @ \ {id}]
      quiet == [untracked EXCEPT !.watcher = FALSE]
  IN IF id \notin r.tracking THEN Abort(counted)
     ELSE IF untracked.deps # 0 THEN untracked
     ELSE IF ~r.caller THEN quiet
     ELSE RunCaller([quiet EXCEPT !.caller = FALSE])

-----------------------------------------------------------------------------
(* Tasks.  A task starts with no exception on its way. *)

Task(r) == rt' = [r EXCEPT !.threw = FALSE]

(* The page's Module is taken over, but for the options that were removed. *)
TakeOptions(r) == Assert(r, ~r.stale)

(* createWasm, up to the first request. *)
CreateWasm(r) == [AddRunDependency(r, Wasm) EXCEPT !.trueModule = TRUE]

(* Module.asm gives no exports yet, but an object for them.                *)
Asm(r) == CreateWasm(r)

(* a.out.js from its first line to its last: run() finds a dependency and  *)
(* returns.  Where there is a fetch there may be instantiateStreaming.     *)
Script ==
  /\ load = "start" /\ ~TakeOptions(rt).threw
  /\ \/ CanFetch(rt.env) /\ load' = "fetch"
     \/ load' = "fetch2"
  /\ Task(Run([Asm(rt) EXCEPT !.caller = TRUE]))

(* The script ends in its first lines.                                     *)
ScriptRefused ==
  /\ load = "start" /\ TakeOptions(rt).threw
  /\ load' = "failed"
  /\ Task(TakeOptions(rt))

(* A browser without WebAssembly: the script ends in its abort. *)
ScriptUnsupported ==
  /\ load = "start"
  /\ load' = "failed"
  /\ Task(Abort(rt))

(* The first fetch has an answer, an error page included; or it has none,  *)
(* and the rejection is handled nowhere.                                   *)
Fetched ==
  /\ load = "fetch"
  /\ load' \in {"compile", "lost"}
  /\ UNCHANGED rt

ReceiveInstance(r) ==
  RemoveRunDependency([r EXCEPT !.linked = TRUE], Wasm)

(* The assertion of receiveInstantiatedSource: the page's Module is the    *)
(* one the load began with, and this is the first instance.                *)
ReceiveInstantiatedSource(r) ==
  LET checked == Assert(r, r.trueModule) IN
  IF checked.threw THEN checked
  ELSE ReceiveInstance([checked EXCEPT !.trueModule = FALSE])

(* An exception of the receiver goes to nobody: it is not the fallback's.  *)
Received ==
  /\ load' = "ready"
  /\ Task(ReceiveInstantiatedSource(rt))

Compiled == load = "compile" /\ Received

CompileFailed ==
  /\ load = "compile"
  /\ load' = "fetch2"
  /\ UNCHANGED rt

(* getBinaryPromise: the file by fetch, or, where there is none or it      *)
(* failed, by getBinary.                                                   *)
GotBinary ==
  /\ load = "fetch2"
  /\ CanFetch(rt.env) \/ HasReadBinary(rt.env)
  /\ load' = "compile2"
  /\ UNCHANGED rt

(* getBinary cannot read, in a page for want of a readBinary, and aborts;  *)
(* the rejection handler of instantiateArrayBuffer aborts again.           *)
GetBinaryFailed ==
  /\ load = "fetch2"
  /\ load' = "failed"
  /\ Task(Abort(Abort(rt)))

Compiled2 == load = "compile2" /\ Received

CompileFailed2 ==
  /\ load = "compile2"
  /\ load' = "failed"
  /\ Task(Abort(rt))

RunTimer ==
  /\ rt.runTimer
  /\ Task(DoRun([rt EXCEPT !.runTimer = FALSE]))
  /\ UNCHANGED load

(* What a preRun hook waited for is there. *)
DataArrives ==
  /\ \E id \in PreRunDeps \cap rt.tracking : Task(RemoveRunDependency(rt, id))
  /\ UNCHANGED load

(* The ten seconds' look at what is still missing; it ends with an abort. *)
WatcherTick ==
  /\ rt.watcher /\ rt.abort
  /\ Task([rt EXCEPT !.watcher = FALSE])
  /\ UNCHANGED load

(* The page's script sets onRuntimeInitialized. *)
SetHandler ==
  /\ load # "start" /\ ~rt.handler
  /\ Task([rt EXCEPT !.handler = TRUE])
  /\ UNCHANGED load

(* A call of a function of the compiled code goes through its export,      *)
(* which asserts that the runtime is initialised; ABORT is not looked at.  *)
Export(r) == Assert(r, r.initialized)

LoadNext == Fetched \/ Compiled \/ CompileFailed \/ GotBinary
              \/ GetBinaryFailed \/ Compiled2 \/ CompileFailed2

-----------------------------------------------------------------------------

(* The globals of a.out.js have their types.                               *)
RtTypeOK ==
  /\ rt \in [env : Environments, setStatus : BOOLEAN, abort : BOOLEAN, threw : {FALSE},
            deps : Nat,
            tracking : SUBSET Dep, watcher : BOOLEAN, caller : BOOLEAN,
            called : BOOLEAN, initialized : BOOLEAN, cookie : BOOLEAN,
            linked : BOOLEAN, trueModule : BOOLEAN, preRun : BOOLEAN,
            stale : BOOLEAN, runTimer : BOOLEAN, handler : BOOLEAN, ready : 0..1]
  /\ load \in Loads

(* runDependencies is counted apart from runDependencyTracking: the two    *)
(* agree whatever the order in which the instance and the page's own data  *)
(* arrive, and the load may begin to run only at zero.                     *)
DepsCounted == rt.deps = Cardinality(rt.tracking)

(* Nothing that calls into the compiled code comes before the instance is  *)
(* linked, every dependency is there and the runtime is initialised; the   *)
(* handler is called once.                                                 *)
CodeAfterLink ==
  /\ rt.initialized => rt.linked /\ rt.called /\ rt.tracking = {}
  /\ rt.ready > 0 => rt.initialized /\ rt.ready = 1

(* The load comes to an end: the runtime is initialised or aborts, unless  *)
(* the first fetch is rejected, which a.out.js does not handle.            *)
LoadSettles ==
  load # "start" ~> rt.initialized \/ rt.abort \/ load = "lost"

=============================================================================
