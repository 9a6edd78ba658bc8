---------------------------- MODULE ScanPageProofs ----------------------------
(***************************************************************************)
(* The scanner page on its runtime, for any environments, any run          *)
(* dependencies a hook of the page adds, any heap and any number of        *)
(* `play' events: no assertion of the runtime fails, no frame is scanned   *)
(* before the handler.  And the barcode pages, for any cameras, frame      *)
(* sizes and number of requests.                                           *)
(***************************************************************************)
EXTENDS ScanPage, CameraPage, TLAPS, FiniteSetTheorems

(* The globals of a.out.js, an exception perhaps on its way. *)
Globals ==
  [env : Environments, setStatus : BOOLEAN, abort : BOOLEAN, threw : BOOLEAN,
   deps : Nat, tracking : SUBSET Dep, watcher : BOOLEAN, caller : BOOLEAN,
   called : BOOLEAN, initialized : BOOLEAN, cookie : BOOLEAN,
   linked : BOOLEAN, trueModule : BOOLEAN, preRun : BOOLEAN,
   stale : BOOLEAN, runTimer : BOOLEAN, handler : BOOLEAN, ready : 0..1]

(* Nothing has run that needs the instance. *)
Idle(r) ==
  /\ ~r.called /\ ~r.initialized /\ ~r.runTimer /\ r.ready = 0

(* a.out.js has not run. *)
Fresh(r) ==
  Idle(r) /\ r.deps = 0 /\ r.tracking = {} /\ ~r.linked /\ ~r.abort

(* The instance is on its way, and nothing else. *)
Loading(r) ==
  /\ Idle(r) /\ ~r.linked /\ r.trueModule /\ r.caller
  /\ r.deps = 1 /\ r.tracking = {Wasm}

(* The instance has come; dependencies of the page are missing, or the     *)
(* timer of setStatus is.                                                  *)
Waiting(r) ==
  /\ ~r.called /\ ~r.initialized /\ r.ready = 0 /\ r.caller /\ ~r.abort
  /\ r.runTimer <=> r.tracking = {}
  /\ r.runTimer => r.cookie

Running(r) ==
  /\ r.called /\ r.initialized /\ ~r.runTimer /\ r.tracking = {}

Settled(r) ==
  /\ r.linked /\ ~r.preRun /\ Wasm \notin r.tracking
  /\ r.deps = Cardinality(r.tracking)
  /\ Waiting(r) \/ Running(r)

(* The failed load keeps what it had when it failed. *)
Failed(r) ==
  Idle(r) /\ ~r.linked /\ r.tracking \subseteq {Wasm} /\ r.deps = Cardinality(r.tracking)

RunInv ==
  /\ load = "start" => Fresh(rt)
  /\ load \in {"fetch", "compile", "fetch2", "compile2", "lost"} => Loading(rt) /\ ~rt.abort
  /\ load = "ready" => Settled(rt)
  /\ load = "failed" => Failed(rt)

CameraInv ==
  /\ camera # "off" => rt.ready = 1
  /\ chains > 0 => rt.ready = 1
  /\ rt.abort => load = "failed" \/ broken > 0
  /\ heap = broken

Inv == TypeOK /\ RunInv /\ CameraInv

-----------------------------------------------------------------------------
(* The calls of the runtime. *)

LEMMA AsGlobals == RtTypeOK <=> rt \in Globals /\ ~rt.threw /\ load \in Loads
<1>1. RtTypeOK => rt \in Globals /\ ~rt.threw /\ load \in Loads
  <2> SUFFICES ASSUME RtTypeOK PROVE rt \in Globals /\ ~rt.threw /\ load \in Loads
    OBVIOUS
  <2> QED BY DEF RtTypeOK, Globals
<1>2. ASSUME rt \in Globals, ~rt.threw, load \in Loads PROVE RtTypeOK
  <2>1. rt.threw \in {FALSE} BY <1>2 DEF Globals
  <2> QED BY <1>2, <2>1 DEF RtTypeOK, Globals
<1> QED BY <1>1, <1>2

LEMMA AsGlobalsNext == RtTypeOK' <=> rt' \in Globals /\ ~rt'.threw /\ load' \in Loads
<1>1. RtTypeOK' => rt' \in Globals /\ ~rt'.threw /\ load' \in Loads
  <2> SUFFICES ASSUME RtTypeOK' PROVE rt' \in Globals /\ ~rt'.threw /\ load' \in Loads
    OBVIOUS
  <2> QED BY DEF RtTypeOK, Globals
<1>2. ASSUME rt' \in Globals, ~rt'.threw, load' \in Loads PROVE RtTypeOK'
  <2>1. rt'.threw \in {FALSE} BY <1>2 DEF Globals
  <2> QED BY <1>2, <2>1 DEF RtTypeOK, Globals
<1> QED BY <1>1, <1>2

(* doRun, with the stack marked and the runtime not yet initialised. *)
LEMMA DoRunRuns ==
  ASSUME NEW r \in Globals, ~r.abort, ~r.threw, r.cookie, Idle(r)
  PROVE  /\ DoRun(r) \in Globals /\ ~DoRun(r).threw /\ ~DoRun(r).abort
         /\ DoRun(r).called /\ DoRun(r).initialized /\ DoRun(r).cookie
         /\ ~DoRun(r).runTimer /\ DoRun(r).linked = r.linked /\ DoRun(r).preRun = r.preRun
         /\ DoRun(r).tracking = r.tracking /\ DoRun(r).deps = r.deps
<1> DEFINE called == [r EXCEPT !.called = TRUE]
           up == [called EXCEPT !.initialized = TRUE]
           told == OnRuntimeInitialized(up)
<1>1. /\ called \in Globals /\ ~called.abort /\ called.cookie /\ ~called.initialized
      /\ ~called.threw /\ ~called.runTimer /\ called.called
      /\ called.linked = r.linked /\ called.preRun = r.preRun /\ called.ready = 0
      /\ called.tracking = r.tracking /\ called.deps = r.deps
  BY DEF Globals, Idle
<1>2. DoRun(r) = PostRun(OnRuntimeInitialized(PreMain(InitRuntime(called))))
  BY <1>1 DEF DoRun, Idle
<1> HIDE DEF called
<1>3. /\ up \in Globals /\ ~up.abort /\ up.cookie /\ up.initialized
      /\ ~up.threw /\ ~up.runTimer /\ up.called /\ up.ready = 0
      /\ up.linked = r.linked /\ up.preRun = r.preRun
      /\ up.tracking = r.tracking /\ up.deps = r.deps
  BY <1>1 DEF Globals
<1>4. InitRuntime(called) = up BY <1>1 DEF InitRuntime
<1> HIDE DEF up
<1>5. PreMain(up) = up BY <1>3 DEF PreMain, CheckStackCookie, Assert
<1>6. /\ told \in Globals /\ ~told.abort /\ told.cookie /\ told.initialized
      /\ ~told.threw /\ ~told.runTimer /\ told.called
      /\ told.linked = r.linked /\ told.preRun = r.preRun
      /\ told.tracking = r.tracking /\ told.deps = r.deps
  <2>1. CASE up.handler
    <3>1. told = [up EXCEPT !.ready = up.ready + 1]
      BY <1>3, <2>1 DEF OnRuntimeInitialized
    <3>2. up.ready + 1 \in 0..1 BY <1>3
    <3> QED BY <1>3, <3>1, <3>2 DEF Globals
  <2>2. CASE ~up.handler
    <3>1. told = up BY <1>3, <2>2 DEF OnRuntimeInitialized
    <3> QED BY <1>3, <3>1
  <2> QED BY <2>1, <2>2
<1>7. PostRun(told) = told BY <1>6 DEF PostRun, CheckStackCookie, Assert
<1> QED BY <1>2, <1>4, <1>5, <1>6, <1>7

(* run, called at zero once the instance has come: it waits for what the   *)
(* hooks have added, for the timer of setStatus, or runs.                  *)
LEMMA RunSettles ==
  ASSUME NEW r \in Globals, ~r.abort, ~r.threw, Idle(r), r.linked,
         r.deps = 0, r.tracking = {}
  PROVE  /\ RunCaller(r) \in Globals /\ ~RunCaller(r).threw /\ ~RunCaller(r).abort
         /\ Settled(RunCaller(r))
<1> DEFINE w == [r EXCEPT !.cookie = TRUE]
           p == PreRun(w)
           t == [p EXCEPT !.runTimer = TRUE]
           d == DoRun(p)
<1>1. w \in Globals /\ w.cookie /\ Idle(w) /\ w.tracking = {} /\ w.deps = 0
      /\ ~w.abort /\ ~w.threw /\ w.linked
  BY DEF Globals, Idle
<1>2. IsFiniteSet(PreRunDeps) /\ Cardinality(PreRunDeps) \in Nat /\ Wasm \notin PreRunDeps
      /\ PreRunDeps \subseteq Dep
  BY DepAssumption, FS_CardinalityType DEF Dep
<1>3. /\ p \in Globals /\ ~p.threw /\ ~p.abort /\ ~p.preRun /\ p.cookie /\ Idle(p) /\ p.linked
      /\ Wasm \notin p.tracking /\ p.deps = Cardinality(p.tracking)
      /\ p.deps > 0 <=> p.tracking # {}
  <2>1. CASE w.preRun
    <3> DEFINE c == [w EXCEPT !.preRun = FALSE]
    <3>1. p = [c EXCEPT !.deps = @ + Cardinality(PreRunDeps),
                        !.tracking = @ \cup PreRunDeps,
                        !.watcher = @ \/ PreRunDeps # {}]
      BY <1>1, <2>1 DEF PreRun, CallRuntimeCallbacks, Globals
    <3> HIDE DEF w, p
    <3>0. /\ c \in Globals /\ c.deps = 0 /\ c.tracking = {} /\ ~c.preRun
          /\ c.cookie /\ Idle(c) /\ c.linked /\ ~c.abort /\ ~c.threw
      BY <1>1 DEF Globals, Idle
    <3> HIDE DEF c
    <3> DEFINE seen == c.watcher \/ PreRunDeps # {}
    <3>a. /\ c.deps + Cardinality(PreRunDeps) = Cardinality(PreRunDeps)
          /\ c.tracking \cup PreRunDeps = PreRunDeps
      BY <1>2, <3>0
    <3>b. p = [c EXCEPT !.deps = Cardinality(PreRunDeps), !.tracking = PreRunDeps,
                        !.watcher = seen]
      BY <3>1, <3>a
    <3>c. seen \in BOOLEAN OBVIOUS
    <3> HIDE DEF seen, p
    <3>2. /\ p.deps = Cardinality(PreRunDeps) /\ p.tracking = PreRunDeps /\ p \in Globals
          /\ p.cookie /\ Idle(p) /\ p.linked /\ ~p.preRun /\ ~p.abort /\ ~p.threw
      BY <1>2, <3>0, <3>b, <3>c DEF Globals, Idle
    <3>3. Cardinality(PreRunDeps) > 0 <=> PreRunDeps # {}
      BY <1>2, FS_EmptySet
    <3> QED BY <1>2, <3>2, <3>3
  <2>2. CASE ~w.preRun
    <3>1. p = w BY <2>2 DEF PreRun
    <3>2. Cardinality({}) = 0 BY FS_EmptySet
    <3>3. ~(w.deps > 0) /\ ~(w.tracking # {}) /\ w.deps = Cardinality(w.tracking)
          /\ Wasm \notin w.tracking
      BY <1>1, <3>2
    <3> HIDE DEF w, p
    <3> QED BY <1>1, <2>2, <3>1, <3>3
  <2> QED BY <2>1, <2>2
<1> DEFINE ran == Run(r)
<1>4. ran = IF p.deps > 0 THEN p ELSE CheckStackCookie(IF p.setStatus THEN t ELSE d)
  BY <1>3 DEF Run, WriteStackCookie
<1>5. RunCaller(r) = IF ran.threw \/ ran.called THEN ran ELSE [ran EXCEPT !.caller = TRUE]
  BY DEF RunCaller, Idle
<1> HIDE DEF w, p, ran
<1>6. CASE p.deps > 0
  <2>1. ran = p BY <1>4, <1>6
  <2>2. RunCaller(r) = [p EXCEPT !.caller = TRUE]
    BY <1>3, <1>5, <2>1 DEF Idle
  <2> DEFINE n == [p EXCEPT !.caller = TRUE]
  <2>3. /\ n \in Globals /\ ~n.threw /\ ~n.called /\ ~n.initialized
        /\ n.ready = 0 /\ ~n.runTimer /\ n.linked /\ ~n.preRun /\ ~n.abort
        /\ n.tracking = p.tracking /\ n.deps = p.deps /\ n.caller
    BY <1>3 DEF Globals, Idle
  <2> HIDE DEF n
  <2>4. n.tracking # {} BY <1>3, <1>6, <2>3
  <2> QED BY <1>3, <2>2, <2>3, <2>4 DEF Settled, Waiting, n
<1>7. CASE ~(p.deps > 0) /\ p.setStatus
  <2>1. /\ t \in Globals /\ t.cookie /\ ~t.threw /\ ~t.called /\ ~t.initialized
        /\ t.ready = 0 /\ t.runTimer /\ t.linked /\ ~t.preRun /\ ~t.abort
        /\ t.tracking = p.tracking /\ t.deps = p.deps
    BY <1>3 DEF Globals, Idle
  <2>2. ran = t BY <1>4, <1>7, <2>1 DEF CheckStackCookie, Assert
  <2>3. RunCaller(r) = [t EXCEPT !.caller = TRUE]
    BY <1>5, <2>1, <2>2
  <2> DEFINE n == [t EXCEPT !.caller = TRUE]
  <2> HIDE DEF t
  <2>4. /\ n \in Globals /\ n.cookie /\ ~n.threw /\ ~n.called /\ ~n.initialized
        /\ n.ready = 0 /\ n.runTimer /\ n.linked /\ ~n.preRun /\ ~n.abort
        /\ n.tracking = p.tracking /\ n.deps = p.deps /\ n.caller
    BY <2>1 DEF Globals
  <2> HIDE DEF n
  <2>5. n.tracking = {} BY <1>3, <1>7, <2>4
  <2> QED BY <1>3, <2>3, <2>4, <2>5 DEF Settled, Waiting, n
<1>8. CASE ~(p.deps > 0) /\ ~p.setStatus
  <2>2. /\ d \in Globals /\ d.cookie /\ ~d.threw /\ d.called /\ d.initialized
        /\ ~d.runTimer /\ d.linked /\ ~d.preRun /\ ~d.abort
        /\ d.tracking = p.tracking /\ d.deps = p.deps
    BY <1>3, DoRunRuns
  <2>3. ran = d BY <1>4, <1>8, <2>2 DEF CheckStackCookie, Assert
  <2>4. RunCaller(r) = d BY <1>5, <2>2, <2>3
  <2> HIDE DEF d
  <2> QED BY <1>3, <1>8, <2>2, <2>4 DEF Settled, Running
<1> QED BY <1>6, <1>7, <1>8

(* removeRunDependency of the last dependency calls run; of another, it    *)
(* only counts down.                                                       *)
LEMMA RemoveLast ==
  ASSUME NEW r \in Globals, ~r.abort, ~r.threw, Idle(r), r.linked, r.caller,
         NEW id \in Dep, r.tracking = {id}, r.deps = 1
  PROVE  LET n == RemoveRunDependency(r, id)
         IN  n \in Globals /\ ~n.threw /\ ~n.abort /\ Settled(n)
<1> DEFINE u == [[r EXCEPT !.deps = @ - 1] EXCEPT !.tracking = @ \ {id}]
           q == [u EXCEPT !.watcher = FALSE]
           c == [q EXCEPT !.caller = FALSE]
<1>0. r.deps - 1 = 0 /\ r.tracking \ {id} = {} OBVIOUS
<1> DEFINE v == [r EXCEPT !.deps = 0, !.tracking = {}]
<1>1. u = v BY <1>0
<1>a. 0 \in Nat /\ {} \in SUBSET Dep OBVIOUS
<1>b. /\ v \in Globals /\ ~v.abort /\ ~v.threw /\ ~v.called /\ ~v.initialized
      /\ ~v.runTimer /\ v.ready = 0 /\ v.linked
      /\ v.deps = 0 /\ v.tracking = {} /\ v.caller
  BY <1>a DEF Globals, Idle
<1> HIDE DEF v
<1>3. RemoveRunDependency(r, id) =
        IF u.deps # 0 THEN u ELSE IF ~u.caller THEN q ELSE RunCaller(c)
  BY DEF RemoveRunDependency
<1> HIDE DEF u
<1>2. /\ u \in Globals /\ ~u.abort /\ ~u.threw /\ Idle(u) /\ u.linked
      /\ u.deps = 0 /\ u.tracking = {} /\ u.caller
  BY <1>1, <1>b DEF Idle
<1>4. RemoveRunDependency(r, id) = RunCaller(c) BY <1>2, <1>3
<1>5. /\ q \in Globals /\ ~q.abort /\ ~q.threw /\ Idle(q) /\ q.linked
      /\ q.deps = 0 /\ q.tracking = {}
  BY <1>2 DEF Globals, Idle
<1> HIDE DEF q
<1>6. /\ c \in Globals /\ ~c.abort /\ ~c.threw /\ Idle(c) /\ c.linked
      /\ c.deps = 0 /\ c.tracking = {}
  BY <1>5 DEF Globals, Idle
<1> HIDE DEF c
<1> QED BY <1>4, <1>6, RunSettles

LEMMA RemoveOther ==
  ASSUME NEW r \in Globals, ~r.abort, ~r.threw, Settled(r),
         NEW id \in r.tracking, r.deps # 1
  PROVE  LET n == RemoveRunDependency(r, id)
         IN  n \in Globals /\ ~n.threw /\ ~n.abort /\ Settled(n)
<1> DEFINE u == [[r EXCEPT !.deps = @ - 1] EXCEPT !.tracking = @ \ {id}]
<1>1. IsFiniteSet(r.tracking)
  <2>1. IsFiniteSet(PreRunDeps) BY DepAssumption
  <2>2. IsFiniteSet(PreRunDeps \cup {Wasm}) BY <2>1, FS_AddElement
  <2>3. r.tracking \subseteq PreRunDeps \cup {Wasm} BY DEF Globals, Dep
  <2> QED BY <2>2, <2>3, FS_Subset
<1>2. /\ IsFiniteSet(r.tracking \ {id})
      /\ Cardinality(r.tracking \ {id}) = Cardinality(r.tracking) - 1
      /\ Cardinality(r.tracking \ {id}) \in Nat
  BY <1>1, FS_RemoveElement, FS_CardinalityType
<1>3. r.deps = Cardinality(r.tracking) /\ r.deps \in Nat BY DEF Settled, Globals
<1>4. r.tracking \ {id} # {} BY <1>2, <1>3, FS_EmptySet
<1>5. r.deps - 1 \in Nat /\ r.deps - 1 # 0 BY <1>2, <1>3
<1>6. u = [r EXCEPT !.deps = r.deps - 1, !.tracking = r.tracking \ {id}]
  OBVIOUS
<1>7. /\ u \in Globals /\ u.deps = r.deps - 1 /\ u.tracking = r.tracking \ {id}
      /\ ~u.threw /\ ~u.abort /\ u.linked = r.linked /\ u.preRun = r.preRun
      /\ u.called = r.called /\ u.initialized = r.initialized /\ u.ready = r.ready
      /\ u.caller = r.caller /\ u.runTimer = r.runTimer /\ u.cookie = r.cookie
  BY <1>5, <1>6 DEF Globals
<1>8. RemoveRunDependency(r, id) = u BY <1>5, <1>7 DEF RemoveRunDependency
<1> HIDE DEF u
<1>9. Waiting(r) /\ ~r.runTimer BY DEF Settled, Waiting, Running
<1>10. Waiting(u) BY <1>4, <1>7, <1>9 DEF Waiting
<1> QED BY <1>2, <1>3, <1>7, <1>8, <1>10 DEF Settled

-----------------------------------------------------------------------------
(* Tasks. *)

LEMMA TaskKeeps ==
  ASSUME NEW r \in Globals, Task(r)
  PROVE  /\ rt' \in Globals /\ ~rt'.threw
         /\ rt'.abort = r.abort /\ rt'.ready = r.ready
         /\ (Fresh(r) => Fresh(rt')) /\ (Loading(r) => Loading(rt'))
         /\ (Settled(r) => Settled(rt')) /\ (Failed(r) => Failed(rt'))
<1> DEFINE n == [r EXCEPT !.threw = FALSE]
<1>1. rt' = n BY DEF Task
<1>2. n \in Globals /\ ~n.threw BY DEF Globals
<1>3. /\ n.abort = r.abort /\ n.ready = r.ready /\ n.called = r.called
      /\ n.initialized = r.initialized /\ n.runTimer = r.runTimer /\ n.deps = r.deps
      /\ n.tracking = r.tracking /\ n.linked = r.linked /\ n.trueModule = r.trueModule
      /\ n.caller = r.caller /\ n.cookie = r.cookie /\ n.preRun = r.preRun
  BY DEF Globals
<1> HIDE DEF n
<1>5. Idle(r) => Idle(n) BY <1>3 DEF Idle
<1>6. (Fresh(r) => Fresh(n)) /\ (Loading(r) => Loading(n)) /\ (Failed(r) => Failed(n))
  BY <1>3, <1>5 DEF Fresh, Loading, Failed
<1>7. Settled(r) => Settled(n) BY <1>3 DEF Settled, Waiting, Running
<1> QED BY <1>1, <1>2, <1>3, <1>6, <1>7

LEMMA AbortKeeps ==
  ASSUME NEW r \in Globals
  PROVE  /\ Abort(r) \in Globals /\ Abort(r).ready = r.ready
         /\ Fresh(r) \/ Loading(r) \/ Failed(r) => Failed(Abort(r))
         /\ Settled(r) /\ r.called => Settled(Abort(r))
<1> DEFINE n == Abort(r)
<1>1. /\ n \in Globals /\ n.ready = r.ready /\ n.called = r.called
      /\ n.initialized = r.initialized /\ n.runTimer = r.runTimer /\ n.deps = r.deps
      /\ n.tracking = r.tracking /\ n.linked = r.linked /\ n.preRun = r.preRun
  BY DEF Globals, Abort
<1> HIDE DEF n
<1>2. Cardinality({}) = 0 /\ Cardinality({Wasm}) = 1 BY FS_EmptySet, FS_Singleton
<1>3. Fresh(r) \/ Loading(r) \/ Failed(r) => Failed(n)
  BY <1>1, <1>2 DEF Fresh, Loading, Failed, Idle
<1>4. Settled(r) /\ r.called => Settled(n)
  BY <1>1 DEF Settled, Waiting, Running
<1> QED BY <1>1, <1>3, <1>4 DEF n

(* What a task of the runtime must show: the page keeps up with it.        *)
LEMMA PageFollows ==
  ASSUME Inv, RtTypeOK', RunInv', Handler, UNCHANGED <<chains, count, heap, broken>>,
         rt'.ready >= rt.ready,
         rt'.abort => (rt.abort /\ load' = load) \/ load' = "failed"
  PROVE  Inv'
<1>1. rt.ready \in 0..1 /\ rt'.ready \in 0..1 BY DEF Inv, TypeOK, RtTypeOK
<1>2. camera' = IF rt'.ready > rt.ready THEN "asked" ELSE camera BY DEF Handler
<1>3. TypeOK' BY <1>2 DEF Inv, TypeOK
<1>4. rt.ready = 1 => rt'.ready = 1 BY <1>1
<1>5. (camera' # "off" => rt'.ready = 1) /\ (chains' > 0 => rt'.ready = 1)
  BY <1>1, <1>2, <1>4 DEF Inv, CameraInv
<1>6. (rt'.abort => load' = "failed" \/ broken' > 0) /\ heap' = broken'
  BY DEF Inv, CameraInv
<1> QED BY <1>3, <1>5, <1>6 DEF Inv, CameraInv

LEMMA PageInit == Init => Inv
<1> SUFFICES ASSUME Init PROVE Inv OBVIOUS
<1>1. rt \in Globals /\ ~rt.threw /\ Fresh(rt) /\ load = "start"
  <2>1. 0 \in Nat /\ 0 \in 0..1 OBVIOUS
  <2> QED BY <2>1 DEF Init, RtInit, Globals, Fresh, Idle
<1>2. RtTypeOK BY <1>1, AsGlobals DEF Loads
<1>3. 0 \in 0..MaxChains /\ 0 \in 0..Period /\ 0 \in 0..HeapSlots
  BY PageAssumption DEF Period
<1>4. TypeOK BY <1>2, <1>3 DEF Init, TypeOK
<1>5. RunInv BY <1>1 DEF RunInv
<1>6. CameraInv BY <1>1 DEF Init, CameraInv, Fresh
<1> QED BY <1>4, <1>5, <1>6 DEF Inv

LEMMA Before ==
  ASSUME Inv
  PROVE  /\ rt \in Globals /\ ~rt.threw /\ load \in Loads
         /\ rt.ready \in 0..1 /\ (rt.ready = 1 => load = "ready" /\ rt.called)
<1>1. rt \in Globals /\ ~rt.threw /\ load \in Loads BY AsGlobals DEF Inv, TypeOK
<1>2. rt.ready \in 0..1 BY <1>1 DEF Globals
<1>3. load # "ready" => rt.ready = 0
  BY <1>1 DEF Inv, RunInv, Fresh, Loading, Failed, Idle, Loads
<1>4. load = "ready" => rt.called \/ rt.ready = 0
  BY DEF Inv, RunInv, Settled, Waiting, Running
<1> QED BY <1>1, <1>2, <1>3, <1>4

LEMMA RuntimeStill ==
  ASSUME Inv, UNCHANGED <<rt, load>> PROVE RtTypeOK' /\ RunInv'
<1>1. RtTypeOK' BY Before, AsGlobalsNext
<1>2. RunInv' BY DEF Inv, RunInv
<1> QED BY <1>1, <1>2

(* The script, from its first line to its last. *)
LEMMA ScriptKeeps == ASSUME Inv, Script, Handler, UNCHANGED <<chains, count, heap, broken>>
                     PROVE  Inv'
<1> DEFINE a == [[[rt EXCEPT !.deps = @ + 1] EXCEPT !.tracking = @ \cup {Wasm}, !.watcher = TRUE]
                   EXCEPT !.trueModule = TRUE]
           n == [a EXCEPT !.caller = TRUE]
<1>1. /\ load = "start" /\ load' \in {"fetch", "fetch2"}
      /\ Task(Run([Asm(rt) EXCEPT !.caller = TRUE]))
      /\ rt \in Globals /\ ~rt.threw /\ Fresh(rt)
  BY Before DEF Script, Inv, RunInv
<1>2. Asm(rt) = a
  BY <1>1 DEF Asm, CreateWasm, AddRunDependency, Fresh
<1>3. rt.deps + 1 = 1 /\ rt.tracking \cup {Wasm} = {Wasm} /\ {Wasm} \in SUBSET Dep
  BY <1>1 DEF Fresh, Dep
<1>4. a = [rt EXCEPT !.deps = 1, !.tracking = {Wasm}, !.watcher = TRUE, !.trueModule = TRUE]
  BY <1>3
<1> DEFINE v == [rt EXCEPT !.deps = 1, !.tracking = {Wasm}, !.watcher = TRUE,
                           !.trueModule = TRUE, !.caller = TRUE]
<1>5. n = v BY <1>4
<1>a. /\ v \in Globals /\ v.deps = 1 /\ v.tracking = {Wasm} /\ v.caller /\ v.trueModule
      /\ v.abort = rt.abort /\ v.linked = rt.linked /\ v.called = rt.called
      /\ v.initialized = rt.initialized /\ v.runTimer = rt.runTimer /\ v.ready = rt.ready
  BY <1>1, <1>3 DEF Globals
<1> HIDE DEF a, n, v
<1>6. n \in Globals /\ Loading(n) /\ ~n.abort /\ n.deps > 0 /\ n.ready = 0
  BY <1>1, <1>5, <1>a DEF Loading, Idle, Fresh
<1>7. Run(n) = n BY <1>6 DEF Run
<1>8. Task(n) BY <1>1, <1>2, <1>7 DEF n
<1>9. /\ rt' \in Globals /\ ~rt'.threw /\ ~rt'.abort /\ rt'.ready = 0 /\ Loading(rt')
  BY <1>6, <1>8, TaskKeeps
<1>10. load' \in Loads BY <1>1 DEF Loads
<1>11. RtTypeOK' BY <1>9, <1>10, AsGlobalsNext
<1>12. RunInv' BY <1>1, <1>9 DEF RunInv
<1>13. rt'.ready >= rt.ready BY <1>1, <1>9 DEF Fresh, Idle
<1> QED BY <1>9, <1>11, <1>12, <1>13, PageFollows

(* A load that fails, in the script or after it. *)
LEMMA FailedKeeps ==
  ASSUME Inv, Handler, UNCHANGED <<chains, count, heap, broken>>,
         load \in {"start", "fetch2", "compile2"}, load' = "failed", Task(Abort(rt))
  PROVE  Inv'
<1>1. rt \in Globals /\ (Fresh(rt) \/ Loading(rt)) BY Before DEF Inv, RunInv
<1>2. Abort(rt) \in Globals /\ Abort(rt).ready = rt.ready /\ Failed(Abort(rt))
  BY <1>1, AbortKeeps
<1>3. rt' \in Globals /\ ~rt'.threw /\ rt'.ready = rt.ready /\ Failed(rt')
  BY <1>2, TaskKeeps
<1>4. RtTypeOK' BY <1>3, AsGlobalsNext DEF Loads
<1>5. RunInv' BY <1>3 DEF RunInv
<1>6. rt'.ready >= rt.ready BY <1>3, Before
<1> QED BY <1>4, <1>5, <1>6, PageFollows

(* The instance comes. *)
LEMMA ReceivedKeeps ==
  ASSUME Inv, Received, load \in {"compile", "compile2"}, Handler,
         UNCHANGED <<chains, count, heap, broken>>
  PROVE  Inv'
<1> DEFINE c == [rt EXCEPT !.trueModule = FALSE]
           l == [c EXCEPT !.linked = TRUE]
           n == RemoveRunDependency(l, Wasm)
<1>1. rt \in Globals /\ ~rt.threw /\ Loading(rt) /\ ~rt.abort
  BY Before DEF Inv, RunInv
<1>2. ReceiveInstantiatedSource(rt) = n
  BY <1>1 DEF ReceiveInstantiatedSource, ReceiveInstance, Assert, Loading
<1>a. /\ c \in Globals /\ ~c.abort /\ ~c.threw /\ ~c.called /\ ~c.initialized
      /\ ~c.runTimer /\ c.ready = 0 /\ c.caller /\ c.tracking = {Wasm} /\ c.deps = 1
  BY <1>1 DEF Globals, Loading, Idle
<1> HIDE DEF c, n
<1>3. /\ l \in Globals /\ ~l.abort /\ ~l.threw /\ Idle(l) /\ l.linked /\ l.caller
      /\ l.tracking = {Wasm} /\ l.deps = 1
  BY <1>a DEF Globals, Idle
<1>4. Wasm \in Dep BY DEF Dep
<1> HIDE DEF l
<1>5. n \in Globals /\ ~n.threw /\ ~n.abort /\ Settled(n)
  BY <1>3, <1>4, RemoveLast DEF n
<1>6. Task(n) /\ load' = "ready" BY <1>2 DEF Received
<1>7. rt' \in Globals /\ ~rt'.threw /\ ~rt'.abort /\ Settled(rt')
  BY <1>5, <1>6, TaskKeeps
<1>8. RtTypeOK' BY <1>6, <1>7, AsGlobalsNext DEF Loads
<1>9. RunInv' BY <1>6, <1>7 DEF RunInv
<1>10. rt.ready = 0 /\ rt'.ready \in 0..1 BY <1>1, <1>7 DEF Loading, Idle, Globals
<1> QED BY <1>7, <1>8, <1>9, <1>10, PageFollows

LEMMA LoadKeeps == ASSUME Inv, Load PROVE Inv'
<1>1. Handler /\ UNCHANGED <<chains, count, heap, broken>> BY DEF Load
<1>2. ASSUME UNCHANGED rt, load \in {"fetch", "compile", "fetch2"},
             load' \in {"compile", "lost", "fetch2", "compile2"}
      PROVE  Inv'
  <2>1. RtTypeOK' BY <1>2, Before, AsGlobalsNext DEF Loads
  <2>2. RunInv' BY <1>2 DEF Inv, RunInv
  <2>3. ~rt'.abort /\ rt'.ready >= rt.ready BY <1>2, Before DEF Inv, RunInv
  <2> QED BY <1>1, <2>1, <2>2, <2>3, PageFollows
<1>3. CASE Script BY <1>1, <1>3, ScriptKeeps
<1>4. CASE ScriptRefused
  <2>1. TakeOptions(rt) = Abort(rt)
    BY <1>4, Before DEF ScriptRefused, TakeOptions, Assert
  <2> QED BY <1>1, <1>4, <2>1, FailedKeeps DEF ScriptRefused
<1>5. CASE ScriptUnsupported BY <1>1, <1>5, FailedKeeps DEF ScriptUnsupported
<1>6. CASE Fetched \/ CompileFailed \/ GotBinary
  BY <1>2, <1>6 DEF Fetched, CompileFailed, GotBinary
<1>7. CASE Compiled \/ Compiled2 BY <1>1, <1>7, ReceivedKeeps DEF Compiled, Compiled2
<1>8. CASE GetBinaryFailed
  <2>1. Abort(Abort(rt)) = Abort(rt)
    <3> DEFINE b == Abort(rt)
    <3>1. b \in Globals /\ b.abort = TRUE /\ b.threw = TRUE BY Before DEF Abort, Globals
    <3> HIDE DEF b
    <3>2. Abort(b) = b BY <3>1 DEF Abort, Globals
    <3> QED BY <3>2 DEF b
  <2> QED BY <1>1, <1>8, <2>1, FailedKeeps DEF GetBinaryFailed
<1>9. CASE CompileFailed2 BY <1>1, <1>9, FailedKeeps DEF CompileFailed2
<1> QED BY <1>3, <1>4, <1>5, <1>6, <1>7, <1>8, <1>9 DEF Load, LoadNext

LEMMA TaskStepKeeps == ASSUME Inv, RuntimeTask PROVE Inv'
<1>1. Handler /\ UNCHANGED <<chains, count, heap, broken>> BY DEF RuntimeTask
<1>2. /\ rt \in Globals /\ ~rt.threw /\ load \in Loads /\ rt.ready \in 0..1
      /\ (load = "ready" => Settled(rt))
  BY Before DEF Inv, RunInv
<1>3. ASSUME NEW n \in Globals, Task(n), load = "ready", UNCHANGED load, Settled(n),
             n.abort => rt.abort, n.ready >= rt.ready
      PROVE  Inv'
  <2>1. /\ rt' \in Globals /\ ~rt'.threw /\ rt'.abort = n.abort /\ rt'.ready = n.ready
        /\ Settled(rt')
    BY <1>3, TaskKeeps
  <2>2. RtTypeOK' BY <1>2, <1>3, <2>1, AsGlobalsNext
  <2>3. RunInv' BY <1>3, <2>1 DEF RunInv
  <2> QED BY <1>1, <1>3, <2>1, <2>2, <2>3, PageFollows
<1>4. CASE RunTimer
  <2> DEFINE c == [rt EXCEPT !.runTimer = FALSE]
             n == DoRun(c)
  <2>1. rt.runTimer /\ Task(n) /\ UNCHANGED load BY <1>4 DEF RunTimer
  <2>2. load = "ready"
    BY <1>2, <2>1 DEF Inv, RunInv, Fresh, Loading, Failed, Idle, Loads
  <2>3. Settled(rt) /\ Waiting(rt) /\ rt.cookie BY <1>2, <2>1, <2>2 DEF Settled, Waiting, Running
  <2>4. /\ c \in Globals /\ ~c.abort /\ ~c.threw /\ c.cookie /\ Idle(c)
        /\ c.linked = rt.linked /\ c.preRun = rt.preRun /\ c.tracking = rt.tracking
        /\ c.deps = rt.deps
    BY <1>2, <2>3 DEF Waiting, Idle, Globals
  <2> HIDE DEF c
  <2>5. /\ n \in Globals /\ ~n.abort /\ n.called /\ n.initialized /\ ~n.runTimer
        /\ n.linked = rt.linked /\ n.preRun = rt.preRun /\ n.tracking = rt.tracking
        /\ n.deps = rt.deps
    BY <2>4, DoRunRuns
  <2> HIDE DEF n
  <2>6. Settled(n) BY <2>1, <2>3, <2>5 DEF Settled, Waiting, Running
  <2>7. n.ready >= rt.ready BY <2>3, <2>5 DEF Waiting, Globals
  <2> QED BY <1>3, <2>1, <2>2, <2>5, <2>6, <2>7
<1>5. CASE DataArrives
  <2>1. PICK id \in PreRunDeps \cap rt.tracking :
          Task(RemoveRunDependency(rt, id)) /\ UNCHANGED load
    BY <1>5 DEF DataArrives
  <2> DEFINE n == RemoveRunDependency(rt, id)
  <2>2. id # Wasm /\ id \in Dep BY DepAssumption DEF Dep
  <2>3. load = "ready"
    BY <1>2, <2>2 DEF Inv, RunInv, Fresh, Loading, Failed, Loads
  <2>4. Settled(rt) /\ Waiting(rt) /\ ~rt.abort /\ rt.linked
    BY <1>2, <2>3 DEF Settled, Waiting, Running
  <2>5. n \in Globals /\ ~n.threw /\ ~n.abort /\ Settled(n)
    <3>1. CASE rt.deps = 1
      <4>1. rt.tracking = {id}
        <5>1. Cardinality(rt.tracking) = 1 /\ IsFiniteSet(PreRunDeps)
          BY <2>4, <3>1, DepAssumption DEF Settled
        <5>2. rt.tracking \subseteq PreRunDeps BY <1>2, <2>4 DEF Settled, Globals, Dep
        <5>3. IsFiniteSet(rt.tracking) BY <5>1, <5>2, FS_Subset
        <5>4. PICK x : rt.tracking = {x} BY <5>1, <5>3, FS_Singleton
        <5> QED BY <5>4
      <4>2. Idle(rt) /\ rt.caller BY <2>4, <4>1 DEF Waiting, Idle
      <4> QED BY <1>2, <2>2, <2>4, <3>1, <4>1, <4>2, RemoveLast
    <3>2. CASE rt.deps # 1 BY <1>2, <2>4, <3>2, RemoveOther
    <3> QED BY <3>1, <3>2
  <2> HIDE DEF n
  <2>6. rt.ready = 0 /\ n.ready \in 0..1 BY <2>4, <2>5 DEF Waiting, Globals
  <2> QED BY <1>3, <2>1, <2>3, <2>5, <2>6 DEF n
<1>6. CASE WatcherTick
  <2> DEFINE n == [rt EXCEPT !.watcher = FALSE]
  <2>1. Task(n) /\ UNCHANGED load /\ n \in Globals
    BY <1>2, <1>6 DEF WatcherTick, Globals
  <2>2. /\ n.abort = rt.abort /\ n.ready = rt.ready
        /\ (Fresh(rt) => Fresh(n)) /\ (Loading(rt) => Loading(n))
        /\ (Settled(rt) => Settled(n)) /\ (Failed(rt) => Failed(n))
    BY <1>2 DEF Globals, Fresh, Loading, Failed, Idle, Settled, Waiting, Running
  <2> HIDE DEF n
  <2>3. /\ rt' \in Globals /\ ~rt'.threw /\ rt'.abort = rt.abort /\ rt'.ready = rt.ready
        /\ (Fresh(rt) => Fresh(rt')) /\ (Loading(rt) => Loading(rt'))
        /\ (Settled(rt) => Settled(rt')) /\ (Failed(rt) => Failed(rt'))
    BY <2>1, <2>2, TaskKeeps
  <2>4. RtTypeOK' BY <1>2, <2>1, <2>3, AsGlobalsNext
  <2>5. RunInv' BY <2>1, <2>3 DEF Inv, RunInv
  <2>6. rt'.ready >= rt.ready BY <1>2, <2>3
  <2> QED BY <1>1, <2>1, <2>3, <2>4, <2>5, <2>6, PageFollows
<1> QED BY <1>4, <1>5, <1>6 DEF RuntimeTask

LEMMA HandlerSetKeeps == ASSUME Inv, InlineScript PROVE Inv'
<1> DEFINE n == [rt EXCEPT !.handler = TRUE]
<1>1. Task(n) /\ UNCHANGED load /\ UNCHANGED pageVars BY DEF InlineScript, SetHandler
<1>2. rt \in Globals /\ load \in Loads /\ rt.ready \in 0..1 BY Before
<1>3. n \in Globals BY <1>2 DEF Globals
<1>4. /\ n.abort = rt.abort /\ n.ready = rt.ready
      /\ (Fresh(rt) => Fresh(n)) /\ (Loading(rt) => Loading(n))
      /\ (Settled(rt) => Settled(n)) /\ (Failed(rt) => Failed(n))
  BY <1>2 DEF Globals, Fresh, Loading, Failed, Idle, Settled, Waiting, Running
<1> HIDE DEF n
<1>5. /\ rt' \in Globals /\ ~rt'.threw /\ rt'.abort = rt.abort /\ rt'.ready = rt.ready
      /\ (Fresh(rt) => Fresh(rt')) /\ (Loading(rt) => Loading(rt'))
      /\ (Settled(rt) => Settled(rt')) /\ (Failed(rt) => Failed(rt'))
  BY <1>1, <1>3, <1>4, TaskKeeps
<1>6. RtTypeOK' BY <1>1, <1>2, <1>5, AsGlobalsNext
<1>7. RunInv' BY <1>1, <1>5 DEF Inv, RunInv
<1>8. TypeOK' BY <1>1, <1>6 DEF Inv, TypeOK, pageVars
<1>9. CameraInv' BY <1>1, <1>5 DEF Inv, CameraInv, pageVars
<1> QED BY <1>7, <1>8, <1>9 DEF Inv

(* The page. *)
LEMMA FrameKeeps == ASSUME Inv, FrameStep PROVE Inv'
<1>1. chains > 0 /\ chains' = chains /\ UNCHANGED <<load, camera>> BY DEF FrameStep
<1>2. rt \in Globals /\ ~rt.threw /\ load = "ready" /\ rt.called /\ rt.ready = 1
  BY <1>1, Before DEF Inv, CameraInv
<1>3. Settled(rt) /\ rt.initialized
  BY <1>2 DEF Inv, RunInv, Settled, Waiting, Running
<1>4. heap \in 0..HeapSlots /\ broken \in Nat /\ heap = broken /\ count \in 0..Period
      /\ HeapSlots \in Nat /\ HeapSlots # 0
  BY PageAssumption DEF Inv, TypeOK, CameraInv
<1>5. CASE UNCHANGED <<rt, heap, broken>> /\ count' \in 0..Period
  BY <1>1, <1>5, RuntimeStill DEF Inv, TypeOK, CameraInv
<1>6. ASSUME count' \in 0..Period, UNCHANGED rt \/ Task(Abort(rt)),
             heap' \in 0..HeapSlots, broken' = heap', broken' > 0
      PROVE  Inv'
  <2>1. /\ rt' \in Globals /\ ~rt'.threw /\ rt'.ready = 1 /\ Settled(rt')
    <3>1. CASE UNCHANGED rt BY <1>2, <1>3, <3>1
    <3>2. CASE Task(Abort(rt)) BY <1>2, <1>3, <3>2, AbortKeeps, TaskKeeps
    <3> QED BY <1>6, <3>1, <3>2
  <2>2. RtTypeOK' BY <1>1, <1>2, <2>1, AsGlobalsNext DEF Loads
  <2>3. broken' \in Nat BY <1>6
  <2>4. TypeOK' BY <1>1, <1>6, <2>2, <2>3 DEF Inv, TypeOK
  <2>5. RunInv' BY <1>1, <1>2, <2>1 DEF RunInv
  <2>6. CameraInv' BY <1>6, <2>1 DEF CameraInv
  <2> QED BY <2>4, <2>5, <2>6 DEF Inv
<1>7. ~Export(rt).threw BY <1>2, <1>3 DEF Export, Assert
<1>8. CASE count + 1 > Period
  <2>1. count' = 0 /\ DetectSymbols BY <1>8 DEF FrameStep
  <2>2. count' \in 0..Period BY <2>1 DEF Period
  <2>3. CASE HeapFull /\ Task(Abort(rt)) /\ UNCHANGED <<heap, broken>>
    <3>0. heap = HeapSlots /\ heap' = heap /\ broken' = broken BY <2>3 DEF HeapFull
    <3>a. HeapSlots > 0 BY <1>4
    <3>1. /\ heap' \in 0..HeapSlots /\ broken' = heap' /\ broken' > 0
      BY <1>4, <3>0, <3>a
    <3> QED BY <1>6, <2>2, <2>3, <3>1
  <2>4. CASE /\ ~HeapFull /\ (UNCHANGED rt \/ Task(Abort(rt)))
             /\ heap' = heap + 1 /\ broken' = broken + 1
    <3>1. /\ heap' \in 0..HeapSlots /\ broken' = heap' /\ broken' > 0
      BY <1>4, <2>4 DEF HeapFull
    <3> QED BY <1>6, <2>2, <2>4, <3>1
  <2>5. CASE UNCHANGED <<rt, heap, broken>> BY <1>5, <2>2, <2>5
  <2> QED BY <1>7, <2>1, <2>3, <2>4, <2>5 DEF DetectSymbols
<1>9. CASE ~(count + 1 > Period)
  <2>1. count' = count + 1 /\ UNCHANGED <<rt, heap, broken>> BY <1>9 DEF FrameStep
  <2>2. count' \in 0..Period BY <1>4, <1>9, <2>1 DEF Period
  <2> QED BY <1>5, <2>1, <2>2
<1> QED BY <1>8, <1>9

LEMMA CameraKeeps == ASSUME Inv, CameraAnswers \/ Play PROVE Inv'
<1>1. CASE CameraAnswers
  <2>1. /\ camera = "asked" /\ camera' \in {"on", "refused"}
        /\ UNCHANGED <<rt, load, chains, count, heap, broken>>
    BY <1>1 DEF CameraAnswers
  <2> QED BY <2>1, RuntimeStill DEF Inv, TypeOK, CameraInv
<1>2. CASE Play
  <2>1. chains' \in 0..MaxChains BY <1>2, PageAssumption DEF Play, Inv, TypeOK
  <2>2. rt.ready = 1 BY <1>2 DEF Play, Inv, CameraInv
  <2> QED BY <1>2, <2>1, <2>2, RuntimeStill DEF Play, Inv, TypeOK, CameraInv
<1> QED BY <1>1, <1>2

-----------------------------------------------------------------------------
LEMMA PageInductive == Spec => []Inv
<1>1. Inv /\ [Next]_vars => Inv'
  <2> SUFFICES ASSUME Inv, [Next]_vars PROVE Inv' OBVIOUS
  <2>1. CASE UNCHANGED vars
    BY <2>1, RuntimeStill DEF vars, Inv, TypeOK, CameraInv
  <2> QED BY <2>1, HandlerSetKeeps, LoadKeeps, TaskStepKeeps, FrameKeeps, CameraKeeps DEF Next
<1> QED BY <1>1, PageInit, PTL DEF Spec

(* The globals of a.out.js and of the page keep their types; no exception  *)
(* stays on its way past its task.                                         *)
THEOREM PageTypeCorrect == Spec => []TypeOK
<1>1. Inv => TypeOK BY DEF Inv
<1> QED BY <1>1, PageInductive, PTL

(* runDependencies and runDependencyTracking never disagree, whatever a    *)
(* preRun hook adds and in whatever order the data and the instance come.  *)
THEOREM DependenciesCounted == Spec => []DepsCounted
<1>1. Inv => DepsCounted
  <2> SUFFICES ASSUME Inv PROVE rt.deps = Cardinality(rt.tracking) BY DEF DepsCounted
  <2>1. Cardinality({}) = 0 /\ Cardinality({Wasm}) = 1 BY FS_EmptySet, FS_Singleton
  <2> QED BY <2>1, Before DEF Inv, RunInv, Fresh, Loading, Failed, Settled, Loads
<1> QED BY <1>1, PageInductive, PTL

(* No call reaches the compiled code before the instance is linked, every  *)
(* dependency is there and the runtime is initialised.                     *)
THEOREM NoCallTooEarly == Spec => []CodeAfterLink
<1>1. Inv => CodeAfterLink
  <2> SUFFICES ASSUME Inv PROVE CodeAfterLink OBVIOUS
  <2>1. load # "ready" => ~rt.initialized /\ rt.ready = 0
    BY Before DEF Inv, RunInv, Fresh, Loading, Failed, Idle, Loads
  <2>2. load = "ready" => /\ rt.initialized => rt.linked /\ rt.called /\ rt.tracking = {}
                          /\ rt.ready > 0 => rt.initialized
    BY Before DEF Inv, RunInv, Settled, Waiting, Running
  <2>3. rt.ready > 0 => rt.ready = 1 BY Before
  <2> QED BY <2>1, <2>2, <2>3 DEF CodeAfterLink
<1> QED BY <1>1, PageInductive, PTL

(* No assertion of the runtime fails whatever the order of the answers:    *)
(* only a failed load or a broken scan aborts it, and no frame is scanned  *)
(* before the handler has been called.                                     *)
THEOREM AbortsAreExplained == Spec => []NoStrayAbort
<1>1. Inv => NoStrayAbort
  <2> SUFFICES ASSUME Inv PROVE NoStrayAbort OBVIOUS
  <2>1. chains > 0 => rt.ready = 1 /\ load = "ready" /\ rt.called
    BY Before DEF Inv, CameraInv
  <2>2. load = "ready" /\ rt.called => rt.initialized
    BY DEF Inv, RunInv, Settled, Waiting, Running
  <2> QED BY <2>1, <2>2 DEF NoStrayAbort, Inv, CameraInv
<1> QED BY <1>1, PageInductive, PTL

-----------------------------------------------------------------------------
(* The barcode pages: one chain of scans, and the cameras that stay on.    *)

(* What the load of zxing.wasm has counted and started so far: a handler   *)
(* that throws leaves the dependency at zero and the load in "buffer".     *)
LoadInv ==
  /\ zx = "start" => deps = 0 /\ runs = 0
  /\ zx = "stream" => deps = 1 /\ runs = 0
  /\ zx = "buffer" => <<deps, runs>> \in {<<1, 0>>, <<0, 1>>}

(* Only the handler starts a chain, and only with a runtime.               *)
ScanInv ==
  /\ timers <= runs
  /\ timers > 0 => ZXing = "runtime"

(* In 1.html each camera that is on and not shown was left on by a call    *)
(* made while another was pending, or will be: each answer but the last    *)
(* puts the stream shown before it out of reach, and so does the last one  *)
(* if there is a stream now.                                               *)
LeftOn == Cardinality(live \ {stream})
Owed ==
  IF pending = {} THEN 0
  ELSE Cardinality(pending) - 1 + IF stream \in live THEN 1 ELSE 0

StreamInv == html = "1" => LeftOn + Owed <= crossed

PagesInv == CameraTypeOK /\ LoadInv /\ ScanInv /\ StreamInv

-----------------------------------------------------------------------------
LEMMA CameraInitially == CameraInit => PagesInv
<1> SUFFICES ASSUME CameraInit PROVE PagesInv OBVIOUS
<1>1. DOMAIN want = {} BY DEF CameraInit
<1>2. Cardinality({}) = 0 BY FS_EmptySet
<1>3. asked = 0 /\ 1..0 = {} BY <1>1, <1>2 DEF asked
<1>4. CameraTypeOK
  <2>1. 0 \in 0..MaxAsked /\ Requested \in Sizes BY CameraAssumption
  <2>2. /\ asked \in 0..MaxAsked /\ DOMAIN want = 1..asked
        /\ \A n \in DOMAIN want : want[n] \in Device \cup {NoDevice}
        /\ pending \subseteq DOMAIN want /\ live \subseteq DOMAIN want
    BY <1>1, <1>3, <2>1 DEF CameraInit
  <2>3. /\ deps \in -1..1 /\ runs \in 0..1 /\ timers \in Nat
        /\ size \in Sizes /\ stream \in {0} \cup DOMAIN want
    BY <2>1 DEF CameraInit
  <2>4. /\ zx \in {"start", "stream", "buffer", "ready", "failed"}
        /\ early \in BOOLEAN /\ aborted \in BOOLEAN /\ html \in Pages /\ page \in BOOLEAN
        /\ ZXing \in {"null", "runtime", "page"} /\ options \in BOOLEAN
        /\ selected \in Device \cup {NoDevice} /\ thrown \in BOOLEAN
    BY DEF CameraInit
  <2>5. crossed \in Nat BY DEF CameraInit
  <2> QED BY <2>2, <2>3, <2>4, <2>5 DEF CameraTypeOK
<1>5. LoadInv /\ ScanInv BY DEF CameraInit, LoadInv, ScanInv
<1>6. StreamInv
  <2>1. live = {} /\ pending = {} /\ crossed = 0 BY DEF CameraInit
  <2>2. live \ {stream} = {} BY <2>1
  <2> QED BY <1>2, <2>1, <2>2 DEF StreamInv, LeftOn, Owed
<1> QED BY <1>4, <1>5, <1>6 DEF PagesInv

LEMMA CamerasOnly ==
  ASSUME UNCHANGED camVars
  PROVE  /\ asked' = asked /\ (StreamInv /\ html' = html => StreamInv')
         /\ UNCHANGED <<options, selected, want, pending, live, stream, crossed>>
BY DEF camVars, asked, StreamInv, LeftOn, Owed

(* receiveInstance, and the handler it may call. *)
LEMMA ReceiveKeeps ==
  ASSUME PagesInv, NEW threw \in BOOLEAN, Receive(threw), zx \in {"stream", "buffer"}
  PROVE  /\ deps' \in -1..1 /\ runs' \in 0..1 /\ ZXing' \in {"null", "runtime", "page"}
         /\ timers' \in Nat /\ thrown' \in BOOLEAN
         /\ UNCHANGED <<early, html, page, size, camVars>>
         /\ deps' = deps - 1 /\ runs' = 1
         /\ ScanInv'
<1>1. /\ UNCHANGED <<early, html, page, size, camVars>> /\ deps' = deps - 1
      /\ deps \in -1..1 /\ runs \in 0..1
  BY DEF Receive, PagesInv, CameraTypeOK
<1>2. (deps = 1 /\ runs = 0) \/ (deps = 0 /\ runs = 1) BY DEF PagesInv, LoadInv
<1>3. timers \in Nat /\ timers <= runs BY DEF PagesInv, CameraTypeOK, ScanInv
<1>4. CASE deps = 1 /\ runs = 0
  <2>1. runs' = 1 /\ ZxingHandler(threw) /\ timers = 0
    BY <1>1, <1>3, <1>4 DEF Receive
  <2>2. CASE UNCHANGED <<ZXing, timers, thrown>>
    BY <1>1, <1>4, <2>1, <2>2 DEF PagesInv, CameraTypeOK, ScanInv
  <2>3. CASE OnRuntimeInitialized1(threw)
    <3>1. CASE early
      BY <1>1, <1>4, <2>1, <2>3, <3>1 DEF OnRuntimeInitialized1, PagesInv, CameraTypeOK, ScanInv
    <3>2. CASE ~early
      <4>1. /\ ZXing' = "runtime" /\ thrown' = (thrown \/ threw)
            /\ timers' = 0 + Scans("runtime", threw)
        BY <2>1, <2>3, <3>2 DEF OnRuntimeInitialized1
      <4>2. Scans("runtime", threw) \in {0, 1}
        BY DEF Scans, ScanBarcode, ScanBarcodeS1
      <4> QED BY <1>1, <1>4, <2>1, <4>1, <4>2 DEF PagesInv, CameraTypeOK, ScanInv
    <3> QED BY <3>1, <3>2
  <2> QED BY <2>1, <2>2, <2>3 DEF ZxingHandler, OnRuntimeInitializedS1
<1>5. CASE deps = 0 /\ runs = 1
  <2>1. UNCHANGED <<runs, ZXing, timers, thrown>>
    BY <1>5 DEF Receive
  <2> QED BY <1>1, <1>5, <2>1 DEF PagesInv, CameraTypeOK, ScanInv
<1> QED BY <1>2, <1>4, <1>5

LEMMA ScriptsKeep == ASSUME PagesInv, Scripts PROVE PagesInv'
<1>1. CASE StreamCompiled \/ BufferCompiled
  <2>1. PICK threw \in BOOLEAN :
          /\ Receive(threw)
          /\ \/ /\ zx = "stream" /\ zx' = IF threw THEN "buffer" ELSE "ready"
                /\ UNCHANGED aborted
             \/ /\ zx = "buffer" /\ zx' = IF threw THEN "failed" ELSE "ready"
                /\ aborted' = (aborted \/ threw)
    BY <1>1 DEF StreamCompiled, BufferCompiled
  <2>2. zx \in {"stream", "buffer"} BY <2>1
  <2>3. /\ deps' \in -1..1 /\ runs' \in 0..1 /\ ZXing' \in {"null", "runtime", "page"}
        /\ timers' \in Nat /\ thrown' \in BOOLEAN
        /\ UNCHANGED <<early, html, page, size, camVars>>
        /\ deps' = deps - 1 /\ runs' = 1 /\ ScanInv'
    BY <2>1, <2>2, ReceiveKeeps
  <2>4. zx' \in {"buffer", "ready", "failed"} /\ (zx' = "buffer" => zx = "stream")
    BY <2>1
  <2>5. LoadInv' BY <2>3, <2>4 DEF PagesInv, LoadInv
  <2>6. aborted' \in BOOLEAN BY <2>1 DEF PagesInv, CameraTypeOK
  <2> QED BY <2>3, <2>4, <2>5, <2>6, CamerasOnly DEF PagesInv, CameraTypeOK
<1>2. CASE ZxingScript
  <2>1. /\ zx' \in {"stream", "buffer"} /\ deps' = 1 /\ runs = 0 /\ early' = ~page
        /\ UNCHANGED <<runs, aborted, scanVars, camVars>>
    BY <1>2 DEF ZxingScript, PagesInv, LoadInv
  <2>2. CameraTypeOK' BY <2>1, CamerasOnly DEF PagesInv, CameraTypeOK, scanVars
  <2>3. LoadInv' /\ ScanInv' BY <2>1 DEF PagesInv, LoadInv, ScanInv, scanVars
  <2> QED BY <2>1, <2>2, <2>3, CamerasOnly DEF PagesInv, scanVars
<1>3. CASE StreamFailed
  <2>1. /\ zx = "stream" /\ zx' = "buffer"
        /\ UNCHANGED <<deps, runs, early, aborted, scanVars, camVars>>
    BY <1>3 DEF StreamFailed
  <2>2. CameraTypeOK' BY <2>1, CamerasOnly DEF PagesInv, CameraTypeOK, scanVars
  <2>3. LoadInv' /\ ScanInv' BY <2>1 DEF PagesInv, LoadInv, ScanInv, scanVars
  <2> QED BY <2>1, <2>2, <2>3, CamerasOnly DEF PagesInv, scanVars
<1>4. CASE BufferFailed
  BY <1>4, CamerasOnly DEF BufferFailed, PagesInv, CameraTypeOK, LoadInv, ScanInv, scanVars
<1>5. CASE VideoScript
  BY <1>5, CamerasOnly DEF VideoScript, PagesInv, CameraTypeOK, LoadInv, ScanInv, zxVars
<1> QED BY <1>1, <1>2, <1>3, <1>4, <1>5 DEF Scripts

LEMMA ScanKeeps == ASSUME PagesInv, ScanTimer PROVE PagesInv'
<1>1. PICK throws \in MayThrow : /\ timers' = timers - 1 + Scans(ZXing, throws)
                                /\ thrown' = (thrown \/ throws)
  BY DEF ScanTimer
<1>2. Scans(ZXing, throws) \in {0, 1} BY DEF Scans, ScanBarcode, ScanBarcodeS1
<1>3. timers > 0 /\ UNCHANGED <<zxVars, html, page, ZXing, size, camVars>>
  BY DEF ScanTimer
<1>4. timers' \in Nat /\ timers' <= timers /\ thrown' \in BOOLEAN
  BY <1>1, <1>2, <1>3 DEF PagesInv, CameraTypeOK, MayThrow
<1> QED BY <1>3, <1>4, CamerasOnly DEF PagesInv, CameraTypeOK, LoadInv, ScanInv, zxVars

-----------------------------------------------------------------------------
StreamNumbers ==
  /\ IsFiniteSet(pending) /\ IsFiniteSet(live)
  /\ Cardinality(pending) \in Nat /\ LeftOn \in Nat /\ Owed \in Nat
  /\ Cardinality(live) = LeftOn + IF stream \in live THEN 1 ELSE 0

LEMMA CountsAreNumbers == CameraTypeOK => StreamNumbers
<1> SUFFICES ASSUME CameraTypeOK PROVE StreamNumbers OBVIOUS
<1>1. IsFiniteSet(DOMAIN want)
  <2>1. asked \in Int /\ DOMAIN want = 1..asked
    BY CameraAssumption DEF CameraTypeOK
  <2> QED BY <2>1, FS_Interval
<1>2. IsFiniteSet(pending) /\ IsFiniteSet(live)
  BY <1>1, FS_Subset DEF CameraTypeOK
<1>3. Cardinality(pending) \in Nat BY <1>2, FS_CardinalityType
<1>4. LeftOn \in Nat /\ Cardinality(live) = LeftOn + IF stream \in live THEN 1 ELSE 0
  <2>1. IsFiniteSet(live \ {stream}) BY <1>2, FS_Difference
  <2>2. LeftOn \in Nat BY <2>1, FS_CardinalityType DEF LeftOn
  <2>3. CASE stream \in live
    <3>1. LeftOn = Cardinality(live) - 1
      BY <1>2, <2>3, FS_RemoveElement DEF LeftOn
    <3>2. Cardinality(live) \in Nat BY <1>2, FS_CardinalityType
    <3> QED BY <2>2, <2>3, <3>1, <3>2
  <2>4. CASE stream \notin live
    <3>1. live \ {stream} = live BY <2>4
    <3>2. LeftOn = Cardinality(live) BY <3>1 DEF LeftOn
    <3> QED BY <2>2, <2>4, <3>2
  <2> QED BY <2>3, <2>4
<1>5. Owed \in Nat
  <2>1. pending # {} => Cardinality(pending) # 0 BY <1>2, FS_EmptySet
  <2> QED BY <1>3, <2>1 DEF Owed
<1> QED BY <1>2, <1>3, <1>4, <1>5 DEF StreamNumbers

LEMMA CountsAreNumbersNext == CameraTypeOK' => StreamNumbers'
BY CountsAreNumbers, PTL

(* One answer less is awaited. *)
LEMMA OneLessPending ==
  ASSUME StreamNumbers, NEW n \in pending, pending' = pending \ {n}
  PROVE  /\ Cardinality(pending') = Cardinality(pending) - 1
         /\ Cardinality(pending) >= 1
         /\ pending' = {} => Cardinality(pending) = 1
<1>1. Cardinality(pending') = Cardinality(pending) - 1
  BY FS_RemoveElement DEF StreamNumbers
<1>2. pending' = {} => Cardinality(pending') = 0 BY FS_EmptySet
<1>3. Cardinality(pending) # 0 BY FS_EmptySet DEF StreamNumbers
<1> QED BY <1>1, <1>2, <1>3 DEF StreamNumbers

(* A call of getUserMedia, of either page. *)
LEMMA AskKeeps ==
  ASSUME PagesInv, NEW choice \in Device \cup {NoDevice}, AskFor(choice),
         UNCHANGED <<zxVars, scanVars, stream>>, options' \in BOOLEAN
  PROVE  PagesInv'
<1>1. /\ DOMAIN want = 1..asked /\ asked \in Nat /\ asked + 1 <= MaxAsked
      /\ MaxAsked \in Nat
  BY CameraAssumption DEF PagesInv, CameraTypeOK, AskFor
<1>2. PICK device \in Device \cup {NoDevice} :
        /\ Ask(device)
        /\ \/ html # "1" /\ UNCHANGED live
           \/ html = "1" /\ live' = live \ {stream}
  BY DEF AskFor, GetStream, GetStreamS1
<1>3. selected' = choice BY DEF AskFor
<1>4. /\ want' = [n \in DOMAIN want \cup {asked + 1} |->
                    IF n = asked + 1 THEN device ELSE want[n]]
      /\ pending' = pending \cup {asked + 1}
      /\ crossed' = crossed + IF pending = {} THEN 0 ELSE 1
  BY <1>2 DEF Ask
<1>5. DOMAIN want' = 1..(asked + 1)
  <2>1. DOMAIN want' = (1..asked) \cup {asked + 1} BY <1>1, <1>4
  <2> QED BY <1>1, <2>1
<1>6. asked' = asked + 1
  <2>1. asked' = Cardinality(DOMAIN want') BY DEF asked
  <2>2. Cardinality(1..(asked + 1)) = (asked + 1) - 1 + 1 BY <1>1, FS_Interval
  <2> QED BY <1>1, <1>5, <2>1, <2>2
<1>7. /\ asked' \in 0..MaxAsked /\ DOMAIN want' = 1..asked'
      /\ DOMAIN want \subseteq DOMAIN want' /\ asked + 1 \in DOMAIN want'
      /\ \A n \in DOMAIN want' : want'[n] \in Device \cup {NoDevice}
  BY <1>1, <1>4, <1>5, <1>6 DEF PagesInv, CameraTypeOK
<1>8. /\ pending' \subseteq DOMAIN want' /\ live' \subseteq DOMAIN want'
      /\ stream' \in {0} \cup DOMAIN want' /\ crossed' \in Nat
  BY <1>2, <1>4, <1>7 DEF PagesInv, CameraTypeOK
<1>9. CameraTypeOK'
  BY <1>3, <1>7, <1>8 DEF PagesInv, CameraTypeOK, zxVars, scanVars
<1>10. LoadInv' /\ ScanInv'
  BY DEF PagesInv, LoadInv, ScanInv, zxVars, scanVars
<1>11. StreamInv'
  <2> SUFFICES ASSUME html = "1" PROVE LeftOn' + Owed' <= crossed'
    BY DEF StreamInv, scanVars
  <2>1. /\ StreamNumbers /\ LeftOn + Owed <= crossed /\ crossed \in Nat
        /\ stream' = stream
    BY CountsAreNumbers DEF PagesInv, StreamInv, CameraTypeOK
  <2>2. live' = live \ {stream} BY <1>2
  <2>3. LeftOn' = LeftOn
    <3>1. live' \ {stream'} = live \ {stream} BY <2>1, <2>2
    <3> QED BY <3>1 DEF LeftOn
  <2>4. pending' # {} /\ stream' \notin live' BY <1>4, <2>1, <2>2
  <2>5. Cardinality(pending') = Cardinality(pending) + 1
    <3>1. asked + 1 \notin pending BY <1>1 DEF PagesInv, CameraTypeOK
    <3> QED BY <1>4, <2>1, <3>1, FS_AddElement DEF StreamNumbers
  <2>6. Owed' = Cardinality(pending)
    <3>1. Owed' = Cardinality(pending') - 1 + 0 BY <2>4 DEF Owed
    <3> QED BY <2>1, <2>5, <3>1 DEF StreamNumbers
  <2>7. CASE pending = {}
    <3>1. Cardinality(pending) = 0 BY <2>7, FS_EmptySet
    <3>2. Owed = 0 /\ crossed' = crossed BY <1>4, <2>1, <2>7 DEF Owed
    <3> QED BY <2>1, <2>3, <2>6, <3>1, <3>2 DEF StreamNumbers
  <2>8. CASE pending # {}
    <3>1. Owed >= Cardinality(pending) - 1 BY <2>1, <2>8 DEF Owed, StreamNumbers
    <3>2. crossed' = crossed + 1 BY <1>4, <2>8
    <3> QED BY <2>1, <2>3, <2>6, <3>1, <3>2 DEF StreamNumbers
  <2> QED BY <2>7, <2>8
<1> QED BY <1>9, <1>10, <1>11 DEF PagesInv

LEMMA CamerasKeep == ASSUME PagesInv, Cameras PROVE PagesInv'
<1>1. CASE GotDevices
  <2>1. PICK first \in Device \cup {NoDevice} : AskFor(first) BY <1>1 DEF GotDevices
  <2> QED BY <1>1, <2>1, AskKeeps DEF GotDevices
<1>2. CASE Change
  <2>1. PICK device \in Device : AskFor(device) BY <1>2 DEF Change
  <2>2. options' \in BOOLEAN /\ UNCHANGED <<zxVars, scanVars, stream>>
    BY <1>2 DEF Change, PagesInv, CameraTypeOK
  <2> QED BY <2>1, <2>2, AskKeeps
<1>3. CASE StreamArrives
  <2>1. PICK n \in pending :
          /\ pending' = pending \ {n} /\ live' = live \cup {n} /\ stream' = n
          /\ \/ html = "1" /\ UNCHANGED size
             \/ html # "1" /\ size' \in Sizes
    BY <1>3 DEF StreamArrives, GotStream, GotStreamS1
  <2>2. UNCHANGED <<zxVars, html, page, ZXing, timers, thrown, options, selected, want,
                    crossed>> /\ asked' = asked
    BY <1>3 DEF StreamArrives, asked
  <2>3. CameraTypeOK' BY <2>1, <2>2 DEF PagesInv, CameraTypeOK, zxVars
  <2>4. LoadInv' /\ ScanInv'
    BY <2>1, <2>2 DEF PagesInv, LoadInv, ScanInv, zxVars
  <2>5. StreamInv'
    <3> SUFFICES ASSUME html = "1" PROVE LeftOn' + Owed' <= crossed'
      BY <2>2 DEF StreamInv
    <3>1. /\ StreamNumbers /\ LeftOn + Owed <= crossed /\ crossed \in Nat
          /\ crossed' = crossed
      BY <2>2, CountsAreNumbers DEF PagesInv, StreamInv, CameraTypeOK
    <3>2. /\ Cardinality(pending') = Cardinality(pending) - 1
          /\ pending' = {} => Cardinality(pending) = 1
      BY <2>1, <3>1, OneLessPending
    <3>3. LeftOn' <= Cardinality(live)
      <4>1. live' \ {stream'} \subseteq live BY <2>1
      <4> QED BY <3>1, <4>1, FS_Subset DEF LeftOn, StreamNumbers
    <3>4. StreamNumbers' BY <2>3, CountsAreNumbersNext
    <3>5. Owed' = IF pending' = {} THEN 0 ELSE Cardinality(pending')
      <4>1. stream' \in live' BY <2>1
      <4> QED BY <3>4, <4>1 DEF Owed, StreamNumbers
    <3>6. Owed = Cardinality(pending) - 1 + IF stream \in live THEN 1 ELSE 0
      BY <2>1 DEF Owed
    <3>7. PICK l, o, m, p, c, d :
            /\ l = LeftOn /\ o = Owed /\ m = LeftOn' /\ p = Owed'
            /\ c = Cardinality(pending) /\ d = Cardinality(live)
      OBVIOUS
    <3>8. /\ l \in Nat /\ o \in Nat /\ m \in Nat /\ p \in Nat /\ c \in Nat /\ d \in Nat
          /\ l + o <= crossed
      BY <3>1, <3>4, <3>7 DEF StreamNumbers
    <3>9. d - l = o - (c - 1)
      BY <3>1, <3>6, <3>7, <3>8 DEF StreamNumbers
    <3>10. m <= d BY <3>3, <3>7
    <3>11. (p = 0 /\ c = 1) \/ p = c - 1 BY <3>2, <3>5, <3>7
    <3>12. m + p <= crossed BY <3>1, <3>8, <3>9, <3>10, <3>11
    <3> QED BY <3>1, <3>7, <3>12
  <2> QED BY <2>3, <2>4, <2>5 DEF PagesInv
<1>4. CASE StreamRefused
  <2>1. PICK n \in pending : pending' = pending \ {n} BY <1>4 DEF StreamRefused
  <2>2. UNCHANGED <<zxVars, scanVars, options, selected, want, live, stream,
                    crossed>> /\ asked' = asked
    BY <1>4 DEF StreamRefused, asked
  <2>3. CameraTypeOK' /\ LoadInv' /\ ScanInv'
    BY <2>1, <2>2 DEF PagesInv, CameraTypeOK, LoadInv, ScanInv, zxVars, scanVars
  <2>4. StreamInv'
    <3> SUFFICES ASSUME html = "1" PROVE LeftOn' + Owed' <= crossed'
      BY <2>2 DEF StreamInv, scanVars
    <3>1. /\ StreamNumbers /\ LeftOn + Owed <= crossed /\ crossed \in Nat
          /\ crossed' = crossed /\ live' = live /\ stream' = stream
      BY <2>2, CountsAreNumbers DEF PagesInv, StreamInv, CameraTypeOK
    <3>2. Cardinality(pending') = Cardinality(pending) - 1
      BY <2>1, <3>1, OneLessPending
    <3>3. LeftOn' = LeftOn BY <3>1 DEF LeftOn
    <3>4. Owed' <= Owed
      <4>1. pending # {} BY <2>1
      <4> QED BY <3>1, <3>2, <4>1 DEF Owed, StreamNumbers
    <3>5. Owed' \in Nat BY <2>3, CountsAreNumbersNext DEF StreamNumbers
    <3>6. LeftOn \in Nat /\ Owed \in Nat BY <3>1 DEF StreamNumbers
    <3>7. PICK l, o, p : l = LeftOn /\ o = Owed /\ p = Owed' OBVIOUS
    <3>8. /\ l \in Nat /\ o \in Nat /\ p \in Nat /\ l + o <= crossed /\ p <= o
          /\ LeftOn' = l
      BY <3>1, <3>3, <3>4, <3>5, <3>6, <3>7
    <3>9. l + p <= crossed BY <3>1, <3>8
    <3> QED BY <3>1, <3>7, <3>8, <3>9
  <2> QED BY <2>3, <2>4 DEF PagesInv
<1> QED BY <1>1, <1>2, <1>3, <1>4 DEF Cameras

-----------------------------------------------------------------------------
LEMMA CameraInductive == CameraSpec => []PagesInv
<1>1. PagesInv /\ [CameraNext]_pagesVars => PagesInv'
  <2> SUFFICES ASSUME PagesInv, [CameraNext]_pagesVars PROVE PagesInv' OBVIOUS
  <2>1. CASE UNCHANGED pagesVars
    BY <2>1 DEF pagesVars, asked, PagesInv, CameraTypeOK, LoadInv, ScanInv, StreamInv,
                LeftOn, Owed
  <2> QED BY <2>1, ScriptsKeep, ScanKeeps, CamerasKeep DEF CameraNext
<1> QED BY <1>1, CameraInitially, PTL DEF CameraSpec

(* The globals of video.js and of the runtime keep their types: each call  *)
(* of getUserMedia has its own number, and so its own answer.              *)
THEOREM CameraTypeCorrect == CameraSpec => []CameraTypeOK
<1>1. PagesInv => CameraTypeOK BY DEF PagesInv
<1> QED BY <1>1, CameraInductive, PTL

(* zxing.js starts the program once, although it instantiates the code     *)
(* again when the handler throws, and there is one chain of scans.         *)
THEOREM StartsOnce == CameraSpec => []OneStart
<1>1. PagesInv => OneStart BY DEF PagesInv, CameraTypeOK, ScanInv, OneStart
<1> QED BY <1>1, CameraInductive, PTL

(* In 1.html no more cameras stay on beside the one shown than there were  *)
(* calls of getUserMedia made while another was pending, for any number of *)
(* calls and any order of their answers.                                   *)
THEOREM CamerasCounted == CameraSpec => []CamerasLeftOn
<1>1. PagesInv => CamerasLeftOn
  <2> SUFFICES ASSUME PagesInv, html = "1" PROVE LeftOn <= crossed
    BY DEF CamerasLeftOn, LeftOn
  <2>1. StreamNumbers /\ LeftOn + Owed <= crossed /\ crossed \in Nat
    BY CountsAreNumbers DEF PagesInv, StreamInv, CameraTypeOK
  <2> QED BY <2>1 DEF StreamNumbers
<1> QED BY <1>1, CameraInductive, PTL
=============================================================================
