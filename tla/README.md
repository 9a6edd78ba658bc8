# TLA+ models and proofs for the wicket gate server

The server (`src/service-2`, Qt/C++) lets visitors of an event through
turnstiles.  A turnstile has an entry reader, an exit reader and a crossboard
(its motor), all reached over TCP; a barcode is checked against the ticket base,
optionally together with a covid certificate, the turnstile is opened, and the
pass is written to the base.  A turnstile can be switched to a stand-alone
checker that only looks at certificates.  The server also has an HTTP server of
its own, whose pages read barcodes with the camera of a phone.  This directory
holds the TLA+ modules that model it, the TLC configurations that check them and
the TLAPS proofs.

## The system

| part | code | state | operations |
| --- | --- | --- | --- |
| turnstile chart | `fsm/locker.scxml`, `fsm/wicketModel.cpp`, `fsm/imodel.*` | active state, event queue, delayed sends, `entryBarcode`, `exitBarcode`, `lockedEntryBarcode`, `lockedExitBarcode`, `certCheckEnable` | a transition with its onexit/onentry scripts; an event nothing takes |
| stand-alone chart | `fsm/checker.scxml`, `fsm/checkerModel.cpp` | the same, and `certInfo` | certificate check only, no turnstile |
| turnstile | `wicketgate.cpp` | its readers (four pointers), its machine, its database thread | `setReader`, reader messages, disconnections, the widget's commands, answers of the database thread, `resetCurrentW`, `resetCurrentC`, `stndAlnOn`, `stndAlnOff` |
| server | `main_server.cpp` | `wicketGateListByBarcode`, `doubleScanSwitcher`, `current_count`, `total_count`, gates by MAC | `checkDoubleScan`, `m_resetDoubleScan`, `ticketCounter`, `slot_widget_readyRead`, registration of readers |
| database thread, one per turnstile | `db_worker.cpp`, `usp__CheckTicketFromGate_v3.sql`, `usp__ConfirmPass_v2.sql` | queued calls, rows of `dbo.CheckTicket` | `checkTicket`, `confirmPass` |
| certificate check | `covidcertchecker.cpp` | open requests | `getCertCheck`, `managerFinished` |
| connections | `network.cpp`, `reader-connector.cpp`, `ssl_websocket_server.cpp` | sockets, partial messages, a 10 s watchdog | accept, register by MAC, read, disconnect |
| HTTP server | `httpserver/` | handler pool, sessions, a request being read | hand out a handler, clean up, session life |
| controllers | `http/` | a cache of files | find the session, log in, serve a file |
| scanner page | `docroot/5.html`, `docroot/js/a.out.js` | the globals of the runtime, its heap and stack, the frames | start, scan, calls both ways, console |
| barcode pages | `docroot/1.html`, `docroot/s/1/`, `docroot/js/video.js`, `zxing.js` | the runtime, the scan timer, the streams of the cameras | start, choose a camera, scan |
| codecs | `docroot/js/sha1.js`, `base64.js` | none | digest, HMAC, encodings |
| the rest | `logger`, `main.cpp`, other pages, `fsm/scxmlexternmonitor2.h` | none that matters | output, wiring |

How they interact:

* All turnstiles, their machines and the server live in the main thread.
  Readers and the database run in threads of their own and talk to it by
  queued signals, so a slot of the main thread is atomic.
* `submitEvent` only appends to the external queue of a machine.  The queue is
  drained later from the event loop, in one go: other slots may run between the
  submit and the drain, none during it.  What a slot writes besides submitting
  (`entryBarcode`, `failDesc`) is therefore ahead of the event.
* The double scan check is a direct call: an entry script emits
  `s_checkDoubleScan`, the server looks into `wicketGateListByBarcode` and
  submits `ok.dblscn` or `fail.dblscn` to the asking machine, *behind* whatever
  its queue holds already.  The onexit of the composites `onEnRstDblScn` and
  `onExRstDblScn` gives the barcode back.
* `s_checkTicket` and `s_confirmPass` are queued to the database thread.  Its
  answers carry no identity of the question.  `s_confirmPass` is also connected
  to the server's counters, in the main thread: one pass is counted twice, in
  two places, at two times.
* When any reader registers, `setReader` connects its signals once more, and
  `resetCurrentW` or `resetCurrentC` runs the entry script of the active states
  again.  A switch deletes the machine and registers all readers anew.
* HTTP: the listener's thread hands a connection to the thread of a handler by a
  queued call and learns only from the flag `busy` that it is free again.  The
  handlers share the session store and the file cache; a timer of the listener's
  thread takes expired sessions out.
* The pages: JavaScript runs a task to its end, the answers of the network, the
  compiler and the cameras come as tasks in any order, and an exception leaves
  the compiled code's frames behind.

What is hard here: events queued behind one another and handled in a state that
was not there when they were submitted; answers that are late, missing or for
another visitor; timers cancelled under a wrong name; the lock of a barcode held
by one composite state and taken in another; readers that reconnect before their
old connection is known to be gone; two database threads on one row; a flag that
one thread sets and another clears; a counted reference dropped while a timer
sweeps; a fallback that runs after a start that half succeeded.  `PROJECT.json`
lists each such place with its line.

What makes each part correct:

* chart: a visitor is never stuck in a service; a state that is to be passed
  through is never seen by another slot;
* double scan check: a barcode is granted only when no turnstile has it, and whoever
  stops serving gives its barcode back (that no two serve one barcode does *not* hold);
* counters and base: they agree on who is inside; no ticket passes more often
  than `MaxPass`;
* links: the chart is out of service when the main reader is gone, and a switch
  loses no reader;
* checker: a check ends (that the verdict is about the visitor who is shown it does
  *not* hold);
* pool: a handler has one owner, is given back once its client stops sending, and idle
  ones are deleted;
* sessions: deleted once, by the last to let go; nobody is served without a login;
* cache: a file is as fresh as `cacheTimeout` says;
* pages: nothing runs before it is loaded, nothing runs twice, scans go on, a camera
  stays on only when two requests for one overlapped;
* codecs: what the standards say, and no byte past a buffer.

## Modules

| module | role |
| --- | --- |
| `TicketDb` | the stored procedures as pure operators: `CheckIn`, `CheckOut`, `CheckResult`, `Confirmed`; `AnswerTo`, the switch of `db_worker::checkTicket` |
| `WicketChart` | `locker.scxml`, region Main, flattened to its leaves: arcs of the leaves and of the composites with their priority, delayed sends, cancels |
| `Wicket` | the turnstiles with the server, the database threads and their environment; the properties |
| `ScanLock` | what the double scan check promises, without charts, queues and threads: a turnstile asks, takes a verdict that is under way, serves, gives back; verdicts are not matched with questions |
| `MCWicket` | values of the constants that a configuration cannot spell |
| `WicketProofs` | proofs: types; no service is stuck, the main reader's loss is seen; the system implements `ScanLock`; the counters cover the base |
| `StandAlone` | one gate with the connections of its readers, the switch between the charts, `checker.scxml` and the certificate service |
| `MCStandAlone`, `StandAloneProofs` | its instance for TLC; its proofs |
| `HandlerPool`, `HandlerPoolProofs` | `httplistener`, `httpconnectionhandlerpool` and `httpconnectionhandler`; proofs |
| `RequestMapper` | `requestmapper`, `logincontroller`, `staticfilecontroller`, `httpsessionstore` and `httpsession`, one step per critical section |
| `MCRequestMapper`, `RequestMapperProofs` | its instance; its proofs |
| `WasmRuntime` | the start of `a.out.js`: dependencies, hooks, the load of the code |
| `ScanPage` | `5.html` on `WasmRuntime` |
| `WasmCalls` | `ccall`, the stack, its marks and the console of `a.out.js` |
| `CameraPage` | `video.js` with `zxing.js` in both pages |
| `ScanPageProofs` | proofs about `ScanPage` and `CameraPage` |
| `Sha1` | `sha1.js` as a machine, a round a step; a word is two halves, a half the set of its bits |
| `Digests` | `Sha1` in step with FIPS 180-1 and RFC 2104 as they are written |
| `DigestProofs` | proof that the two agree |
| `Encodings` | the encoders of `sha1.js`, `base64.js` and `a.out.js` as operators; a loop is a function of the number of its turns |
| `Strings` | every raw and every JavaScript string, grown step by step, and what the encodings make of it, against RFC 3629, RFC 4648 and long multiplication |
| `MCPageScripts` | `Digests`, `Strings` and `WasmCalls` on one instance |
| `PageScriptsProofs` | proofs about the scripts of the pages: `WasmCalls` and `Strings` |
| `Sums` | induction over numbers and over finite sets, recursion on finite sets, and the laws of `SumFunction` and of sums over sequences: what `WicketProofs` and `PageScriptsProofs` rest on |

`Wicket` composes `WicketChart`, `TicketDb` and the server; `ScanPage` composes
the page and `WasmRuntime`; `Digests` runs `Sha1` in step with the standard, and
`MCPageScripts` chooses at the start whether a run digests, grows `Strings` or
calls (`WasmCalls`).

### Correspondence with the code

| variable of `Wicket` | code |
| --- | --- |
| `st`, `evq`, `timers` | active leaf, external queue and pending delayed sends of `QScxmlStateMachine` |
| `lockedEn`, `lockedEx`, `entryBc`, `exitBc`, `certCheck` | members of `IModel` |
| `certAsk` | replies `covidCertChecker` still waits for |
| `links` | connections of the main reader whose `readerDisconnected` has not come |
| `busy` | the machine whose queue is being drained; slots run when there is none |
| `registry`, `dblSwitch`, `current`, `total` | members of `main_server` |
| `dbReq`, `dbAns` | queued calls to and queued signals from the database threads |
| `tickets` | `CodeTicketState` and `PassCount` of `dbo.CheckTicket` |
| `left` | what the environment may still do: the bounds of a run |

`Move(g)` is one transition: it removes the first event, runs the onexit of what
it leaves (`Released`, `Cancels`), then the onentry of its target (`Submits`,
`Calls`, `AsksCert`, `Counted`, `Arms`).  `Discard(g)` drops an event nothing
takes.  The slots of the main thread are `ScanEntry`, `ScanExit`, `Report`,
`ConnectMain`, `ConnectSlave`, `DisconnectMain`, `TimerFires`, `CertReply`,
`DbAnswer`, `GateCommand` and `ServerCommand`; the database threads do
`DbCheck`, `DbConfirm` or `DbFails`.  `map` in `PROJECT.json` gives the lines.

| variables | code |
| --- | --- |
| `StandAlone`: `kind`, `st`, `online`, `evq`, `timers` | `useStandAloneFSM`, the region `_checker`, the region Main, queue and delayed sends of the current machine |
| `scanned`, `locked`, `certInfo`, `asked`, `told` | members of the current `checkerModel`, requests of its `covidCertChecker`, the readers connected to it |
| `reader`, `conn`, `slots`, `posted` | the four pointers of `wicketGate`; the connectors, how often `setReader` connected each, what their threads have posted |
| `HandlerPool`: `pool`, `main`, `busy`, `called`, `socket`, `timer`, `thread` | the list, the slot of the listener's thread that runs, and of each handler its flag, queued calls, socket, `readTimer` and where its thread is |
| `RequestMapper`: `pc`, `session`, `param`, `dropped` | where each thread is, the `HttpSession` objects it has on its stack, a destructor between the count and the deletion |
| `sessions`, `data`, `refs`, `last`, `user` | the store; `HttpSessionData` with `refCount`, `lastAccess`, the key `username` |
| `entry`, `doc`, `since`, `file`, `replaced` | the cache entry, the document in a response, the `now` of a request, the file on the disk and its history |
| `WasmRuntime`: `rt`, `load` | the globals of `a.out.js`; how far `createWasm` is |
| `ScanPage`: `camera`, `chains`, `count`, `heap`, `broken` | `getUserMedia`, the frames requested, `count`, images on the heap, scans left by an exception |
| `WasmCalls`: `sp`, `saved`, `frames`, `buffers` | the stack pointer, `LLVM_SAVEDSTACKS`, the calls under way, `SYSCALLS.buffers` |
| `CameraPage`: `zx`, `deps`, `runs`; `ZXing`, `size`, `timers`, `thrown`; `want`, `pending`, `live`, `stream` | `zxing.js`; the scanner of `video.js`; its calls of `getUserMedia` and the streams |
| `Sha1`: `x`, `i`, `w`, `s`, `old` | the variables of `binb_sha1` |

A start is also a restart: `Init` of `Wicket` takes any rows of the base
(`RowsAtStart`) and the counters `get_ticket_pass_count` makes of them
(`StartCounts`), zero when the query may fail; everything else begins empty.

Abstractions.

* Times are left out: an armed timer may fire whenever its thread is free, so
  every order of timers and answers is possible, more than the delays of the code
  allow.  `RequestMapper` has a clock, since expiry and freshness are about it.
* A barcode is a model value with a `Kind`; a covid QR is a member of `CovidQR`,
  one with a path that is not recognised of `BadQR`.  A certificate is a reply
  that is good or bad.
* Output (displays, lamps, telemetry, logs) is left out, with one consequence: the
  doors a turnstile opens are read off the state (`onPassEntry`, `onPassExit`).
* A failed query is "closed" (nothing is answered), "error" (`dbFail`, submitted
  as `dbTimeout`) or "caught" (the procedure's `catch` runs; the result is
  ignored).  The hours of an event and an inactive controller make a barcode
  "unknown".
* An HTTP request is whole, in part or malformed, and asks for a path of one of
  four kinds; one file stands for all, its cache entry may be evicted at any time.
* The compiled code is not in the repository: a scan returns, traps or aborts; a
  frame opens and closes scopes with marks, and throws.
* Qt's queue, the event loops of Qt and of a browser and the compiler are modelled
  from how the code uses them, and marked external in the map.

## Runs

All runs have `CHECK_DEADLOCK FALSE`: the environment is given a finite number of
scans, reports, requests and commands, and when they are used up a model rests in
an idle state.

| run | instance | checks |
| --- | --- | --- |
| commands | `MCWicket`: 1 gate with certificates, a ticket and a covid controller, five commands of the widget, a query that fails, backlog 2, up to 4 link changes, `FairSpec` | `TypeOK`, `NeverStuck`, `SettledBetweenDrains`, `OfflineSeen`, `ImplementsScanLock`, `BarcodeFreed`, `ServiceEnds` |
| lock | `MCWicket`: 2 gates, 1 ticket whose visitor is inside at the start and may pass twice, setNormal and dblScnClr, backlog 2, symmetry | `HallCountCovers`, `ImplementsScanLock` |
| standalone | `MCStandAlone`: 2 connections, 4 barcodes, up to 3 registrations, 2 switches, 2 scans, backlog 2 | `SwitchKeepsReaders`, `CheckEnds` |
| pool | `HandlerPool`: 2 handlers of which 1 may stay idle, 4 connections, requests without a bound | `NoDoubleHandout`, `BusyIsExact`, `HandlerFreed`, `PoolSettles` |
| sessions | `MCRequestMapper`: 2 handlers and the timer, 2 sessions, 3 or 5 requests, a file with 2 versions, symmetry | `RefsExact`, `DeletedOnce`, `OnlyLoggedInServed`, `CacheFresh`, `SweptOnlyIdle` |
| scanner | `ScanPage`: 4 environments, 2 dependencies of a hook, a heap of 3 images, 2 chains | `DepsCounted`, `CodeAfterLink`, `NoStrayAbort`, `LoadSettles`, `ScansGoOn` |
| camera | `CameraPage`: both pages, 2 cameras, 3 calls of `getUserMedia`, frames of 3 sizes | `OneStart`, `CamerasLeftOn`, `ScanningStarts` |
| scripts | `MCPageScripts`: 6 message and 4 key lengths; byte strings up to 5, JavaScript strings up to 3 units and texts about 16 bytes long; 3 calls deep, a stack of 5 units, 1 exception, 3 bytes printed | `HashIsFips`, `Base64IsTheBits`, `DigitsKeepTheInput`, `Utf8Agrees`, `CutsAreClean`, `MarksAreOwn`, `LinesAreWhole`, `StackIsNested` |

The turnstile:

* `NeverStuck` – whatever stale timers, foreign cancels and repeated scripts did,
  a state that ends by itself has its timer or its event coming.  The wrong
  cancels at `locker.scxml:296` and `334` therefore do not wedge a turnstile: the
  event they leave behind ends a later display early at worst.
* `SettledBetweenDrains` – why `resetCurrentW` cannot confirm a pass twice: the
  states that do so are never active when a reader registers.
* `OfflineSeen` – when all connections of the main reader are closed the turnstile
  is out of service, in whatever order they opened and closed.  The converse does
  not hold: `readerMainDisconnected` (`wicketgate.cpp:150`) runs for whichever
  connection closes, so an old one that is reported closed after the new one
  registered puts it out of service with a reader connected.
* `ImplementsScanLock` – the charts, the server's table and the verdicts in the queues
  implement `ScanLock`, with queues of any length, a covid controller and the commands
  that switch the check off or empty its table.  `ScanLock` names what the code really
  promises: with the check on, a barcode that somebody holds is not granted; whoever
  serves has taken an `ok.dblscn`; whoever stops serving takes its barcode out of the
  table.  And it names what the code does not promise: a turnstile that leaves
  `onCheck*DblScn` before its verdict (`locker.scxml:258`) keeps the barcode locked and
  leaves its verdict to its next question (`Leave`, `wicketModel.cpp:76`), a controller
  who may not open goes back to being served with his barcode given back (`Pause`,
  `Return`, `locker.scxml:298`), and what is released may be another turnstile's
  (`main_server.cpp:196`).
* `HallCountCovers` – the counters of the main thread cover the base, the calls still
  queued to the database threads included.
* `BarcodeFreed`, `ServiceEnds` – a visitor who is served is finished with, and the
  barcode is free again, with no help from the outside.  A barcode that was only asked
  for may stay locked, as above.

The stand-alone checker:

* `SwitchKeepsReaders` – after any switch the new machine is connected to every
  reader the gate points to, and knows of the main one.  It is why `stndAlnOn`
  passes four pointers to `setReader` although main and slave bring their sides:
  a side may be left alone.
* `CheckEnds` – every check comes back to `onReady`, whatever the service does.

The HTTP server:

* `NoDoubleHandout`, `BusyIsExact` – the flag that another thread clears says
  exactly whether the handler has a connection.  A handler whose
  `setSocketDescriptor` failed stays busy for good (`httpconnectionhandler.cpp:88`
  returns with the flag set), which the property names.
* `HandlerFreed`, `PoolSettles` – a connection ends, by its client or by `readTimer`,
  except one whose client does not read what it is sent (the slot loops in
  `bytesToWrite`) or goes on sending: each part of a body and each request starts
  `readTimer` again (`httpconnectionhandler.cpp:165`, `259`), without a limit.  The
  cleanup ends at the idle handlers that may stay.
* `RefsExact`, `DeletedOnce` – sessions are passed by value between two threads and
  a timer: the count is exact, and the last to let go deletes.
* `OnlyLoggedInServed`, `SweptOnlyIdle`, `CacheFresh` – although a session may be
  removed, or expire, between any two steps of a request.  A session that a request has
  found and not yet touched may be swept, and a wrong password may end a login of
  another request: no source promises otherwise ("Sessions may expire at any time").

The pages:

* `DepsCounted`, `CodeAfterLink`, `NoStrayAbort`, `LoadSettles` – the start of the
  runtime under every order of answers; a first fetch that is rejected is the one
  end nobody handles (`"lost"`).
* `ScansGoOn` – the chain of frames outlives a scan that throws, with the heap full
  too.  What a broken scan leaves on the heap is never given back (`5.html:109`).
* `OneStart`, `CamerasLeftOn`, `ScanningStarts` – `1.html` stops the stream it has, not
  one that is still to come: a camera stays on, unseen, when a second call of
  `getUserMedia` is made before the first has answered (`video.js:117`), at most one for
  each such call, and none without.  When `zxing.js` runs before `video.js` the page
  never scans; otherwise it scans until a scan throws, after which nothing sets the
  timer again.
* `MarksAreOwn`, `StackIsNested`, `LinesAreWhole` – the stack and its marks after
  exceptions, which leave pieces of both behind for good, and output cut anywhere.
* `HashIsFips` and its companions – see the comments of `Digests` and `Strings`.
  `Utf8Agrees` names the one difference between the two decoders of `a.out.js`: above 16
  bytes `TextDecoder` drops a leading byte order mark.

Four runs refute what a source says of the program, one finding each in
`PROJECT.json`:

| run | property | what happens |
| --- | --- | --- |
| limit | `PassLimit` | the lock is released before `confirmPass` runs in the database thread; a second gate reads the old count and `PassCount` passes `MaxPass` |
| registered | `OnlyRegisteredAdmitted` | a late `ticketOK` opens the turnstile for the next, unregistered barcode |
| doublepass | `NoDoubleService` | with the check on, a turnstile that is armed in the middle of a check takes the left-over `ok.dblscn` for the verdict on its next visitor, whom another turnstile is serving; backlog 3: a scan, `crsbrd.armed` and a scan in one queue |
| verdict | `VerdictIsMine` | the stand-alone checker latches a second visitor while the first one's certificate is asked for, and the first one's answer lights green for the second |

### Bounds

* `MaxBacklog` is the number of events a queue may hold when another slot submits
  to it; 2 lets every event be overtaken by another one, 1 is the idle event loop, which
  the runs `limit` and `registered` get by with.
* `commands` gives one command.  It leaves out setIron and dblScnOff, which do to the
  modelled state what setNormal does, certOn and dblScnOn, which set what is set,
  dblScnClr, which is in `lock`, and the base that answers nothing: the database thread
  has no fairness, so an answer may never come.  Its workloads trade scans, reports and
  link changes against one another; the one with four changes opens two connections
  and closes both, in every order.
* Two gates are what a conflict over a barcode takes; three scans with two reports
  give a visitor who is inside at the start: out and in, in and out, out twice, with
  another scan at the second gate meanwhile.  Two link changes bring both gates into
  service: what a reader's loss does to a lock is in `commands`, where a late end of an
  old connection takes three changes, and the end of both four.  In `lock` the gates are
  symmetric (none checks certificates, both start alike) and no property names one;
  the runs with liveness use no symmetry.
* `standalone`: two connections are a main and a slave reader, or a reader and its
  successor; a barcode in force, one that is not, a broken link and a ticket are
  all answers there are.  Its workloads trade registrations, scans and switches
  against one another: three registrations about one switch, two about two
  switches, one visitor with two switches, two visitors with two readers and none.
* `pool`: two handlers with one that may idle is the smallest pool whose cleanup
  has something to keep and something to delete; the third connection finds it full, and the fourth a handler that was given back.
* `sessions`: two handlers and the timer give each session three holders; the
  expiry and the age of a cache entry are one tick, and there are two, so an entry
  or a session can be fresh, due and overdue.
* `scanner`: a heap of three images is full after three broken scans; two chains
  interleave.  `camera`: three requests are one under way, one that overlaps and one
  after both.  `scripts`: a page call, a callback and a call
  out of it.
* `scripts`: message lengths 0, 3, 55, 56, 64 and 119 and key lengths 5, 61, 64 and
  65 lie on both sides of a word, of the length field and of a block; code units lie
  on both sides of every limit of UTF-8 and of the surrogates; the texts are 16 bytes and
  more, with a byte order mark and without.

The violation runs show that instances of this size contain the hazards.

### Fairness

* `Wicket`, `StandAlone`: weak fairness of the drain and of "some timer fires", work
  of the Qt event loop that is due and stays due until it is done.  Nothing is
  assumed of visitors, readers, crossboards, database or certificate service.
* `HandlerPool`: the listener's slots and each handler's slots run; an interval of
  `readTimer` ends unless it is started again; a slot of the request handler returns.  No client need close, send or read.
* `ScanPage`, `CameraPage`: the parser runs the scripts, the network and the compiler
  answer, with an error perhaps, timers fire and frames are drawn.  The user need
  not allow the camera.

## Proofs

All constants are arbitrary, within the assumptions named in the modules
(`WicketAssumption`, `StandAloneAssumption`, `PoolAssumption`, `MapperAssumption`,
`DepAssumption`, `PageAssumption`, `CameraAssumption`, `CallAssumption`,
`StringAssumption`, `MessageAssumption`): the null values are not members of their
sets, tables are functions on the sets they are looked up in, bounds are naturals, and
messages and keys are bytes whose bits a signed word can count.

* `TypeCorrect` (`WicketProofs`): `Spec => []TypeOK`.  One lemma per group of
  actions, on top of lemmas about what the operators return.
* `NeverStuckHolds`, `SettledHolds` (`WicketProofs`): neither is inductive.
  `ServiceInv` adds to `TypeOK` that a leaf which waits for an event of its own
  has it queued *and* its queue is being drained (`Awaited`), and `NeverStuck`'s
  claim about timers (`Timed`).  Every slot of the main thread only appends to
  queues and turns a timer into its event (`Grown`), so only `Move` and `Discard`
  need a closer look: the event a state waits for always has an arc out of that
  state, hence is never discarded, and a move arms what its target needs after it
  cancelled what its source names.
* `OfflineSeenHolds` (`WicketProofs`): while no link is left, the queue holds a
  `mainDisconnected` that no `mainConnected` follows, or the machine is out of
  service and no connection is queued (`OfflineInv`).
* `LockImplemented` (`WicketProofs`): `Spec => ImplementsScanLock`, for every value of the
  constants.  The refinement mapping reads a turnstile's phase off its active state, its
  barcode off `lockedEntryBarcode` or `lockedExitBarcode`, and the verdicts off its queue.
  The invariant needed is `TypeOK` and that a database thread answers with nothing but its
  own events (`AnswersInv`): each step is shown to be one of `ScanLock` or to
  leave it unchanged, a move by the states it leaves and enters (an entry script that
  asks is `Grant` or `Deny`, the onexit of the composite is in `Freed`), every slot by
  what it appends.
* `HallCovered` (`WicketProofs`), for any `MaxBacklog`, under `CountsAgree`: finitely
  many gates and barcodes, every barcode a ticket, no query that fails, no reset of
  the counters, and counters that cover the base at the start.  The invariant
  `Covers` bounds, by the counter of the hall, the sum over the barcodes of what the
  base has inside now and what the calls queued to the database threads will add;
  `ExitKnown` says that whoever passes in exit direction has a barcode, without
  which the counter would fall and no row with it.  A move that counts a visitor
  queues the call that will say so in the same step; an answer of the database moves
  its summand from the queue to the row; every other step changes neither.  None of
  these conditions is a convenience: a controller's barcode lets out who never came in,
  and has no row; the confirmation of an exit that fails leaves inside the base a
  visitor whom the counter has let go; and `rstCntrs` sets the counters to zero with
  visitors in the hall.
* `SwitchLosesNoReader`, `CheckerNeverStuck` (`StandAloneProofs`): `StandInv` says that
  a decision of `onCheckType` is the last event of the drain that made it, and that the
  pointer to the main reader agrees with what region Main will be when the queue is
  empty, the last event of the link deciding.
* `HandedOutOnce`, `BusyMeansEngaged` (`HandlerPoolProofs`): `HandlerInv`, per
  handler, with the places of the listener's loop (`PlaceInPool`) and that a handler
  chosen for deletion stays free: no other thread makes a free handler busy.
* `ReferencesAreCounted`, `SessionsDeletedOnce`, `ServedAreLoggedIn`,
  `TimerSweepsIdle`, `CachedIsFresh` (`RequestMapperProofs`): `MapperInv` says which
  references each label of a thread implies and that `refCount` is their number,
  which the proof counts with cardinalities; `GateInv`, `SweepInv` and `FileInv` add
  what a thread knows past the login, in the timer and with a document in hand.
* `StartsOnce`, `CamerasCounted` (`ScanPageProofs`): `LoadInv` (what the load has
  counted: a handler that threw leaves zero), `ScanInv`, and `StreamInv`: the cameras on
  unseen, and those that will be when the calls under way are answered, are no more than
  the calls that crossed.
* `DependenciesCounted`, `NoCallTooEarly`, `AbortsAreExplained` (`ScanPageProofs`): the runtime is `Fresh`, `Loading`,
  `Settled` (waiting or running) or `Failed`, and the phase is a function of `load`.
* `CallTypes`, `MarksKept`, `StackNests`, `LinesPrintedWhole` (`PageScriptsProofs`):
  `Sound` says that a frame returns to its base, by the pointer `ccall` kept or by its
  own prologue; that the marks lie in `LLVM_SAVEDSTACKS` in the order in which their
  frames were entered and set them, so that taking the last one out moves no other;
  that each is found at its place; and that there are no others until something is
  thrown.
  `LinesPrintedWhole` is an induction over the bytes of one write: the fold that
  models the loop of `fd_write` is unrolled byte by byte (`RecursionOnSets`), and
  each byte keeps what is printed and what is buffered the lines of the whole text.

* `Base64IsAlwaysTheBits`, `Utf8AlwaysAgrees`, `AllCutsAreClean`
  (`PageScriptsProofs`): for strings of every length over every byte and code unit.
  Each loop of an encoder is a function of the number of its turns;
  `RecursionOnNat` says that such a function exists, and an induction on the turns
  gives what it computes.  Base 64: each digit of either encoder, and each group of
  six bits of the reference, is the same term in the three bytes it is cut from
  (`Digit`), at every remainder of the length.  A cut: two rooms write the same until
  the smaller one is full (`WriteRooms`), what is written lies between two characters
  at every turn, and a character takes at most four bytes for its one or two units,
  so the room that `ccall` allots is never full (`WriteNeverCut`).  Reading back: the
  reader is, after as many turns, at the byte the writer has come to and has the units
  the writer has taken (`ReaderFollows`).  The three agree because each turn of
  `str2rstr_utf8` and of `stringToUTF8Array` adds the piece that RFC 3629 has for the
  character (`RfcAgrees`).

* `DigitsAlwaysKeepTheInput` (`PageScriptsProofs`): the input of `rstr2any` is a number
  in words of 16 bits, and so is each quotient, whose leading zeros the code leaves
  out.  One long division, with as many of those zeros in front as the first dividend
  had, leaves in each place the digit of the schoolbook division (`DivisionOfWords`),
  which multiplication by the divisor undoes word by word, the carry of one word being
  what the next adds (`DivisionUndone`).  The loop ends because the dividend loses a
  bit or more in every division (`FitsHalf`), so the turns the model gives it are
  enough, and the digits, multiplied back from the last quotient, which is zero, give
  the words again (`DigitsAreNumber`).  To 16 digits a division is a shift by a half
  byte, hence the digits of `rstr2hex` (`HexShift`).
* `HashIsAlwaysFips` (`DigestProofs`), for every message and every key of
  `MessageAssumption`.  Three things are shown of the operators.  Words: a half is the
  sum of its bits, hence equal to another half exactly when their sets are; so `|` may
  stand for `^` in *f* where no bit is in two terms, or where it is in two of the three
  (`FunctionIs`), `^` may be taken in any order, and two shifts are the standard's
  move of every bit (`RotationIs`).  Sums: the carry between the halves is that of the
  whole, and the code may add from the left what the standard adds from the right
  (`AddedFromTheLeft`).  Texts: what `binb_sha1` makes of an array with holes, the mark
  set by `|=` and the length written over the last word, is the padded message, for
  each of the four remainders a length has in a word (`PaddedText`); a key in words,
  filled with what the code does not find, is the key of RFC 2104 (`PadIs`); and a
  block in front of a message is in words what it is in bytes (`JoinedWords`).  The
  invariant `FipsInv` then says that the words of `x` from `i` on are the rest of the
  text, that registers and sums are the standard's, and that its 16 words are the last
  16 of the 80 that the code keeps, or words of the block not reached yet: without this
  last part a round's word would not be known.

Sums, folds and loops need induction over data.  The induction theorems of the library
take an operator as a parameter, which no prover here can instantiate; `Sums` states
the same rules for a *set* of numbers, or of sets, and a proof names the set its
induction is about.

Every safety invariant and every action property of a passing run is a theorem
(`HallCountCovers` under `CountsAgree`).  Only
model-checked are the liveness properties (`BarcodeFreed`, `ServiceEnds`, `CheckEnds`,
`HandlerFreed`, `PoolSettles`, `LoadSettles`, `ScansGoOn`, `ScanningStarts`), with the
safety parts that some of them have: liveness under fairness is out of the prover's
reach.

## Not modelled

* Regions Entry and Exit of `locker.scxml`, telemetry, displays, lamps, the logger,
  the scxml monitor: output only.
* The container of the double scan check across a switch: `stndAlnOn` deletes the
  turnstile machine without the onexit of its states, so a barcode in service stays
  in `wicketGateListByBarcode`; the database thread of the old machine is never
  ended, and the new one's `certCheckEnable` is its default again.  No source
  promises otherwise, and `StandAlone` leaves the container out.
* The use of a connector that its own thread has deleted (`reader-connector.cpp:22`)
  before the gate's slot for it ran: `StandAlone` marks it (`crashed`) and ends
  there; no property forbids it.
* The cutting of a reader's bytes into messages, the watchdog as a clock, the search
  by UDP, the web socket server, which relays and keeps a list of its clients.
* The parsing of a request, SSL, cookies as text, and the controllers without state:
  sequential code on one connection's bytes, in reach of unit tests.
* `checkCovidControler`, `_register`, `slot_timeout` of `db_worker`: not called.
* The compiled code, the wrappers of its exports (one line each, all alike), system
  calls that only fail, jQuery, the UTF-16 encoders of `sha1.js` that no page calls.
* `docroot/s/5/backup/a.out.js` and `s/2/base64.js` are byte-for-byte copies of the
  files under `docroot/js`, which are modelled; `s/5/a.out.js` is another build of
  the runtime; no page loads `s/3/video.js`.
* `main.cpp`, settings, the draft charts `main.scxml` and `state_machine1.scxml`.
