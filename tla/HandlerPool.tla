---------------------------- MODULE HandlerPool -----------------------------
(***************************************************************************)
(* The pool of connection handlers of the HTTP server.  The thread of the  *)
(* listener hands each connection to a handler that is not busy, or to a   *)
(* new one, and a timer in the same thread deletes idle handlers; every    *)
(* handler runs a thread of its own, and tells the pool that it is free    *)
(* again by its flag `busy' alone.                                         *)
(***************************************************************************)
EXTENDS Integers, SequencesExt

CONSTANTS
  Handler,      \* the objects `new' may give
  MaxHandlers,  \* maxThreads
  MaxIdle,      \* minThreads
  MaxConns      \* bound on the connections, which are numbered

ASSUME PoolAssumption ==
  /\ IsFiniteSet(Handler) /\ MaxHandlers \in Nat \ {0}
  /\ Cardinality(Handler) >= MaxHandlers
  /\ MaxIdle \in Nat /\ MaxConns \in Nat

VARIABLES
  (* the thread of the listener *)
  pool,     \* the handlers, in the order of their creation
  main,     \* which slot runs, and how far it is: pool[main.k] is looked at
  conns,    \* the connections so far
  (* the handlers *)
  busy,
  called,   \* the queued calls of handleConnection
  socket,   \* the connection whose socket is open, or NoConn
  timer,    \* readTimer: "off", "running", or "due" when its interval is over
  thread,   \* "loop" in the event loop, "service" or "drain" in a slot
  failed,   \* handlers for which setSocketDescriptor failed
  client    \* what the client at the other end of the socket has done

listenerVars == <<pool, main, conns>>
handlerVars == <<busy, called, socket, timer, thread, failed, client>>
vars == <<pool, main, conns, busy, called, socket, timer, thread, failed, client>>

NoConn == 0

(* gone: has closed, and everything it sent has been read; stalled: does   *)
(* not read what is sent to it.                                            *)
NewClient == [gone |-> FALSE, stalled |-> FALSE]

(* A slot of the listener at the handler pool[k]: it has counted `idle'    *)
(* free handlers, or looks for one for the connection conn.                *)
At(op, k, idle, conn) == [op |-> op, k |-> k, idle |-> idle, conn |-> conn]

Idle == At("none", 0, 0, NoConn)

Init ==
  /\ pool = <<>> /\ main = Idle /\ conns = 0
  /\ busy = [h \in Handler |-> FALSE]
  /\ called = [h \in Handler |-> <<>>]
  /\ socket = [h \in Handler |-> NoConn]
  /\ timer = [h \in Handler |-> "off"]
  /\ thread = [h \in Handler |-> "loop"]
  /\ failed = {}
  /\ client = [h \in Handler |-> NewClient]

-----------------------------------------------------------------------------
(* The listener: incomingConnection and getConnectionHandler.              *)

IncomingConnection ==
  /\ main = Idle /\ conns < MaxConns
  /\ conns' = conns + 1
  /\ main' = At("find", 1, 0, conns + 1)
  /\ UNCHANGED <<pool, handlerVars>>

(* Mutant of TakeFree: the handler is not marked, handleConnection will.   *)
TakeFreeUnmarked ==
  /\ main.op = "find" /\ main.k <= Len(pool)
  /\ LET h == pool[main.k] IN
     IF busy[h]
     THEN main' = At("find", main.k + 1, 0, main.conn) /\ UNCHANGED busy
     ELSE /\ UNCHANGED busy
          /\ main' = At("call", main.k, 0, main.conn)
  /\ UNCHANGED <<pool, conns, called, socket, timer, thread, failed, client>>

(* One isBusy at a time: the handlers go on meanwhile.                     *)
TakeFree ==
  /\ main.op = "find" /\ main.k <= Len(pool)
  /\ LET h == pool[main.k] IN
     IF busy[h]
     THEN main' = At("find", main.k + 1, 0, main.conn) /\ UNCHANGED busy
     ELSE /\ busy' = [busy EXCEPT ![h] = TRUE]
          /\ main' = At("call", main.k, 0, main.conn)
  /\ UNCHANGED <<pool, conns, called, socket, timer, thread, failed, client>>

TakeNew ==
  /\ main.op = "find" /\ main.k > Len(pool) /\ Len(pool) < MaxHandlers
  /\ \E h \in Handler \ ToSet(pool) :
       /\ pool' = Append(pool, h)
       /\ busy' = [busy EXCEPT ![h] = TRUE]
       /\ main' = At("call", Len(pool) + 1, 0, main.conn)
  /\ UNCHANGED <<conns, called, socket, timer, thread, failed, client>>

(* "503 too many connections" *)
Reject ==
  /\ main.op = "find" /\ main.k > Len(pool) /\ Len(pool) >= MaxHandlers
  /\ main' = Idle
  /\ UNCHANGED <<pool, conns, handlerVars>>

(* The descriptor is passed via the event queue of the other thread.       *)
InvokeHandleConnection ==
  /\ main.op = "call"
  /\ called' = [called EXCEPT ![pool[main.k]] = Append(@, main.conn)]
  /\ main' = Idle
  /\ UNCHANGED <<pool, conns, busy, socket, timer, thread, failed, client>>

-----------------------------------------------------------------------------
(* The listener: cleanup.                                                  *)

Cleanup ==
  /\ main = Idle
  /\ main' = At("count", 1, 0, NoConn)
  /\ UNCHANGED <<pool, conns, handlerVars>>

(* Mutant of CountIdle: the last idle handler that may stay is deleted.    *)
CountIdleOneLess ==
  /\ main.op = "count"
  /\ main' = IF main.k > Len(pool) THEN Idle
             ELSE IF busy[pool[main.k]]
             THEN At("count", main.k + 1, main.idle, NoConn)
             ELSE IF main.idle + 1 >= MaxIdle
             THEN At("delete", main.k, main.idle, NoConn)
             ELSE At("count", main.k + 1, main.idle + 1, NoConn)
  /\ UNCHANGED <<pool, conns, handlerVars>>

CountIdle ==
  /\ main.op = "count"
  /\ main' = IF main.k > Len(pool) THEN Idle
             ELSE IF busy[pool[main.k]]
             THEN At("count", main.k + 1, main.idle, NoConn)
             ELSE IF main.idle + 1 > MaxIdle
             THEN At("delete", main.k, main.idle, NoConn)
             ELSE At("count", main.k + 1, main.idle + 1, NoConn)
  /\ UNCHANGED <<pool, conns, handlerVars>>

(* The destructor waits for the thread, which ends in its event loop; what *)
(* is queued to the handler is dropped, an open socket is closed.          *)
DeleteHandler ==
  /\ main.op = "delete"
  /\ LET h == pool[main.k] IN
     /\ thread[h] = "loop"
     /\ pool' = RemoveAt(pool, main.k)
     /\ called' = [called EXCEPT ![h] = <<>>]
     /\ socket' = [socket EXCEPT ![h] = NoConn]
     /\ timer' = [timer EXCEPT ![h] = "off"]
  /\ main' = Idle
  /\ UNCHANGED <<conns, busy, thread, failed, client>>

-----------------------------------------------------------------------------
(* The handlers.                                                           *)

(* A failure of setSocketDescriptor returns with `busy' set; no socket is  *)
(* open that could be disconnected.                                        *)
HandleConnection(h) ==
  /\ thread[h] = "loop" /\ called[h] # <<>>
  /\ called' = [called EXCEPT ![h] = Tail(@)]
  /\ busy' = [busy EXCEPT ![h] = TRUE]
  /\ \/ /\ socket' = [socket EXCEPT ![h] = Head(called[h])]
        /\ timer' = [timer EXCEPT ![h] = "running"]
        /\ client' = [client EXCEPT ![h] = NewClient]
        /\ UNCHANGED failed
     \/ /\ socket' = [socket EXCEPT ![h] = NoConn]
        /\ failed' = failed \cup {h}
        /\ UNCHANGED <<timer, client>>
  /\ UNCHANGED <<listenerVars, thread>>

(* Mutant of Disconnected: the flag is cleared only if the timer ran.      *)
DisconnectedWaiting(h) ==
  /\ socket' = [socket EXCEPT ![h] = NoConn]
  /\ timer' = [timer EXCEPT ![h] = "off"]
  /\ busy' = [busy EXCEPT ![h] = @ /\ timer[h] = "off"]
  /\ client' = [client EXCEPT ![h] = NewClient]

(* disconnected *)
Disconnected(h) ==
  /\ socket' = [socket EXCEPT ![h] = NoConn]
  /\ timer' = [timer EXCEPT ![h] = "off"]
  /\ busy' = [busy EXCEPT ![h] = FALSE]
  /\ client' = [client EXCEPT ![h] = NewClient]

(* read: a request that is too large, one that is complete, or a part of   *)
(* its body, which starts the timer again; a part of the header changes    *)
(* nothing.                                                                *)
Read(h) ==
  /\ thread[h] = "loop" /\ socket[h] # NoConn /\ ~client[h].gone
  /\ \/ /\ thread' = [thread EXCEPT ![h] = "drain"]
        /\ UNCHANGED timer
     \/ /\ thread' = [thread EXCEPT ![h] = "service"]
        /\ timer' = [timer EXCEPT ![h] = "off"]
     \/ /\ timer' = [timer EXCEPT ![h] = "running"]
        /\ UNCHANGED thread
  /\ UNCHANGED <<listenerVars, busy, called, socket, failed, client>>

(* Mutant of Serviced: the timer for the next request is not started.      *)
ServicedUntimed(h) ==
  /\ thread[h] = "service"
  /\ \E close \in BOOLEAN :
       thread' = [thread EXCEPT ![h] = IF close THEN "drain" ELSE "loop"]
  /\ UNCHANGED <<listenerVars, busy, called, socket, timer, failed, client>>

(* service has returned or thrown: the connection is closed, or kept for   *)
(* the next request.                                                       *)
Serviced(h) ==
  /\ thread[h] = "service"
  /\ \/ /\ thread' = [thread EXCEPT ![h] = "drain"]
        /\ UNCHANGED timer
     \/ /\ thread' = [thread EXCEPT ![h] = "loop"]
        /\ timer' = [timer EXCEPT ![h] = "running"]
  /\ UNCHANGED <<listenerVars, busy, called, socket, failed, client>>

(* The end of `while(socket->bytesToWrite())', and disconnectFromHost,     *)
(* which emits disconnected before it returns if the socket is open.       *)
Drained(h) ==
  /\ thread[h] = "drain" /\ (client[h].stalled => client[h].gone)
  /\ thread' = [thread EXCEPT ![h] = "loop"]
  /\ IF socket[h] # NoConn THEN Disconnected(h)
                           ELSE UNCHANGED <<socket, timer, busy, client>>
  /\ UNCHANGED <<listenerVars, called, failed>>

(* The interval is over; the slot runs when the event loop comes to it, if *)
(* nothing starts the timer again before.                                  *)
Elapse(h) ==
  /\ timer[h] = "running"
  /\ timer' = [timer EXCEPT ![h] = "due"]
  /\ UNCHANGED <<listenerVars, busy, called, socket, thread, failed, client>>

ReadTimeout(h) ==
  /\ thread[h] = "loop" /\ timer[h] = "due"
  /\ timer' = [timer EXCEPT ![h] = "off"]
  /\ thread' = [thread EXCEPT ![h] = "drain"]
  /\ UNCHANGED <<listenerVars, busy, called, socket, failed, client>>

(* The client has closed.  That shows in the event loop, or while a        *)
(* response is written: then the slot that writes it is still running when *)
(* the pool may hand out the handler again.                                *)
Closed(h) ==
  /\ client[h].gone
  /\ Disconnected(h)
  /\ UNCHANGED <<listenerVars, called, thread, failed>>

-----------------------------------------------------------------------------

ClientCloses(h) ==
  /\ socket[h] # NoConn /\ ~client[h].gone
  /\ client' = [client EXCEPT ![h].gone = TRUE]
  /\ UNCHANGED <<listenerVars, busy, called, socket, timer, thread, failed>>

ClientStalls(h) ==
  /\ socket[h] # NoConn /\ ~client[h].stalled
  /\ client' = [client EXCEPT ![h].stalled = TRUE]
  /\ UNCHANGED <<listenerVars, busy, called, socket, timer, thread, failed>>

Find == TakeFree \/ TakeNew \/ Reject \/ InvokeHandleConnection

Sweep == CountIdle \/ DeleteHandler

Run(h) ==
  \/ HandleConnection(h) \/ Read(h) \/ Serviced(h) \/ Drained(h)
  \/ Elapse(h) \/ ReadTimeout(h) \/ Closed(h)
  \/ ClientCloses(h) \/ ClientStalls(h)

Next ==
  \/ IncomingConnection \/ Find \/ Cleanup \/ Sweep
  \/ \E h \in Handler : Run(h)

(* The threads run and their timers fire; slots of the request handler     *)
(* return.  No client need close, send or read.                            *)
Fairness ==
  /\ WF_vars(Find) /\ WF_vars(Cleanup) /\ WF_vars(Sweep)
  /\ \A h \in Handler :
       /\ WF_vars(HandleConnection(h)) /\ WF_vars(Serviced(h))
       /\ WF_vars(Drained(h)) /\ WF_vars(Closed(h))
       /\ WF_vars(Elapse(h)) /\ WF_vars(ReadTimeout(h))

Spec == Init /\ [][Next]_vars
FairSpec == Spec /\ Fairness

-----------------------------------------------------------------------------

Slots == [op : {"none", "find", "call", "count", "delete"},
          k : Nat, idle : Nat, conn : Nat]

Clients == [gone : BOOLEAN, stalled : BOOLEAN]

(* The members of the pool, of its handlers and of the listener.           *)
TypeOK ==
  /\ pool \in Seq(Handler) /\ main \in Slots /\ conns \in Nat
  /\ busy \in [Handler -> BOOLEAN]
  /\ called \in [Handler -> Seq(Nat)]
  /\ socket \in [Handler -> Nat]
  /\ timer \in [Handler -> {"off", "running", "due"}]
  /\ thread \in [Handler -> {"loop", "service", "drain"}]
  /\ failed \subseteq Handler
  /\ client \in [Handler -> Clients]

(* The handler h is between setBusy and the queued call.                   *)
Chosen(h) == main.op = "call" /\ pool[main.k] = h

(* httpconnectionhandler.cpp, handleConnection: "if not, then the handler  *)
(* is already busy".  A connection is handed to a handler only after the   *)
(* one before it has been closed, although the flag is cleared in a thread *)
(* that may still be in the slot that served it.                           *)
NoDoubleHandout ==
  \A h \in Handler :
    /\ called[h] # <<>> => socket[h] = NoConn /\ Len(called[h]) = 1
    /\ Chosen(h) => socket[h] = NoConn /\ called[h] = <<>>

(* A slot of the pool is taken exactly while a connection is on its way to *)
(* the handler or open in it, or after setSocketDescriptor has failed,     *)
(* which nothing gives back: no connection is in a handler that the pool   *)
(* thinks free, so none is dropped by cleanup, and nothing else is leaked. *)
BusyIsExact ==
  \A h \in ToSet(pool) :
    busy[h] <=> Chosen(h) \/ called[h] # <<>> \/ socket[h] # NoConn \/ h \in failed

(* httpconnectionhandler.cpp: readTimer ends the connection of a client    *)
(* that sends nothing or half a request or closes at any point, and the    *)
(* handler is given back; unless setSocketDescriptor failed or the client  *)
(* does not read what it is sent.  A client that goes on sending keeps it: *)
(* every request, and every part of a body, stops or restarts the timer,   *)
(* without a limit.                                                        *)
HandlerFreed ==
  \A h \in Handler :
    \/ busy[h] ~> ~busy[h] \/ h \in failed \/ client[h].stalled
    \/ []<><<Read(h)>>_vars

IdleHandlers == {h \in ToSet(pool) : ~busy[h]}

(* httpconnectionhandlerpool.h: "The cleanup timer reduces the number of   *)
(* idle threads slowly by closing one thread in each interval.  But the    *)
(* configured minimum number of threads are kept running": the cleanup     *)
(* leaves MaxIdle idle handlers, and in the end no more.                   *)
PoolSettles ==
  /\ [][Len(pool') < Len(pool) =>
          /\ Len(pool') = Len(pool) - 1
          /\ Cardinality(IdleHandlers') >= MaxIdle]_vars
  /\ []<>(Cardinality(IdleHandlers) <= MaxIdle)

=============================================================================
