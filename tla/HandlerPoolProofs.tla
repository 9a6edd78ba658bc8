------------------------- MODULE HandlerPoolProofs --------------------------
(***************************************************************************)
(* Proofs about the pool of connection handlers, for any handlers, any     *)
(* limits and any number of connections and requests.                      *)
(***************************************************************************)
EXTENDS HandlerPool, SequenceTheorems, TLAPS

(* What a connection leaves in a handler: the handler is chosen for it,    *)
(* has its call in the queue, or has its socket; or could not open it.     *)
Engaged(h) == Chosen(h) \/ called[h] # <<>> \/ socket[h] # NoConn \/ h \in failed

InPool(h) == \E k \in 1 .. Len(pool) : pool[k] = h

(* The invariant of the induction, for one handler.  Busy and engaged are  *)
(* the same in the pool, and nothing outside it is engaged: TakeNew relies *)
(* on that.                                                                *)
HandedOnce(h) ==
  /\ called[h] # <<>> =>
       socket[h] = NoConn /\ Len(called[h]) = 1 /\ called[h][1] # NoConn
  /\ Chosen(h) => socket[h] = NoConn /\ called[h] = <<>>

EngagedIsBusy(h) == Engaged(h) => busy[h] /\ InPool(h)

BusyIsEngaged(h) == InPool(h) /\ busy[h] => Engaged(h)

FailedIsStuck(h) ==
  h \in failed => ~Chosen(h) /\ called[h] = <<>> /\ socket[h] = NoConn

GoneWasThere(h) == client[h].gone => socket[h] # NoConn

HandlerInv(h) == /\ HandedOnce(h) /\ EngagedIsBusy(h) /\ BusyIsEngaged(h)
                 /\ FailedIsStuck(h) /\ GoneWasThere(h)

(* And for the listener.  A handler that is about to be deleted stays      *)
(* free: no thread but the listener's makes a free handler busy.           *)
PlaceInPool ==
  /\ main.op \in {"find", "count"} => main.k > 0
  /\ main.op \in {"call", "delete"} => main.k \in 1 .. Len(pool)

DeletedIsFree == main.op = "delete" => ~busy[pool[main.k]]

ConnIsNumbered == main.op \in {"find", "call"} => main.conn # NoConn

PoolInv == /\ TypeOK /\ PlaceInPool /\ DeletedIsFree /\ ConnIsNumbered
           /\ \A h \in Handler : HandlerInv(h)

-----------------------------------------------------------------------------

(* What is left of a sequence when the element at k is taken out.          *)
LEMMA RemoveAtElements ==
  ASSUME NEW S, NEW s \in Seq(S), NEW k \in 1 .. Len(s)
  PROVE  /\ RemoveAt(s, k) \in Seq(S)
         /\ Len(RemoveAt(s, k)) = Len(s) - 1
         /\ \A i \in 1 .. Len(s) - 1 :
              RemoveAt(s, k)[i] = IF i < k THEN s[i] ELSE s[i + 1]
<1> DEFINE front == SubSeq(s, 1, k - 1)
           back == SubSeq(s, k + 1, Len(s))
<1>1. /\ front \in Seq(S) /\ Len(front) = k - 1
      /\ \A i \in 1 .. k - 1 : front[i] = s[i]
  OBVIOUS
<1>2. /\ back \in Seq(S) /\ Len(back) = Len(s) - k
      /\ \A i \in 1 .. Len(s) - k : back[i] = s[i + k]
  OBVIOUS
<1> HIDE DEF front, back
<1>3. front \o back \in Seq(S) /\ Len(front \o back) = Len(front) + Len(back)
  BY <1>1, <1>2, ConcatProperties
<1>4. ASSUME NEW i \in 1 .. Len(s) - 1
      PROVE  (front \o back)[i] = IF i < k THEN s[i] ELSE s[i + 1]
  <2>1. CASE i < k
    <3>1. i \in 1 .. k - 1 BY <2>1
    <3>2. (front \o back)[i] = front[i]
      BY <1>1, <1>2, <3>1, ConcatProperties
    <3> QED BY <1>1, <2>1, <3>1, <3>2
  <2>2. CASE ~(i < k)
    <3>1. i - (k - 1) \in 1 .. Len(s) - k BY <2>2
    <3>2. (front \o back)[i] = back[i - (k - 1)]
      BY <1>1, <1>2, <2>2, ConcatProperties
    <3>3. back[i - (k - 1)] = s[i - (k - 1) + k] BY <1>2, <3>1
    <3>4. i - (k - 1) + k = i + 1 OBVIOUS
    <3> QED BY <2>2, <3>2, <3>3, <3>4
  <2> QED BY <2>1, <2>2
<1>5. Len(front) + Len(back) = Len(s) - 1 BY <1>1, <1>2
<1>6. RemoveAt(s, k) = front \o back BY DEF RemoveAt, front, back
<1> QED BY ONLY <1>3, <1>4, <1>5, <1>6

LEMMA AtType ==
  ASSUME NEW op \in {"none", "find", "call", "count", "delete"},
         NEW k \in Nat, NEW idle \in Nat, NEW conn \in Nat
  PROVE  /\ At(op, k, idle, conn) \in Slots
         /\ At(op, k, idle, conn).op = op /\ At(op, k, idle, conn).k = k
         /\ At(op, k, idle, conn).idle = idle
         /\ At(op, k, idle, conn).conn = conn
BY DEF At, Slots

LEMMA IdleType ==
  Idle \in Slots /\ Idle.op = "none"
BY AtType DEF Idle, NoConn

LEMMA TypeInit == Init => TypeOK /\ PlaceInPool
<1> SUFFICES ASSUME Init PROVE TypeOK /\ PlaceInPool OBVIOUS
<1>1. main \in Slots /\ main.op = "none" BY IdleType DEF Init
<1>2. client \in [Handler -> Clients] BY DEF Init, Clients, NewClient
<1> QED BY <1>1, <1>2 DEF Init, TypeOK, PlaceInPool, NoConn

HandlersOK ==
  /\ busy \in [Handler -> BOOLEAN]
  /\ called \in [Handler -> Seq(Nat)]
  /\ socket \in [Handler -> Nat]
  /\ timer \in [Handler -> {"off", "running", "due"}]
  /\ thread \in [Handler -> {"loop", "service", "drain"}]
  /\ failed \subseteq Handler
  /\ client \in [Handler -> Clients]

ListenerOK ==
  pool \in Seq(Handler) /\ main \in Slots /\ conns \in Nat /\ PlaceInPool

LEMMA ListenerNext ==
  ASSUME ListenerOK, HandlersOK,
         IncomingConnection \/ Find \/ Cleanup \/ Sweep
  PROVE  ListenerOK' /\ HandlersOK'
<1>0. /\ Len(pool) \in Nat /\ NoConn \in Nat
      /\ main.k \in Nat /\ main.idle \in Nat /\ main.conn \in Nat
  BY DEF ListenerOK, NoConn, Slots
<1>1. CASE IncomingConnection
  <2>1. main' \in Slots /\ main'.op = "find" /\ main'.k = 1
    BY <1>1 DEF IncomingConnection, ListenerOK, At, Slots
  <2> QED BY <1>1, <2>1
          DEF IncomingConnection, ListenerOK, HandlersOK, PlaceInPool, handlerVars
<1>2. CASE TakeFree
  <2>0. main.op = "find" /\ main.k > 0 /\ main.k <= Len(pool) /\ main.k \in Nat
    BY <1>0, <1>2 DEF TakeFree, ListenerOK, PlaceInPool
  <2>1. pool[main.k] \in Handler BY <2>0 DEF ListenerOK
  <2>2. CASE busy[pool[main.k]]
    <3>1. main' = At("find", main.k + 1, 0, main.conn) /\ busy' = busy
      BY <1>2, <2>2 DEF TakeFree
    <3>2. main' \in Slots /\ main'.op = "find" /\ main'.k = main.k + 1
      BY <1>0, <3>1 DEF At, Slots
    <3>3. UNCHANGED <<pool, conns, called, socket, timer, thread, failed, client>>
      BY <1>2 DEF TakeFree
    <3>4. PlaceInPool' BY <1>0, <2>0, <3>2 DEF PlaceInPool
    <3> QED BY <3>1, <3>2, <3>3, <3>4 DEF ListenerOK, HandlersOK
  <2>3. CASE ~busy[pool[main.k]]
    <3>1. /\ busy' = [busy EXCEPT ![pool[main.k]] = TRUE]
          /\ main' = At("call", main.k, 0, main.conn)
      BY <1>2, <2>3 DEF TakeFree
    <3>2. main' \in Slots /\ main'.op = "call" /\ main'.k = main.k
      BY <1>0, <3>1 DEF At, Slots
    <3>3. busy' \in [Handler -> BOOLEAN] BY <2>1, <3>1 DEF HandlersOK
    <3>4. UNCHANGED <<pool, conns, called, socket, timer, thread, failed, client>>
      BY <1>2 DEF TakeFree
    <3>5. PlaceInPool' BY <1>0, <2>0, <3>2, <3>4 DEF PlaceInPool
    <3> QED BY <3>2, <3>3, <3>4, <3>5 DEF ListenerOK, HandlersOK
  <2> QED BY <2>2, <2>3
<1>3. CASE TakeNew
  <2>1. PICK h \in Handler :
          /\ pool' = Append(pool, h)
          /\ busy' = [busy EXCEPT ![h] = TRUE]
          /\ main' = At("call", Len(pool) + 1, 0, main.conn)
    BY <1>3 DEF TakeNew
  <2>2. /\ main' \in Slots /\ main'.op = "call" /\ main'.k = Len(pool) + 1
    BY <1>0, <2>1 DEF At, Slots
  <2>3. pool' \in Seq(Handler) /\ Len(pool') = Len(pool) + 1
    BY <2>1 DEF ListenerOK
  <2>4. busy' \in [Handler -> BOOLEAN] BY <2>1 DEF HandlersOK
  <2> QED BY <1>0, <1>3, <2>2, <2>3, <2>4
          DEF TakeNew, ListenerOK, HandlersOK, PlaceInPool
<1>4. CASE Reject
  BY <1>4, IdleType DEF Reject, handlerVars, ListenerOK, HandlersOK, PlaceInPool
<1>5. CASE InvokeHandleConnection
  <2>0. main.k \in 1 .. Len(pool)
    BY <1>5 DEF InvokeHandleConnection, ListenerOK, PlaceInPool
  <2>1. pool[main.k] \in Handler BY <2>0 DEF ListenerOK
  <2>2. called' \in [Handler -> Seq(Nat)]
    BY <1>0, <1>5, <2>1 DEF InvokeHandleConnection, HandlersOK
  <2> QED BY <1>5, <2>2, IdleType
          DEF InvokeHandleConnection, ListenerOK, HandlersOK, PlaceInPool
<1>6. CASE Cleanup
  <2>1. main' \in Slots /\ main'.op = "count" /\ main'.k = 1
    BY <1>0, <1>6 DEF Cleanup, At, Slots
  <2> QED BY <1>6, <2>1
          DEF Cleanup, handlerVars, ListenerOK, HandlersOK, PlaceInPool
<1>7. CASE CountIdle
  <2>0. main.op = "count" /\ main.k > 0 /\ main.k \in Nat /\ main.idle \in Nat
    BY <1>0, <1>7 DEF CountIdle, ListenerOK, PlaceInPool
  <2>1. \/ main' = Idle
        \/ main' = At("count", main.k + 1, main.idle, NoConn)
        \/ main' = At("delete", main.k, main.idle, NoConn) /\ main.k <= Len(pool)
        \/ main' = At("count", main.k + 1, main.idle + 1, NoConn)
    BY <1>0, <1>7, <2>0 DEF CountIdle
  <2>6. UNCHANGED <<pool, conns, handlerVars>> BY <1>7 DEF CountIdle
  <2>7. HandlersOK' BY <2>6 DEF handlerVars, HandlersOK
  <2>2. CASE main' = Idle
    BY <2>2, <2>6, <2>7, IdleType DEF ListenerOK, PlaceInPool
  <2>3. CASE main' = At("count", main.k + 1, main.idle, NoConn)
    <3>1. main' \in Slots /\ main'.op = "count" /\ main'.k = main.k + 1
      BY <1>0, <2>3 DEF At, Slots
    <3> QED BY <1>0, <2>6, <2>7, <3>1 DEF ListenerOK, PlaceInPool
  <2>4. CASE main' = At("delete", main.k, main.idle, NoConn) /\ main.k <= Len(pool)
    <3>1. main' \in Slots /\ main'.op = "delete" /\ main'.k = main.k
      BY <1>0, <2>4 DEF At, Slots
    <3> QED BY <1>0, <2>0, <2>4, <2>6, <2>7, <3>1 DEF ListenerOK, PlaceInPool
  <2>5. CASE main' = At("count", main.k + 1, main.idle + 1, NoConn)
    <3>1. main' \in Slots /\ main'.op = "count" /\ main'.k = main.k + 1
      BY <1>0, <2>5 DEF At, Slots
    <3> QED BY <1>0, <2>6, <2>7, <3>1 DEF ListenerOK, PlaceInPool
  <2> QED BY <2>1, <2>2, <2>3, <2>4, <2>5
<1>8. CASE DeleteHandler
  <2>1. main.k \in 1 .. Len(pool)
    BY <1>8 DEF DeleteHandler, ListenerOK, PlaceInPool
  <2>2. pool' \in Seq(Handler)
    BY <1>8, <2>1, RemoveAtElements DEF DeleteHandler, ListenerOK
  <2>3. /\ called' \in [Handler -> Seq(Nat)] /\ socket' \in [Handler -> Nat]
        /\ timer' \in [Handler -> {"off", "running", "due"}]
    <3>1. <<>> \in Seq(Nat) OBVIOUS
    <3>2. /\ called' = [called EXCEPT ![pool[main.k]] = <<>>]
          /\ socket' = [socket EXCEPT ![pool[main.k]] = NoConn]
          /\ timer' = [timer EXCEPT ![pool[main.k]] = "off"]
      BY <1>8 DEF DeleteHandler
    <3> HIDE <1>8
    <3> QED BY <1>0, <3>1, <3>2 DEF HandlersOK
  <2> QED BY <1>8, <2>2, <2>3, IdleType
          DEF DeleteHandler, ListenerOK, HandlersOK, PlaceInPool
<1> QED BY <1>1, <1>2, <1>3, <1>4, <1>5, <1>6, <1>7, <1>8 DEF Find, Sweep

LEMMA HandlerNext ==
  ASSUME ListenerOK, HandlersOK, NEW h \in Handler, Run(h)
  PROVE  ListenerOK' /\ HandlersOK'
<1>0. /\ NewClient \in Clients /\ NoConn \in Nat
      /\ client[h] \in Clients
  BY DEF NewClient, Clients, NoConn, HandlersOK
<1>1. ListenerOK'
  <2>1. UNCHANGED listenerVars
    BY DEF Run, HandleConnection, Read, Serviced, Drained, Elapse, ReadTimeout, Closed,
           ClientCloses, ClientStalls
  <2> QED BY <2>1 DEF listenerVars, ListenerOK, PlaceInPool
<1>2. ASSUME Disconnected(h)
      PROVE  /\ socket' \in [Handler -> Nat]
             /\ timer' \in [Handler -> {"off", "running", "due"}]
             /\ busy' \in [Handler -> BOOLEAN] /\ client' \in [Handler -> Clients]
  BY <1>0, <1>2 DEF Disconnected, HandlersOK
<1>3. CASE HandleConnection(h)
  <2>1. Tail(called[h]) \in Seq(Nat) /\ Head(called[h]) \in Nat
    BY <1>3 DEF HandleConnection, HandlersOK
  <2>2. /\ called' \in [Handler -> Seq(Nat)] /\ busy' \in [Handler -> BOOLEAN]
    BY <1>3, <2>1 DEF HandleConnection, HandlersOK
  <2>3. socket' \in [Handler -> Nat]
    BY <1>0, <1>3, <2>1 DEF HandleConnection, HandlersOK
  <2>4. timer' \in [Handler -> {"off", "running", "due"}] /\ failed' \subseteq Handler
    BY <1>3 DEF HandleConnection, HandlersOK
  <2>5. client' \in [Handler -> Clients]
    BY <1>0, <1>3 DEF HandleConnection, HandlersOK
  <2>6. thread' = thread BY <1>3 DEF HandleConnection
  <2> QED BY <1>1, <2>2, <2>3, <2>4, <2>5, <2>6 DEF HandlersOK
<1>4. CASE Read(h)
  <2>1. /\ thread' \in [Handler -> {"loop", "service", "drain"}]
        /\ timer' \in [Handler -> {"off", "running", "due"}]
    BY <1>4 DEF Read, HandlersOK
  <2> QED BY <1>1, <1>4, <2>1 DEF Read, HandlersOK
<1>5. CASE Serviced(h)
  <2>1. /\ thread' \in [Handler -> {"loop", "service", "drain"}]
        /\ timer' \in [Handler -> {"off", "running", "due"}]
    BY <1>5 DEF Serviced, HandlersOK
  <2> QED BY <1>1, <1>5, <2>1 DEF Serviced, HandlersOK
<1>6. CASE Drained(h)
  <2>1. thread' \in [Handler -> {"loop", "service", "drain"}]
    BY <1>6 DEF Drained, HandlersOK
  <2>2. Disconnected(h) \/ UNCHANGED <<socket, timer, busy, client>>
    BY <1>6 DEF Drained
  <2>3. called' = called /\ failed' = failed BY <1>6 DEF Drained
  <2> QED BY <1>1, <1>2, <2>1, <2>2, <2>3 DEF HandlersOK
<1>7. CASE ReadTimeout(h)
  BY <1>1, <1>7 DEF ReadTimeout, HandlersOK
<1>8. CASE Closed(h)
  BY <1>1, <1>2, <1>8 DEF Closed, HandlersOK
<1>9. CASE ClientCloses(h)
  <2> DEFINE c == [client[h] EXCEPT !.gone = TRUE]
  <2>1. c \in Clients BY <1>0 DEF Clients
  <2>2. client' = [client EXCEPT ![h] = c] BY <1>9 DEF ClientCloses
  <2> QED BY <1>1, <1>9, <2>1, <2>2 DEF ClientCloses, HandlersOK
<1>10. CASE ClientStalls(h)
  <2> DEFINE c == [client[h] EXCEPT !.stalled = TRUE]
  <2>1. c \in Clients BY <1>0 DEF Clients
  <2>2. client' = [client EXCEPT ![h] = c] BY <1>10 DEF ClientStalls
  <2> QED BY <1>1, <1>10, <2>1, <2>2 DEF ClientStalls, HandlersOK
<1>11. CASE Elapse(h)
  BY <1>1, <1>11 DEF Elapse, HandlersOK
<1> QED BY <1>3, <1>4, <1>5, <1>6, <1>7, <1>8, <1>9, <1>10, <1>11 DEF Run

LEMMA TypeNext ==
  TypeOK /\ PlaceInPool /\ [Next]_vars => TypeOK' /\ PlaceInPool'
<1> SUFFICES ASSUME TypeOK, PlaceInPool, [Next]_vars
             PROVE  TypeOK' /\ PlaceInPool'
  OBVIOUS
<1>1. ListenerOK /\ HandlersOK BY DEF TypeOK, ListenerOK, HandlersOK
<1>2. ListenerOK' /\ HandlersOK' => TypeOK' /\ PlaceInPool'
  BY DEF TypeOK, ListenerOK, HandlersOK
<1>3. CASE UNCHANGED vars
  BY <1>3 DEF vars, TypeOK, PlaceInPool
<1> QED BY <1>1, <1>2, <1>3, ListenerNext, HandlerNext DEF Next

-----------------------------------------------------------------------------

LEMMA PoolInit == Init => PoolInv
<1> SUFFICES ASSUME Init PROVE PoolInv OBVIOUS
<1>1. TypeOK /\ PlaceInPool BY TypeInit
<1>2. main.op = "none" BY IdleType DEF Init
<1>3. ASSUME NEW h \in Handler PROVE HandlerInv(h)
  <2>1. called[h] = <<>> /\ socket[h] = NoConn /\ h \notin failed /\ ~busy[h]
    BY DEF Init
  <2>2. ~client[h].gone BY DEF Init, NewClient
  <2> QED BY <1>2, <2>1, <2>2
          DEF HandlerInv, HandedOnce, EngagedIsBusy, BusyIsEngaged,
              FailedIsStuck, GoneWasThere, Engaged, Chosen
<1> QED BY <1>1, <1>2, <1>3 DEF PoolInv, DeletedIsFree, ConnIsNumbered

(* A step that leaves alone what the invariant of a handler is about.      *)
LEMMA HandlerFrame ==
  ASSUME NEW h \in Handler, HandlerInv(h), pool' = pool,
         Chosen(h)' <=> Chosen(h), busy'[h] = busy[h], called'[h] = called[h],
         socket'[h] = socket[h], (h \in failed') <=> (h \in failed),
         client'[h].gone = client[h].gone
  PROVE  HandlerInv(h)'
BY DEF HandlerInv, HandedOnce, EngagedIsBusy, BusyIsEngaged,
       FailedIsStuck, GoneWasThere, Engaged, InPool

LEMMA ListenerInv ==
  ASSUME PoolInv, TypeOK', PlaceInPool',
         IncomingConnection \/ Find \/ Cleanup \/ Sweep
  PROVE  PoolInv'
<1>0. /\ Len(pool) \in Nat /\ NoConn \in Nat /\ NoConn = 0
      /\ main.k \in Nat /\ main.idle \in Nat /\ main.conn \in Nat
  BY DEF PoolInv, TypeOK, NoConn, Slots
<1>1. ASSUME main.op # "call", main'.op # "call", pool' = pool,
             UNCHANGED handlerVars
      PROVE  \A h \in Handler : HandlerInv(h)'
  <2> SUFFICES ASSUME NEW h \in Handler PROVE HandlerInv(h)' OBVIOUS
  <2>1. ~Chosen(h) /\ ~Chosen(h)' BY <1>1 DEF Chosen
  <2>2. /\ busy' = busy /\ called' = called /\ socket' = socket
        /\ failed' = failed /\ client' = client /\ HandlerInv(h)
    BY <1>1 DEF handlerVars, PoolInv
  <2> QED BY <1>1, <2>1, <2>2, HandlerFrame
<1>2. CASE IncomingConnection
  <2>1. main'.op = "find" /\ main'.conn = conns + 1
    BY <1>2 DEF IncomingConnection, At
  <2>2. main.op = "none" BY <1>2, IdleType DEF IncomingConnection
  <2>3. conns + 1 # NoConn BY <1>0 DEF PoolInv, TypeOK
  <2>4. pool' = pool /\ UNCHANGED handlerVars BY <1>2 DEF IncomingConnection
  <2>5. \A h \in Handler : HandlerInv(h)' BY <1>1, <2>1, <2>2, <2>4
  <2> QED BY <2>1, <2>3, <2>5 DEF PoolInv, DeletedIsFree, ConnIsNumbered
<1>3. CASE TakeFree
  <2> DEFINE g == pool[main.k]
  <2>0. main.op = "find" /\ main.k \in 1 .. Len(pool) /\ main.conn # NoConn
    BY <1>0, <1>3 DEF TakeFree, PoolInv, PlaceInPool, ConnIsNumbered
  <2>1. g \in Handler /\ InPool(g)
    <3>1. g \in Handler BY <2>0 DEF PoolInv, TypeOK
    <3> QED BY <2>0, <3>1 DEF InPool
  <2>2. CASE busy[g]
    <3>1. /\ main'.op = "find" /\ main'.conn = main.conn
          /\ pool' = pool /\ UNCHANGED handlerVars
      BY <1>3, <2>2 DEF TakeFree, At, handlerVars
    <3>2. \A h \in Handler : HandlerInv(h)' BY <1>1, <2>0, <3>1
    <3> QED BY <2>0, <3>1, <3>2 DEF PoolInv, DeletedIsFree, ConnIsNumbered
  <2>3. CASE ~busy[g]
    <3>1. /\ main'.op = "call" /\ main'.conn = main.conn /\ main'.k = main.k
          /\ busy' = [busy EXCEPT ![g] = TRUE]
          /\ UNCHANGED <<pool, called, socket, failed, client>>
      BY <1>3, <2>3 DEF TakeFree, At
    <3>2. ASSUME NEW h \in Handler, h # g PROVE HandlerInv(h)'
      <4>1. ~Chosen(h) /\ ~Chosen(h)' BY <2>0, <3>1, <3>2 DEF Chosen
      <4>2. busy'[h] = busy[h] BY <3>1, <3>2 DEF PoolInv, TypeOK
      <4>3. HandlerInv(h) BY DEF PoolInv
      <4> QED BY <3>1, <4>1, <4>2, <4>3, HandlerFrame
    <3>3. HandlerInv(g)'
      <4>1. HandlerInv(g) BY <2>1 DEF PoolInv
      <4>2. ~Engaged(g) BY <2>3, <4>1 DEF HandlerInv, EngagedIsBusy
      <4>3. Chosen(g)' /\ InPool(g)' /\ busy'[g]
        BY <2>1, <3>1 DEF Chosen, InPool, PoolInv, TypeOK
      <4> QED BY <3>1, <4>1, <4>2, <4>3
              DEF HandlerInv, HandedOnce, EngagedIsBusy, BusyIsEngaged,
                  FailedIsStuck, GoneWasThere, Engaged
    <3> QED BY <2>0, <3>1, <3>2, <3>3 DEF PoolInv, DeletedIsFree, ConnIsNumbered
  <2> QED BY <2>2, <2>3
<1>4. CASE TakeNew
  <2>0. main.op = "find" /\ main.conn # NoConn
    BY <1>4 DEF TakeNew, PoolInv, ConnIsNumbered
  <2>1. PICK g \in Handler \ ToSet(pool) :
          /\ pool' = Append(pool, g)
          /\ busy' = [busy EXCEPT ![g] = TRUE]
          /\ main' = At("call", Len(pool) + 1, 0, main.conn)
    BY <1>4 DEF TakeNew
  <2>2. UNCHANGED <<called, socket, failed, client>> BY <1>4 DEF TakeNew
  <2>3. main'.op = "call" /\ main'.k = Len(pool) + 1 /\ main'.conn = main.conn
    BY <2>1 DEF At
  <2>4. /\ pool'[Len(pool) + 1] = g /\ Len(pool') = Len(pool) + 1
        /\ \A i \in 1 .. Len(pool) : pool'[i] = pool[i]
    BY <2>1 DEF PoolInv, TypeOK
  <2>5. ~InPool(g)
    <3>1. DOMAIN pool = 1 .. Len(pool) BY DEF PoolInv, TypeOK
    <3> QED BY <2>1, <3>1 DEF InPool, ToSet
  <2>6. ASSUME NEW h \in Handler, h # g PROVE HandlerInv(h)'
    <3>1. ~Chosen(h) /\ ~Chosen(h)' BY <2>0, <2>3, <2>4, <2>6 DEF Chosen
    <3>2. busy'[h] = busy[h] BY <2>1, <2>6 DEF PoolInv, TypeOK
    <3>3. InPool(h)' <=> InPool(h)
      BY <1>0, <2>4, <2>6 DEF InPool
    <3>4. HandlerInv(h) BY DEF PoolInv
    <3> QED BY <2>2, <3>1, <3>2, <3>3, <3>4
            DEF HandlerInv, HandedOnce, EngagedIsBusy, BusyIsEngaged,
                FailedIsStuck, GoneWasThere, Engaged
  <2>7. HandlerInv(g)'
    <3>1. HandlerInv(g) BY DEF PoolInv
    <3>2. ~Engaged(g) BY <2>5, <3>1 DEF HandlerInv, EngagedIsBusy
    <3>3. Chosen(g)' BY <2>3, <2>4 DEF Chosen
    <3>4. InPool(g)' BY <1>0, <2>4 DEF InPool
    <3>5. busy'[g] BY <2>1 DEF PoolInv, TypeOK
    <3> QED BY <2>2, <3>1, <3>2, <3>3, <3>4, <3>5
            DEF HandlerInv, HandedOnce, EngagedIsBusy, BusyIsEngaged,
                FailedIsStuck, GoneWasThere, Engaged
  <2> QED BY <2>0, <2>3, <2>6, <2>7 DEF PoolInv, DeletedIsFree, ConnIsNumbered
<1>5. CASE Reject
  <2>1. /\ main'.op = "none" /\ main.op = "find"
        /\ pool' = pool /\ UNCHANGED handlerVars
    BY <1>5, IdleType DEF Reject
  <2>2. \A h \in Handler : HandlerInv(h)' BY <1>1, <2>1
  <2> QED BY <2>1, <2>2 DEF PoolInv, DeletedIsFree, ConnIsNumbered
<1>6. CASE InvokeHandleConnection
  <2>0. main.op = "call" /\ main.k \in 1 .. Len(pool) /\ main.conn # NoConn
    BY <1>6 DEF InvokeHandleConnection, PoolInv, PlaceInPool, ConnIsNumbered
  <2>9. PICK g \in Handler : g = pool[main.k]
    <3>1. pool \in Seq(Handler) BY DEF PoolInv, TypeOK
    <3> QED BY <2>0, <3>1
  <2>1. /\ main'.op = "none" /\ called' = [called EXCEPT ![g] = Append(@, main.conn)]
        /\ UNCHANGED <<pool, busy, socket, failed, client>>
    BY <1>6, <2>9, IdleType DEF InvokeHandleConnection
  <2>2. Chosen(g) BY <2>0, <2>9 DEF Chosen
  <2>3. ASSUME NEW h \in Handler, h # g PROVE HandlerInv(h)'
    <3>1. ~Chosen(h) /\ ~Chosen(h)' BY <2>1, <2>3, <2>9 DEF Chosen
    <3>2. called'[h] = called[h] BY <2>1, <2>3 DEF PoolInv, TypeOK
    <3>3. HandlerInv(h) BY DEF PoolInv
    <3> QED BY <2>1, <3>1, <3>2, <3>3, HandlerFrame
  <2>4. HandlerInv(g)'
    <3>1. HandlerInv(g) BY <2>2 DEF PoolInv
    <3>2. socket[g] = NoConn /\ called[g] = <<>>
      BY <2>2, <3>1 DEF HandlerInv, HandedOnce
    <3>3. called'[g] = <<main.conn>>
      BY <2>1, <2>2, <3>2 DEF PoolInv, TypeOK
    <3>4. called'[g] # <<>> /\ Len(called'[g]) = 1 /\ called'[g][1] = main.conn
      BY <3>3
    <3>5. ~Chosen(g)' /\ g \notin failed
      BY <2>1, <2>2, <3>1 DEF Chosen, HandlerInv, FailedIsStuck
    <3>6. Engaged(g) /\ Engaged(g)' BY <2>2, <3>4 DEF Engaged
    <3>7. InPool(g)' <=> InPool(g) BY <2>1 DEF InPool
    <3> QED BY <2>0, <2>1, <3>1, <3>2, <3>4, <3>5, <3>6, <3>7
            DEF HandlerInv, HandedOnce, EngagedIsBusy, BusyIsEngaged,
                FailedIsStuck, GoneWasThere
  <2> QED BY <2>1, <2>3, <2>4 DEF PoolInv, DeletedIsFree, ConnIsNumbered
<1>7. CASE Cleanup
  <2>1. main'.op = "count" /\ pool' = pool /\ UNCHANGED handlerVars
    BY <1>7 DEF Cleanup, At
  <2>2. main.op = "none" BY <1>7, IdleType DEF Cleanup
  <2>3. \A h \in Handler : HandlerInv(h)' BY <1>1, <2>1, <2>2
  <2> QED BY <2>1, <2>3 DEF PoolInv, DeletedIsFree, ConnIsNumbered
<1>8. CASE CountIdle
  <2>1. main.op = "count" /\ pool' = pool /\ UNCHANGED handlerVars
    BY <1>8 DEF CountIdle
  <2>2. \/ main'.op \in {"none", "count"}
        \/ main'.op = "delete" /\ main'.k = main.k /\ ~busy[pool[main.k]]
    BY <1>8, IdleType DEF CountIdle, At
  <2>3. \A h \in Handler : HandlerInv(h)' BY <1>1, <2>1, <2>2
  <2>4. DeletedIsFree' BY <2>1, <2>2 DEF DeletedIsFree, handlerVars
  <2> QED BY <2>2, <2>3, <2>4 DEF PoolInv, ConnIsNumbered
<1>9. CASE DeleteHandler
  <2> DEFINE g == pool[main.k]
  <2>0. main.op = "delete" /\ main.k \in 1 .. Len(pool)
    BY <1>9 DEF DeleteHandler, PoolInv, PlaceInPool
  <2>1. /\ main'.op = "none" /\ pool' = RemoveAt(pool, main.k)
        /\ called' = [called EXCEPT ![g] = <<>>]
        /\ socket' = [socket EXCEPT ![g] = NoConn]
        /\ UNCHANGED <<busy, failed, client>>
    BY <1>9, IdleType DEF DeleteHandler
  <2>2. g \in Handler /\ ~busy[g]
    BY <2>0 DEF PoolInv, TypeOK, DeletedIsFree
  <2>3. HandlerInv(g) /\ ~Engaged(g)
    BY <2>2 DEF PoolInv, HandlerInv, EngagedIsBusy
  <2>4. called' = called /\ socket' = socket
    BY <2>1, <2>2, <2>3 DEF Engaged, PoolInv, TypeOK
  <2>5. /\ Len(pool') = Len(pool) - 1
        /\ \A i \in 1 .. Len(pool) - 1 :
             pool'[i] = IF i < main.k THEN pool[i] ELSE pool[i + 1]
    <3>1. pool \in Seq(Handler) BY DEF PoolInv, TypeOK
    <3> HIDE <1>9
    <3>2. /\ Len(RemoveAt(pool, main.k)) = Len(pool) - 1
          /\ \A i \in 1 .. Len(pool) - 1 :
               RemoveAt(pool, main.k)[i] =
                 IF i < main.k THEN pool[i] ELSE pool[i + 1]
      BY <2>0, <3>1, RemoveAtElements
    <3> QED BY <2>1, <3>2
  <2>6. ASSUME NEW h \in Handler PROVE HandlerInv(h)'
    <3>1. ~Chosen(h) /\ ~Chosen(h)' BY <2>0, <2>1 DEF Chosen
    <3>2. InPool(h)' => InPool(h)
      <4> SUFFICES ASSUME NEW i \in 1 .. Len(pool) - 1, pool'[i] = h
                   PROVE  InPool(h)
        BY <2>5 DEF InPool
      <4>1. i \in 1 .. Len(pool) /\ i + 1 \in 1 .. Len(pool) BY <1>0
      <4> QED BY <2>5, <4>1 DEF InPool
    <3>3. ASSUME InPool(h), h # g PROVE InPool(h)'
      <4>1. PICK i \in 1 .. Len(pool) : pool[i] = h BY <3>3 DEF InPool
      <4>2. i # main.k BY <3>3, <4>1
      <4>3. CASE i < main.k
        <5>1. i \in 1 .. Len(pool) - 1 BY <1>0, <2>0, <4>3
        <5> QED BY <2>5, <4>1, <4>3, <5>1 DEF InPool
      <4>4. CASE i > main.k
        <5>1. /\ i - 1 \in 1 .. Len(pool) - 1 /\ ~(i - 1 < main.k)
              /\ (i - 1) + 1 = i
          BY <1>0, <2>0, <4>4
        <5>2. pool'[i - 1] = h BY <2>5, <4>1, <5>1
        <5> QED BY <2>5, <5>1, <5>2 DEF InPool
      <4> QED BY <1>0, <4>2, <4>3, <4>4
    <3>4. HandlerInv(h) BY DEF PoolInv
    <3>5. HandedOnce(h)' /\ FailedIsStuck(h)' /\ GoneWasThere(h)'
      BY <2>1, <2>4, <3>1, <3>4
         DEF HandlerInv, HandedOnce, FailedIsStuck, GoneWasThere
    <3>6. Engaged(h)' <=> Engaged(h)
      BY <2>1, <2>4, <3>1 DEF Engaged
    <3>7. EngagedIsBusy(h)' /\ BusyIsEngaged(h)'
      BY <2>1, <2>2, <2>3, <3>2, <3>3, <3>4, <3>6
         DEF HandlerInv, EngagedIsBusy, BusyIsEngaged
    <3> QED BY <3>5, <3>7 DEF HandlerInv
  <2> QED BY <2>1, <2>6 DEF PoolInv, DeletedIsFree, ConnIsNumbered
<1> QED BY <1>2, <1>3, <1>4, <1>5, <1>6, <1>7, <1>8, <1>9 DEF Find, Sweep

LEMMA RunInv ==
  ASSUME PoolInv, TypeOK', PlaceInPool', NEW g \in Handler, Run(g)
  PROVE  PoolInv'
<1>1. pool' = pool /\ main' = main /\ HandlerInv(g)
  BY DEF Run, HandleConnection, Read, Serviced, Drained, Elapse, ReadTimeout, Closed,
         ClientCloses, ClientStalls, listenerVars, PoolInv
<1>2. \A h \in Handler : Chosen(h)' <=> Chosen(h) BY <1>1 DEF Chosen
<1>3. \A h \in Handler : InPool(h)' <=> InPool(h) BY <1>1 DEF InPool
(* It is enough to look at the handler that runs, and at its flag if it is *)
(* about to be deleted.                                                    *)
<1>4. ASSUME \A h \in Handler \ {g} :
                /\ busy'[h] = busy[h] /\ called'[h] = called[h]
                /\ socket'[h] = socket[h] /\ client'[h] = client[h]
                /\ h \in failed' <=> h \in failed,
             busy'[g] => busy[g] \/ Engaged(g),
             HandlerInv(g)'
      PROVE  PoolInv'
  <2>1. ASSUME NEW h \in Handler, h # g PROVE HandlerInv(h)'
    <3>1. HandlerInv(h) /\ (Chosen(h)' <=> Chosen(h)) BY <1>2 DEF PoolInv
    <3>2. HandedOnce(h)' /\ FailedIsStuck(h)' /\ GoneWasThere(h)'
      BY <1>4, <2>1, <3>1
         DEF HandlerInv, HandedOnce, FailedIsStuck, GoneWasThere
    <3>3. Engaged(h)' <=> Engaged(h) BY <1>4, <2>1, <3>1 DEF Engaged
    <3>4. EngagedIsBusy(h)' /\ BusyIsEngaged(h)'
      BY <1>3, <1>4, <2>1, <3>1, <3>3
         DEF HandlerInv, EngagedIsBusy, BusyIsEngaged
    <3> QED BY <3>2, <3>4 DEF HandlerInv
  <2>2. DeletedIsFree'
    <3> SUFFICES ASSUME main.op = "delete" PROVE ~busy'[pool[main.k]]
      BY <1>1 DEF DeletedIsFree
    <3>0. main.k \in 1 .. Len(pool) /\ ~busy[pool[main.k]]
      BY DEF PoolInv, PlaceInPool, DeletedIsFree
    <3>1. pool[main.k] \in Handler
      <4>1. pool \in Seq(Handler) BY DEF PoolInv, TypeOK
      <4> QED BY <3>0, <4>1
    <3>2. CASE pool[main.k] = g
      BY <1>1, <1>4, <3>0, <3>2 DEF HandlerInv, EngagedIsBusy
    <3> QED BY <1>4, <3>0, <3>1, <3>2
  <2>3. ConnIsNumbered' BY <1>1 DEF PoolInv, ConnIsNumbered
  <2> QED BY <1>4, <2>1, <2>2, <2>3 DEF PoolInv
<1>5. ASSUME UNCHANGED <<busy, called, socket, failed>>,
             client'[g].gone => client[g].gone \/ socket[g] # NoConn
      PROVE  HandlerInv(g)'
  <2>1. Engaged(g)' <=> Engaged(g) BY <1>2, <1>5 DEF Engaged
  <2> QED BY <1>1, <1>2, <1>3, <1>5, <2>1
          DEF HandlerInv, HandedOnce, EngagedIsBusy, BusyIsEngaged,
              FailedIsStuck, GoneWasThere
<1>6. ASSUME socket[g] # NoConn, Disconnected(g), called' = called,
             failed' = failed
      PROVE  PoolInv'
  <2>1. called[g] = <<>> /\ ~Chosen(g) /\ g \notin failed
    BY <1>1, <1>6 DEF HandlerInv, HandedOnce, FailedIsStuck
  <2>2. /\ socket'[g] = NoConn /\ ~busy'[g] /\ ~client'[g].gone
        /\ \A h \in Handler \ {g} :
             /\ busy'[h] = busy[h] /\ socket'[h] = socket[h]
             /\ client'[h] = client[h]
    BY <1>6 DEF Disconnected, PoolInv, TypeOK, NewClient
  <2>3. ~Engaged(g)' BY <1>2, <1>6, <2>1, <2>2 DEF Engaged
  <2>4. HandlerInv(g)'
    BY <1>2, <1>6, <2>1, <2>2, <2>3
       DEF HandlerInv, HandedOnce, EngagedIsBusy, BusyIsEngaged,
           FailedIsStuck, GoneWasThere
  <2> QED BY <1>4, <1>6, <2>2, <2>4
<1>7. CASE HandleConnection(g)
  <2>1. /\ called[g] # <<>>
        /\ called' = [called EXCEPT ![g] = Tail(@)]
        /\ busy' = [busy EXCEPT ![g] = TRUE]
    BY <1>7 DEF HandleConnection
  <2>2. /\ socket[g] = NoConn /\ Len(called[g]) = 1 /\ called[g][1] # NoConn
        /\ ~Chosen(g) /\ ~client[g].gone /\ InPool(g) /\ g \notin failed
    BY <1>1, <2>1 DEF HandlerInv, HandedOnce, EngagedIsBusy, FailedIsStuck,
                      GoneWasThere, Engaged
  <2>3. called[g] \in Seq(Nat) BY DEF PoolInv, TypeOK
  <2>4. Tail(called[g]) = <<>> /\ Head(called[g]) = called[g][1]
    <3>1. Len(Tail(called[g])) = 0 /\ Tail(called[g]) \in Seq(Nat)
      BY <2>1, <2>2, <2>3
    <3>2. Tail(called[g]) = <<>> BY <3>1, EmptySeq
    <3>3. Head(called[g]) = called[g][1] BY <2>3
    <3> QED BY <3>2, <3>3
  <2>5. called'[g] = <<>> /\ busy'[g] BY <2>1, <2>4 DEF PoolInv, TypeOK
  <2>6. \/ /\ socket' = [socket EXCEPT ![g] = called[g][1]]
           /\ client' = [client EXCEPT ![g] = NewClient]
           /\ failed' = failed
        \/ /\ socket' = [socket EXCEPT ![g] = NoConn]
           /\ failed' = failed \cup {g}
           /\ client' = client
    BY <1>7, <2>4 DEF HandleConnection
  <2>7. /\ ~client'[g].gone
        /\ \/ socket'[g] # NoConn /\ g \notin failed'
           \/ socket'[g] = NoConn /\ g \in failed'
    <3>1. ~NewClient.gone BY DEF NewClient
    <3>2. client'[g] \in {client[g], NewClient}
      BY <2>6 DEF PoolInv, TypeOK
    <3>3. \/ socket'[g] # NoConn /\ g \notin failed'
          \/ socket'[g] = NoConn /\ g \in failed'
      BY <2>2, <2>6 DEF PoolInv, TypeOK
    <3> QED BY <2>2, <3>1, <3>2, <3>3
  <2>8. HandlerInv(g)'
    BY <1>2, <1>3, <2>2, <2>5, <2>7
       DEF HandlerInv, HandedOnce, EngagedIsBusy, BusyIsEngaged,
           FailedIsStuck, GoneWasThere, Engaged
  <2>9. Engaged(g) BY <2>1 DEF Engaged
  <2>10. ASSUME NEW h \in Handler \ {g}
         PROVE  /\ busy'[h] = busy[h] /\ called'[h] = called[h]
                /\ socket'[h] = socket[h] /\ client'[h] = client[h]
                /\ h \in failed' <=> h \in failed
    <3>1. busy'[h] = busy[h] /\ called'[h] = called[h]
      BY <2>1 DEF PoolInv, TypeOK
    <3>2. /\ socket'[h] = socket[h] /\ client'[h] = client[h]
          /\ h \in failed' <=> h \in failed
      BY <2>6 DEF PoolInv, TypeOK
    <3> QED BY <3>1, <3>2
  <2> QED BY <1>4, <2>8, <2>9, <2>10
<1>8. ASSUME UNCHANGED <<busy, called, socket, failed>>,
             \A h \in Handler \ {g} : client'[h] = client[h],
             client'[g].gone => client[g].gone \/ socket[g] # NoConn
      PROVE  PoolInv'
  BY <1>4, <1>5, <1>8
<1>9. CASE Read(g)
  BY <1>8, <1>9 DEF Read
<1>10. CASE Serviced(g)
  BY <1>8, <1>10 DEF Serviced
<1>11. CASE Drained(g)
  <2>1. CASE socket[g] # NoConn
    BY <1>6, <1>11, <2>1 DEF Drained
  <2>2. CASE socket[g] = NoConn
    BY <1>8, <1>11, <2>2 DEF Drained
  <2> QED BY <2>1, <2>2
<1>12. CASE ReadTimeout(g)
  BY <1>8, <1>12 DEF ReadTimeout
<1>13. CASE Closed(g)
  <2>1. socket[g] # NoConn BY <1>1, <1>13 DEF Closed, HandlerInv, GoneWasThere
  <2> QED BY <1>6, <1>13, <2>1 DEF Closed
<1>14. CASE ClientCloses(g)
  <2>1. UNCHANGED <<busy, called, socket, failed>> BY <1>14 DEF ClientCloses
  <2>2. socket[g] # NoConn /\ \A h \in Handler \ {g} : client'[h] = client[h]
    BY <1>14 DEF ClientCloses, PoolInv, TypeOK
  <2> QED BY <1>8, <2>1, <2>2
<1>15. CASE ClientStalls(g)
  <2>1. UNCHANGED <<busy, called, socket, failed>> BY <1>15 DEF ClientStalls
  <2>2. socket[g] # NoConn /\ \A h \in Handler \ {g} : client'[h] = client[h]
    BY <1>15 DEF ClientStalls, PoolInv, TypeOK
  <2> QED BY <1>8, <2>1, <2>2
<1>16. CASE Elapse(g)
  BY <1>8, <1>16 DEF Elapse
<1> QED BY <1>7, <1>9, <1>10, <1>11, <1>12, <1>13, <1>14, <1>15, <1>16 DEF Run

LEMMA PoolNext == PoolInv /\ [Next]_vars => PoolInv'
<1> SUFFICES ASSUME PoolInv, [Next]_vars PROVE PoolInv' OBVIOUS
<1>1. TypeOK' /\ PlaceInPool' BY TypeNext DEF PoolInv
<1>2. CASE UNCHANGED vars
  BY <1>2 DEF vars, PoolInv, TypeOK, PlaceInPool, DeletedIsFree, ConnIsNumbered,
              HandlerInv, HandedOnce, EngagedIsBusy, BusyIsEngaged,
              FailedIsStuck, GoneWasThere, Engaged, Chosen, InPool
<1> QED BY <1>1, <1>2, ListenerInv, RunInv DEF Next

LEMMA PoolInvariant == Spec => []PoolInv
<1> QED BY PoolInit, PoolNext, PTL DEF Spec

(* Every state has the type of the module.                                 *)
THEOREM PoolTypeCorrect == Spec => []TypeOK
<1>1. PoolInv => TypeOK BY DEF PoolInv
<1> QED BY <1>1, PoolInvariant, PTL

(* A connection is handed to a handler only after the one before it has    *)
(* been closed, for any number of handlers, connections and requests.      *)
THEOREM HandedOutOnce == Spec => []NoDoubleHandout
<1>1. PoolInv => NoDoubleHandout
  BY DEF PoolInv, HandlerInv, HandedOnce, NoDoubleHandout
<1> QED BY <1>1, PoolInvariant, PTL

(* The flag of a handler of the pool is set exactly while it is engaged.   *)
THEOREM BusyMeansEngaged == Spec => []BusyIsExact
<1>1. ASSUME PoolInv PROVE BusyIsExact
  <2> SUFFICES ASSUME NEW h \in ToSet(pool)
               PROVE  busy[h] <=> Engaged(h)
    BY DEF BusyIsExact, Engaged
  <2>1. h \in Handler /\ InPool(h)
    BY <1>1 DEF ToSet, InPool, PoolInv, TypeOK
  <2> QED BY <1>1, <2>1 DEF PoolInv, HandlerInv, EngagedIsBusy, BusyIsEngaged
<1> QED BY <1>1, PoolInvariant, PTL

=============================================================================
