------------------------ MODULE RequestMapperProofs -------------------------
(***************************************************************************)
(* Proofs about the sessions and the cache of the HTTP server, for any     *)
(* handlers, sessions, requests, times and files.                          *)
(***************************************************************************)
EXTENDS RequestMapper, FiniteSetTheorems, TLAPS

Labels ==
  {"idle", "create", "open", "touch", "look", "pass", "remove", "return", "drop",
   "delete", "static", "cache", "respond", "read", "insert", "sweep", "erase"}

Ids == Session \cup {NoSession}

Drops == [of : Ids, left : Int]

Sweeps == [now : Nat, todo : SUBSET Session, last : Nat]

Entries == [doc : Nat, created : Nat]

RequestsOK ==
  /\ load \in Workload /\ requests \in Nat
  /\ path \in [Thread -> {"public", "login", "page", "check"}]
  /\ id \in [Thread -> Ids]
  /\ at \in [Thread -> {"mapper", "login", "ticket"}]

ControlOK ==
  /\ pc \in [Actor -> Labels]
  /\ after \in [Actor -> {"idle", "open", "static", "sweep"}]

HandlesOK ==
  /\ session \in [Actor -> Ids] /\ param \in [Actor -> Ids]
  /\ dropped \in [Actor -> Drops]

DataOK ==
  /\ sessions \subseteq Session
  /\ data \in [Session -> {"new", "alive", "deleted"}]
  /\ refs \in [Session -> Int] /\ last \in [Session -> Nat]
  /\ user \in [Session -> BOOLEAN]

TimeOK == sweep \in Sweeps /\ clock \in Nat

CacheOK ==
  /\ since \in [Thread -> Nat] /\ doc \in [Thread -> Nat]
  /\ entry \in Entries /\ file \in Nat \ {0}
  /\ replaced \in [1 .. file - 1 -> Nat]

TypeOK ==
  RequestsOK /\ ControlOK /\ HandlesOK /\ DataOK /\ TimeOK /\ CacheOK

-----------------------------------------------------------------------------

LEMMA MapperTypeInit == Init => TypeOK
<1> SUFFICES ASSUME Init PROVE TypeOK OBVIOUS
<1>1. RequestsOK BY DEF Init, RequestsOK, Ids
<1>2. ControlOK BY DEF Init, ControlOK, Labels
<1>3. HandlesOK BY DEF Init, HandlesOK, Ids, NoDrop, Drops
<1>4. DataOK BY DEF Init, DataOK
<1>5. TimeOK BY DEF Init, TimeOK, Sweeps
<1>6. CacheOK BY DEF Init, CacheOK, NoEntry, Entries
<1> QED BY <1>1, <1>2, <1>3, <1>4, <1>5, <1>6 DEF TypeOK

LEMMA CopiedType ==
  ASSUME refs \in [Session -> Int], NEW s \in Ids
  PROVE  Copied(s) \in [Session -> Int]
BY DEF Copied, Ids

LEMMA MapperTypeThread ==
  ASSUME TypeOK, NEW t \in Thread, Find(t) \/ Login(t) \/ Static(t)
  PROVE  TypeOK'
<1> USE DEF TypeOK
<1>0. t \in Actor /\ NoSession \in Ids BY DEF Actor, Ids
<1>1. CASE Service(t)
  <2>1. HandlesOK' /\ DataOK' /\ TimeOK' /\ CacheOK'
    BY <1>1 DEF Service, HandlesOK, handleVars, DataOK, dataVars, TimeOK, CacheOK,
                cacheVars
  <2>2. RequestsOK'
    <3>1. PICK cookie \in Ids, p \in load.paths :
            /\ path' = [path EXCEPT ![t] = p]
            /\ id' = [id EXCEPT ![t] = IF cookie \in sessions THEN cookie
                                                             ELSE NoSession]
            /\ at' = [at EXCEPT ![t] = IF p = "login" THEN "login" ELSE "mapper"]
      BY <1>1 DEF Service, Ids
    <3>2. p \in {"public", "login", "page", "check"}
      BY MapperAssumption DEF RequestsOK
    <3>3. /\ path' \in [Thread -> {"public", "login", "page", "check"}]
          /\ id' \in [Thread -> Ids]
          /\ at' \in [Thread -> {"mapper", "login", "ticket"}]
      BY <1>0, <3>1, <3>2 DEF RequestsOK
    <3> QED BY <1>1, <3>3 DEF Service, RequestsOK
  <2>3. ControlOK' BY <1>0, <1>1 DEF Service, Goto, ControlOK, Labels
  <2> QED BY <2>1, <2>2, <2>3
<1>2. CASE CreateSession(t)
  <2>1. RequestsOK' /\ TimeOK' /\ CacheOK'
    BY <1>2 DEF CreateSession, RequestsOK, requestVars, TimeOK, CacheOK, cacheVars
  <2>2. ControlOK' BY <1>0, <1>2 DEF CreateSession, Goto, ControlOK, Labels
  <2>3. HandlesOK' BY <1>0, <1>2 DEF CreateSession, HandlesOK, Ids
  <2>4. DataOK'
    <3>1. PICK s \in Session :
            /\ data' = [data EXCEPT ![s] = "alive"]
            /\ refs' = [refs EXCEPT ![s] = 2]
            /\ last' = [last EXCEPT ![s] = clock]
            /\ sessions' = sessions \cup {s}
      BY <1>2 DEF CreateSession
    <3>2. refs' \in [Session -> Int] /\ last' \in [Session -> Nat]
      BY <3>1 DEF DataOK, TimeOK
    <3> QED BY <1>2, <3>1, <3>2 DEF CreateSession, DataOK
  <2> QED BY <2>1, <2>2, <2>3, <2>4
<1>3. CASE OpenSession(t)
  <2>1. RequestsOK' /\ TimeOK' /\ CacheOK'
    BY <1>3 DEF OpenSession, RequestsOK, requestVars, TimeOK, CacheOK, cacheVars
  <2>2. ControlOK' BY <1>0, <1>3 DEF OpenSession, Goto, ControlOK, Labels
  <2>3. HandlesOK'
    <3>1. id[t] \in Ids BY DEF RequestsOK
    <3>2. session' \in [Actor -> Ids]
      BY <1>0, <1>3, <3>1 DEF OpenSession, HandlesOK
    <3> QED BY <1>3, <3>2 DEF OpenSession, HandlesOK
  <2>4. DataOK'
    <3>1. id[t] \in Ids BY DEF RequestsOK
    <3>2. refs' \in [Session -> Int]
      BY <1>0, <1>3, <3>1, CopiedType DEF OpenSession, DataOK
    <3> QED BY <1>3, <3>2 DEF OpenSession, DataOK
  <2> QED BY <2>1, <2>2, <2>3, <2>4
<1>4. CASE Touch(t)
  <2>1. RequestsOK' /\ HandlesOK' /\ TimeOK' /\ CacheOK'
    BY <1>4 DEF Touch, RequestsOK, requestVars, HandlesOK, handleVars, TimeOK,
                CacheOK, cacheVars
  <2>2. ControlOK' BY <1>0, <1>4 DEF Touch, Goto, ControlOK, Labels
  <2>3. DataOK'
    <3>1. session[t] \in Session \/ last' = last
      BY <1>0, <1>4 DEF Touch, HandlesOK, Ids
    <3>2. last' = last \/ last' = [last EXCEPT ![session[t]] = clock]
      BY <1>4 DEF Touch
    <3>3. last' \in [Session -> Nat] BY <3>1, <3>2 DEF DataOK, TimeOK
    <3> QED BY <1>4, <3>3 DEF Touch, DataOK
  <2> QED BY <2>1, <2>2, <2>3
<1>5. CASE Gate(t)
  <2>1. HandlesOK' /\ DataOK' /\ TimeOK' /\ CacheOK'
    BY <1>5 DEF Gate, HandlesOK, handleVars, DataOK, dataVars, TimeOK, CacheOK,
                cacheVars
  <2>2. RequestsOK' BY <1>0, <1>5 DEF Gate, RequestsOK, Ids
  <2>3. ControlOK' BY <1>0, <1>5 DEF Gate, Goto, ControlOK, Labels
  <2> QED BY <2>1, <2>2, <2>3
<1>6. CASE LoggedIn(t)
  <2>1. RequestsOK' /\ HandlesOK' /\ DataOK' /\ TimeOK' /\ CacheOK'
    BY <1>6 DEF LoggedIn, RequestsOK, requestVars, HandlesOK, handleVars, DataOK,
                dataVars, TimeOK, CacheOK, cacheVars
  <2>2. ControlOK' BY <1>0, <1>6 DEF LoggedIn, Goto, ControlOK, Labels
  <2> QED BY <2>1, <2>2
<1>7. CASE RightPassword(t)
  <2>1. RequestsOK' /\ HandlesOK' /\ TimeOK' /\ CacheOK'
    BY <1>7 DEF RightPassword, RequestsOK, requestVars, HandlesOK, handleVars, TimeOK,
                CacheOK, cacheVars
  <2>2. ControlOK' BY <1>0, <1>7 DEF RightPassword, Goto, ControlOK, Labels
  <2>3. DataOK' BY <1>0, <1>7 DEF RightPassword, DataOK
  <2> QED BY <2>1, <2>2, <2>3
<1>8. CASE WrongPassword(t)
  <2>1. RequestsOK' /\ TimeOK' /\ CacheOK'
    BY <1>8 DEF WrongPassword, RequestsOK, requestVars, TimeOK, CacheOK, cacheVars
  <2>2. ControlOK' BY <1>0, <1>8 DEF WrongPassword, Goto, ControlOK, Labels
  <2>3. HandlesOK' BY <1>0, <1>8 DEF WrongPassword, HandlesOK, Ids
  <2>4. DataOK'
    <3>1. session[t] \in Ids BY <1>0 DEF HandlesOK
    <3>2. refs' \in [Session -> Int]
      BY <1>8, <3>1, CopiedType DEF WrongPassword, DataOK
    <3> QED BY <1>8, <3>2 DEF WrongPassword, DataOK
  <2> QED BY <2>1, <2>2, <2>3, <2>4
<1>9. CASE RemoveSession(t)
  <2>1. RequestsOK' /\ HandlesOK' /\ TimeOK' /\ CacheOK'
    BY <1>9 DEF RemoveSession, RequestsOK, requestVars, HandlesOK, handleVars, TimeOK,
                CacheOK, cacheVars
  <2>2. ControlOK' BY <1>0, <1>9 DEF RemoveSession, Goto, ControlOK, Labels
  <2>3. DataOK' BY <1>0, <1>9 DEF RemoveSession, DataOK, TakeOut
  <2> QED BY <2>1, <2>2, <2>3
<1>10. CASE DropParam(t)
  <2>1. RequestsOK' /\ TimeOK' /\ CacheOK'
    BY <1>10 DEF DropParam, RequestsOK, requestVars, TimeOK, CacheOK, cacheVars
  <2>2. ControlOK' BY <1>0, <1>10 DEF DropParam, Goto, ControlOK, Labels
  <2>3. HandlesOK' BY <1>0, <1>10 DEF DropParam, HandlesOK, Ids
  <2>4. DataOK'
    <3>1. refs' \in [Session -> Int]
      <4>1. CASE param[t] = NoSession BY <1>10, <4>1 DEF DropParam, DataOK
      <4>2. CASE param[t] # NoSession
        <5>1. param[t] \in Session BY <1>0, <4>2 DEF HandlesOK, Ids
        <5>2. refs' = [refs EXCEPT ![param[t]] = @ - 1]
          BY <1>10, <4>2 DEF DropParam
        <5> QED BY <5>1, <5>2 DEF DataOK
      <4> QED BY <4>1, <4>2
    <3> QED BY <1>10, <3>1 DEF DropParam, DataOK
  <2> QED BY <2>1, <2>2, <2>3, <2>4
<1>11. CASE StaticNow(t)
  <2>1. RequestsOK' /\ HandlesOK' /\ DataOK' /\ TimeOK'
    BY <1>11 DEF StaticNow, RequestsOK, requestVars, HandlesOK, handleVars, DataOK,
                 dataVars, TimeOK
  <2>2. ControlOK' BY <1>0, <1>11 DEF StaticNow, Goto, ControlOK, Labels
  <2>3. CacheOK'
    <3>1. since' = [since EXCEPT ![t] = clock] /\ clock \in Nat
      BY <1>11 DEF StaticNow, TimeOK
    <3>2. since' \in [Thread -> Nat] BY <3>1 DEF CacheOK
    <3> QED BY <1>11, <3>2 DEF StaticNow, CacheOK
  <2> QED BY <2>1, <2>2, <2>3
<1>12. CASE CacheLookup(t)
  <2>1. RequestsOK' /\ HandlesOK' /\ DataOK' /\ TimeOK'
    BY <1>12 DEF CacheLookup, RequestsOK, requestVars, HandlesOK, handleVars, DataOK,
                 dataVars, TimeOK
  <2>2. ControlOK' BY <1>0, <1>12 DEF CacheLookup, Goto, ControlOK, Labels
  <2>3. CacheOK' BY <1>0, <1>12 DEF CacheLookup, CacheOK, Entries
  <2> QED BY <2>1, <2>2, <2>3
<1>13. CASE Respond(t)
  <2>1. RequestsOK' /\ HandlesOK' /\ DataOK' /\ TimeOK' /\ CacheOK'
    BY <1>13 DEF Respond, RequestsOK, requestVars, HandlesOK, handleVars, DataOK,
                 dataVars, TimeOK, CacheOK, cacheVars
  <2>2. ControlOK' BY <1>0, <1>13 DEF Respond, Goto, ControlOK, Labels
  <2> QED BY <2>1, <2>2
<1>14. CASE ReadFile(t)
  <2>1. RequestsOK' /\ HandlesOK' /\ DataOK' /\ TimeOK'
    BY <1>14 DEF ReadFile, RequestsOK, requestVars, HandlesOK, handleVars, DataOK,
                 dataVars, TimeOK
  <2>2. ControlOK' BY <1>0, <1>14 DEF ReadFile, Goto, ControlOK, Labels
  <2>3. CacheOK' BY <1>0, <1>14 DEF ReadFile, CacheOK
  <2> QED BY <2>1, <2>2, <2>3
<1>15. CASE CacheInsert(t)
  <2>1. RequestsOK' /\ HandlesOK' /\ DataOK' /\ TimeOK'
    BY <1>15 DEF CacheInsert, RequestsOK, requestVars, HandlesOK, handleVars, DataOK,
                 dataVars, TimeOK
  <2>2. ControlOK' BY <1>0, <1>15 DEF CacheInsert, Goto, ControlOK, Labels
  <2>3. CacheOK' BY <1>0, <1>15 DEF CacheInsert, CacheOK, Entries
  <2> QED BY <2>1, <2>2, <2>3
<1>16. CASE CheckTicket(t)
  <2>1. RequestsOK' /\ HandlesOK' /\ DataOK' /\ TimeOK' /\ CacheOK'
    BY <1>16 DEF CheckTicket, RequestsOK, requestVars, HandlesOK, handleVars, DataOK,
                 dataVars, TimeOK, CacheOK, cacheVars
  <2>2. ControlOK' BY <1>0, <1>16 DEF CheckTicket, Goto, ControlOK, Labels
  <2> QED BY <2>1, <2>2
<1> QED BY <1>1, <1>2, <1>3, <1>4, <1>5, <1>6, <1>7, <1>8, <1>9, <1>10, <1>11, <1>12,
           <1>13, <1>14, <1>15, <1>16 DEF Find, Login, Static

LEMMA MapperTypeActor ==
  ASSUME TypeOK, NEW a \in Actor, Drop(a) \/ Delete(a)
  PROVE  TypeOK'
<1> USE DEF TypeOK
<1>1. CASE Drop(a)
  <2>1. RequestsOK' /\ TimeOK' /\ CacheOK'
    BY <1>1 DEF Drop, RequestsOK, requestVars, TimeOK, CacheOK, cacheVars
  <2>2. ControlOK' BY <1>1 DEF Drop, Goto, ControlOK, Labels
  <2>3. CASE session[a] = NoSession
    BY <1>1, <2>1, <2>2, <2>3 DEF Drop, HandlesOK, DataOK, Ids
  <2>4. CASE session[a] # NoSession
    <3>1. session[a] \in Session BY <2>4 DEF HandlesOK, Ids
    <3> DEFINE d == [of |-> session[a], left |-> refs[session[a]] - 1]
    <3>2. /\ refs' = [refs EXCEPT ![session[a]] = @ - 1]
          /\ dropped' = [dropped EXCEPT ![a] = d]
          /\ session' = [session EXCEPT ![a] = NoSession]
      BY <1>1, <2>4 DEF Drop
    <3>3. d \in Drops BY <3>1 DEF DataOK, Drops, Ids
    <3>4. refs' \in [Session -> Int] BY <3>1, <3>2 DEF DataOK
    <3>5. dropped' \in [Actor -> Drops] BY <3>2, <3>3 DEF HandlesOK
    <3>6. session' \in [Actor -> Ids] BY <3>2 DEF HandlesOK, Ids
    <3> QED BY <1>1, <2>1, <2>2, <3>4, <3>5, <3>6 DEF Drop, HandlesOK, DataOK
  <2> QED BY <2>3, <2>4
<1>2. CASE Delete(a)
  <2>1. RequestsOK' /\ TimeOK' /\ CacheOK'
    BY <1>2 DEF Delete, RequestsOK, requestVars, TimeOK, CacheOK, cacheVars
  <2>2. ControlOK' BY <1>2 DEF Delete, Goto, ControlOK, Labels
  <2>3. HandlesOK'
    <3>1. NoDrop \in Drops BY DEF NoDrop, Drops, Ids
    <3> QED BY <1>2, <3>1 DEF Delete, HandlesOK
  <2>4. DataOK'
    <3>1. data' \in [Session -> {"new", "alive", "deleted"}]
      BY <1>2 DEF Delete, DataOK
    <3> QED BY <1>2, <3>1 DEF Delete, DataOK
  <2> QED BY <2>1, <2>2, <2>3, <2>4
<1> QED BY <1>1, <1>2

LEMMA MapperTypeTimer ==
  ASSUME TypeOK, Sweep
  PROVE  TypeOK'
<1> USE DEF TypeOK
<1>0. Timer \in Actor BY DEF Actor
<1>1. RequestsOK' /\ CacheOK'
  BY DEF Sweep, SweepStart, SweepRead, SweepErase, SweepEnd, requestVars,
         cacheVars, RequestsOK, CacheOK
<1>2. ControlOK'
  BY <1>0 DEF Sweep, SweepStart, SweepRead, SweepErase, SweepEnd, Goto, ControlOK,
              Labels
<1>3. CASE SweepStart
  <2>1. TimeOK' BY <1>3 DEF SweepStart, TimeOK, Sweeps, DataOK
  <2> QED BY <1>1, <1>2, <1>3, <2>1
          DEF SweepStart, handleVars, dataVars, HandlesOK, DataOK
<1>4. CASE SweepRead
  <2>1. PICK s \in sweep.todo :
          /\ session' = [session EXCEPT ![Timer] = s]
          /\ refs' = Copied(s)
          /\ sweep' = [sweep EXCEPT !.todo = @ \ {s}, !.last = last[s]]
    BY <1>4 DEF SweepRead
  <2>2. s \in Session /\ s \in Ids BY DEF TimeOK, Sweeps, Ids
  <2>3. TimeOK' BY <1>4, <2>1, <2>2 DEF SweepRead, TimeOK, Sweeps, DataOK
  <2>4. HandlesOK' BY <1>0, <1>4, <2>1, <2>2 DEF SweepRead, HandlesOK
  <2>5. refs' \in [Session -> Int] BY <2>1, <2>2, CopiedType DEF DataOK
  <2>6. DataOK' BY <1>4, <2>5 DEF SweepRead, DataOK
  <2> QED BY <1>1, <1>2, <2>3, <2>4, <2>6
<1>5. CASE SweepErase
  <2>1. TimeOK' /\ HandlesOK'
    BY <1>5 DEF SweepErase, TimeOK, handleVars, HandlesOK
  <2>2. sessions' \subseteq sessions /\ refs' \in [Session -> Int]
    BY <1>5 DEF SweepErase, TakeOut, DataOK
  <2> QED BY <1>1, <1>2, <1>5, <2>1, <2>2 DEF SweepErase, DataOK
<1>6. CASE SweepEnd
  BY <1>1, <1>2, <1>6
     DEF SweepEnd, handleVars, dataVars, HandlesOK, DataOK, TimeOK
<1> QED BY <1>3, <1>4, <1>5, <1>6 DEF Sweep

LEMMA MapperTypeWorld ==
  ASSUME TypeOK, Evict \/ ReplaceFile \/ Tick \/ UNCHANGED vars
  PROVE  TypeOK'
<1> USE DEF TypeOK
<1>1. RequestsOK' /\ ControlOK' /\ HandlesOK' /\ DataOK'
  BY DEF Evict, ReplaceFile, Tick, vars, requestVars, handleVars, dataVars,
         RequestsOK, ControlOK, HandlesOK, DataOK
<1>2. CASE Evict
  BY <1>1, <1>2 DEF Evict, TimeOK, CacheOK, NoEntry, Entries
<1>3. CASE ReplaceFile
  <2>1. file' = file + 1 /\ file' - 1 = file /\ file \in Nat \ {0}
    BY <1>3 DEF ReplaceFile, CacheOK
  <2>2. ASSUME NEW v \in 1 .. file
        PROVE  (IF v = file THEN clock ELSE replaced[v]) \in Nat
    <3>1. CASE v = file BY <3>1 DEF TimeOK
    <3>2. CASE v # file
      <4>1. v \in 1 .. file - 1 BY <2>1, <3>2
      <4> QED BY <3>2, <4>1 DEF CacheOK
    <3> QED BY <3>1, <3>2
  <2>3. replaced' \in [1 .. file -> Nat] BY <1>3, <2>2 DEF ReplaceFile
  <2> QED BY <1>1, <1>3, <2>1, <2>3 DEF ReplaceFile, TimeOK, CacheOK
<1>4. CASE Tick
  BY <1>1, <1>4 DEF Tick, cacheVars, TimeOK, CacheOK
<1>5. CASE UNCHANGED vars
  BY <1>1, <1>5 DEF vars, TimeOK, CacheOK
<1> QED BY <1>2, <1>3, <1>4, <1>5

LEMMA MapperTypeNext == TypeOK /\ [Next]_vars => TypeOK'
BY MapperTypeThread, MapperTypeActor, MapperTypeTimer, MapperTypeWorld DEF Next

-----------------------------------------------------------------------------
(* The references of the handlers and of the timer.                        *)

Holding == {"touch", "look", "pass", "remove", "return", "drop", "erase"}

HandlesLocal(a) ==
  /\ pc[a] \notin Holding => session[a] = NoSession
  /\ param[a] = IF pc[a] \in {"remove", "return"} THEN session[a] ELSE NoSession
  /\ pc[a] # "delete" => dropped[a] = NoDrop
  /\ pc[a] = "delete" => dropped[a].of \in Session

LocalInv == \A a \in Actor : HandlesLocal(a)

LEMMA LocalInit == Init => LocalInv
BY DEF Init, LocalInv, HandlesLocal, Actor, Holding

(* An actor's step is about the actor's own references.                    *)
LEMMA LocalFrame ==
  ASSUME TypeOK, LocalInv, NEW a \in Actor, HandlesLocal(a)',
         \A b \in Actor \ {a} :
           /\ pc'[b] = pc[b] /\ session'[b] = session[b]
           /\ param'[b] = param[b] /\ dropped'[b] = dropped[b]
  PROVE  LocalInv'
BY DEF LocalInv, HandlesLocal

LEMMA LocalNext == TypeOK /\ LocalInv /\ [Next]_vars => LocalInv'
<1> SUFFICES ASSUME TypeOK, LocalInv, [Next]_vars PROVE LocalInv' OBVIOUS
<1>0. ASSUME UNCHANGED <<pc, session, param, dropped>> PROVE LocalInv'
  BY <1>0 DEF LocalInv, HandlesLocal
<1>1. ASSUME NEW t \in Thread, Find(t) \/ Login(t) \/ Static(t)
      PROVE  LocalInv'
  <2>0. t \in Actor /\ HandlesLocal(t) BY DEF LocalInv, Actor
  <2>1. ASSUME UNCHANGED handleVars, HandlesLocal(t)',
               NEW l, pc' = [pc EXCEPT ![t] = l]
        PROVE  LocalInv'
    <3>1. \A b \in Actor \ {t} : pc'[b] = pc[b]
      BY <2>0, <2>1 DEF TypeOK, ControlOK
    <3> QED BY <2>0, <2>1, <3>1, LocalFrame DEF handleVars
  <2>2. CASE Service(t)
    <3>1. PICK l \in {"static", "create", "open"} : pc' = [pc EXCEPT ![t] = l]
      BY <2>2 DEF Service, Goto
    <3>2. pc'[t] = l BY <2>0, <3>1 DEF TypeOK, ControlOK
    <3>3. pc[t] = "idle" /\ UNCHANGED handleVars BY <2>2 DEF Service
    <3>4. HandlesLocal(t)'
      BY <2>0, <3>2, <3>3 DEF HandlesLocal, Holding, handleVars
    <3> QED BY <2>1, <3>1, <3>3, <3>4
  <2>3. CASE CreateSession(t)
    <3>1. PICK s \in Session : session' = [session EXCEPT ![t] = s]
      BY <2>3 DEF CreateSession
    <3>2. /\ pc[t] = "create" /\ pc' = [pc EXCEPT ![t] = "drop"]
          /\ param' = param /\ dropped' = dropped
      BY <2>3 DEF CreateSession, Goto
    <3>3. pc'[t] = "drop" /\ session'[t] = s
      BY <2>0, <3>1, <3>2 DEF TypeOK, ControlOK, HandlesOK
    <3>4. HandlesLocal(t)'
      BY <2>0, <3>2, <3>3 DEF HandlesLocal, Holding
    <3>5. \A b \in Actor \ {t} : pc'[b] = pc[b] /\ session'[b] = session[b]
      BY <2>0, <3>1, <3>2 DEF TypeOK, ControlOK, HandlesOK
    <3> QED BY <2>0, <3>2, <3>4, <3>5, LocalFrame
  <2>4. CASE OpenSession(t)
    <3>1. PICK s : session' = [session EXCEPT ![t] = s]
      BY <2>4 DEF OpenSession
    <3>2. /\ pc[t] = "open" /\ pc' = [pc EXCEPT ![t] = "touch"]
          /\ param' = param /\ dropped' = dropped
      BY <2>4 DEF OpenSession, Goto
    <3>3. pc'[t] = "touch" /\ session'[t] = s
      BY <2>0, <3>1, <3>2 DEF TypeOK, ControlOK, HandlesOK
    <3>4. HandlesLocal(t)'
      BY <2>0, <3>2, <3>3 DEF HandlesLocal, Holding
    <3>5. \A b \in Actor \ {t} : pc'[b] = pc[b] /\ session'[b] = session[b]
      BY <2>0, <3>1, <3>2 DEF TypeOK, ControlOK, HandlesOK
    <3> QED BY <2>0, <3>2, <3>4, <3>5, LocalFrame
  <2>5. CASE \/ Touch(t) \/ Gate(t) \/ CheckTicket(t) \/ LoggedIn(t)
             \/ RightPassword(t)
    <3>1. PICK l \in {"look", "drop", "pass"} : pc' = [pc EXCEPT ![t] = l]
      BY <2>5 DEF Touch, Gate, CheckTicket, LoggedIn, RightPassword, Goto
    <3>2. pc'[t] = l BY <2>0, <3>1 DEF TypeOK, ControlOK
    <3>3. pc[t] \in {"touch", "look", "pass"} /\ UNCHANGED handleVars
      BY <2>5 DEF Touch, Gate, CheckTicket, LoggedIn, RightPassword
    <3>4. HandlesLocal(t)'
      BY <2>0, <3>2, <3>3 DEF HandlesLocal, Holding, handleVars
    <3> QED BY <2>1, <3>1, <3>3, <3>4
  <2>6. CASE WrongPassword(t)
    <3>1. /\ pc[t] = "pass" /\ pc' = [pc EXCEPT ![t] = "remove"]
          /\ param' = [param EXCEPT ![t] = session[t]]
          /\ session' = session /\ dropped' = dropped
      BY <2>6 DEF WrongPassword, Goto
    <3>2. pc'[t] = "remove" /\ param'[t] = session[t]
      BY <2>0, <3>1 DEF TypeOK, ControlOK, HandlesOK
    <3>3. HandlesLocal(t)'
      BY <2>0, <3>1, <3>2 DEF HandlesLocal, Holding
    <3>4. \A b \in Actor \ {t} : pc'[b] = pc[b] /\ param'[b] = param[b]
      BY <2>0, <3>1 DEF TypeOK, ControlOK, HandlesOK
    <3> QED BY <2>0, <3>1, <3>3, <3>4, LocalFrame
  <2>7. CASE RemoveSession(t)
    <3>1. /\ pc[t] = "remove" /\ pc' = [pc EXCEPT ![t] = "return"]
          /\ UNCHANGED handleVars
      BY <2>7 DEF RemoveSession, Goto
    <3>2. pc'[t] = "return" BY <2>0, <3>1 DEF TypeOK, ControlOK
    <3>3. HandlesLocal(t)'
      BY <2>0, <3>1, <3>2 DEF HandlesLocal, Holding, handleVars
    <3> QED BY <2>1, <3>1, <3>3
  <2>8. CASE DropParam(t)
    <3>1. /\ pc[t] = "return" /\ pc' = [pc EXCEPT ![t] = "drop"]
          /\ param' = [param EXCEPT ![t] = NoSession]
          /\ session' = session /\ dropped' = dropped
      BY <2>8 DEF DropParam, Goto
    <3>2. pc'[t] = "drop" /\ param'[t] = NoSession
      BY <2>0, <3>1 DEF TypeOK, ControlOK, HandlesOK
    <3>3. HandlesLocal(t)'
      BY <2>0, <3>1, <3>2 DEF HandlesLocal, Holding
    <3>4. \A b \in Actor \ {t} : pc'[b] = pc[b] /\ param'[b] = param[b]
      BY <2>0, <3>1 DEF TypeOK, ControlOK, HandlesOK
    <3> QED BY <2>0, <3>1, <3>3, <3>4, LocalFrame
  <2>9. CASE Static(t)
    <3>1. PICK l \in {"cache", "respond", "read", "idle", "insert"} :
            pc' = [pc EXCEPT ![t] = l]
      BY <2>9 DEF Static, StaticNow, CacheLookup, Respond, ReadFile, CacheInsert, Goto
    <3>2. pc'[t] = l BY <2>0, <3>1 DEF TypeOK, ControlOK
    <3>3. /\ pc[t] \in {"static", "cache", "respond", "read", "insert"}
          /\ UNCHANGED handleVars
      BY <2>9 DEF Static, StaticNow, CacheLookup, Respond, ReadFile, CacheInsert
    <3>4. HandlesLocal(t)'
      BY <2>0, <3>2, <3>3 DEF HandlesLocal, Holding, handleVars
    <3> QED BY <2>1, <3>1, <3>3, <3>4
  <2> QED BY <1>1, <2>2, <2>3, <2>4, <2>5, <2>6, <2>7, <2>8, <2>9 DEF Find, Login
<1>2. ASSUME NEW a \in Actor, Drop(a) PROVE LocalInv'
  <2>0. HandlesLocal(a) BY DEF LocalInv
  <2>1. PICK l \in Labels :
          /\ pc' = [pc EXCEPT ![a] = l]
          /\ \/ l \in {"idle", "open", "static", "sweep"} /\ dropped' = dropped
             \/ /\ l = "delete" /\ session[a] # NoSession
                /\ dropped' = [dropped EXCEPT
                     ![a] = [of |-> session[a], left |-> refs[session[a]] - 1]]
    BY <1>2 DEF Drop, Goto, Labels, TypeOK, ControlOK
  <2>2. /\ pc[a] = "drop" /\ session' = [session EXCEPT ![a] = NoSession]
        /\ param' = param
    BY <1>2 DEF Drop
  <2>3. pc'[a] = l /\ session'[a] = NoSession
    BY <2>1, <2>2 DEF TypeOK, ControlOK, HandlesOK
  <2>4. session[a] \in Ids BY DEF TypeOK, HandlesOK
  <2>5. HandlesLocal(a)'
    <3>1. CASE l = "delete"
      BY <2>0, <2>1, <2>2, <2>3, <2>4, <3>1
         DEF HandlesLocal, Holding, Ids, TypeOK, HandlesOK
    <3>2. CASE l # "delete"
      BY <2>0, <2>1, <2>2, <2>3, <3>2 DEF HandlesLocal, Holding
    <3> QED BY <3>1, <3>2
  <2>6. \A b \in Actor \ {a} :
          /\ pc'[b] = pc[b] /\ session'[b] = session[b] /\ dropped'[b] = dropped[b]
    BY <2>1, <2>2 DEF TypeOK, ControlOK, HandlesOK
  <2> QED BY <2>2, <2>5, <2>6, LocalFrame
<1>3. ASSUME NEW a \in Actor, Delete(a) PROVE LocalInv'
  <2>0. HandlesLocal(a) BY DEF LocalInv
  <2>1. PICK l \in {"idle", "open", "static", "sweep"} : pc' = [pc EXCEPT ![a] = l]
    BY <1>3 DEF Delete, Goto, TypeOK, ControlOK
  <2>2. /\ pc[a] = "delete" /\ dropped' = [dropped EXCEPT ![a] = NoDrop]
        /\ session' = session /\ param' = param
    BY <1>3 DEF Delete
  <2>3. pc'[a] = l /\ dropped'[a] = NoDrop
    BY <2>1, <2>2 DEF TypeOK, ControlOK, HandlesOK
  <2>4. HandlesLocal(a)' BY <2>0, <2>2, <2>3 DEF HandlesLocal, Holding
  <2>5. \A b \in Actor \ {a} : pc'[b] = pc[b] /\ dropped'[b] = dropped[b]
    BY <2>1, <2>2 DEF TypeOK, ControlOK, HandlesOK
  <2> QED BY <2>2, <2>4, <2>5, LocalFrame
<1>4. CASE Sweep
  <2>0. Timer \in Actor /\ HandlesLocal(Timer) BY DEF LocalInv, Actor
  <2>1. PICK l \in {"sweep", "erase", "drop", "idle"} : pc' = [pc EXCEPT ![Timer] = l]
    BY <1>4 DEF Sweep, SweepStart, SweepRead, SweepErase, SweepEnd, Goto
  <2>2. /\ \/ session' = session /\ pc[Timer] \in {"idle", "sweep"}
              /\ l \in {"sweep", "idle"}
           \/ session' = session /\ pc[Timer] = "erase" /\ l = "drop"
           \/ /\ \E s \in sweep.todo : session' = [session EXCEPT ![Timer] = s]
              /\ pc[Timer] = "sweep" /\ l = "erase"
        /\ param' = param /\ dropped' = dropped
    <3>1. pc'[Timer] = l BY <2>0, <2>1 DEF TypeOK, ControlOK
    <3> QED BY <1>4, <2>0, <3>1
            DEF Sweep, SweepStart, SweepRead, SweepErase, SweepEnd, Goto,
                handleVars, TypeOK, ControlOK
  <2>3. pc'[Timer] = l BY <2>0, <2>1 DEF TypeOK, ControlOK
  <2>4. HandlesLocal(Timer)' BY <2>0, <2>2, <2>3 DEF HandlesLocal, Holding
  <2>5. \A b \in Actor \ {Timer} : pc'[b] = pc[b] /\ session'[b] = session[b]
    BY <2>1, <2>2 DEF TypeOK, ControlOK, HandlesOK
  <2> QED BY <2>0, <2>2, <2>4, <2>5, LocalFrame
<1>5. CASE Evict \/ ReplaceFile \/ Tick \/ UNCHANGED vars
  BY <1>0, <1>5 DEF Evict, ReplaceFile, Tick, vars, handleVars
<1> QED BY <1>1, <1>2, <1>3, <1>4, <1>5 DEF Next

-----------------------------------------------------------------------------
(* Counting them.                                                          *)

Held(f, s) == Cardinality({a \in Actor : f[a] = s})

Same(x, y) == IF x = y THEN 1 ELSE 0

InStore(s) == IF s \in sessions THEN 1 ELSE 0

LEMMA ActorFinite == IsFiniteSet(Actor)
BY MapperAssumption, FS_AddElement DEF Actor

LEMMA HeldType ==
  ASSUME NEW f, NEW s
  PROVE  /\ IsFiniteSet({a \in Actor : f[a] = s})
         /\ Held(f, s) \in Nat
         /\ \A a \in Actor : f[a] = s => Held(f, s) > 0
<1> DEFINE F == {a \in Actor : f[a] = s}
<1>1. IsFiniteSet(F)
  <2>1. F \in SUBSET Actor OBVIOUS
  <2> HIDE DEF F
  <2> QED BY <2>1, ActorFinite, FS_Subset
<1>2. Cardinality(F) \in Nat /\ (F # {} => Cardinality(F) > 0)
  <2> HIDE DEF F
  <2> QED BY <1>1, FS_CardinalityType, FS_EmptySet
<1> QED BY <1>1, <1>2 DEF Held

SameBut(f, g, a) == \A b \in Actor \ {a} : g[b] = f[b]

(* What one actor's change does to the count.                              *)
LEMMA HeldUpdate ==
  ASSUME NEW f, NEW g, NEW a \in Actor, NEW s, SameBut(f, g, a)
  PROVE  Held(g, s) = Held(f, s) + Same(g[a], s) - Same(f[a], s)
<1> DEFINE F == {b \in Actor : f[b] = s}
           G == {b \in Actor : g[b] = s}
<1> USE DEF SameBut
<1>1. /\ IsFiniteSet(F) /\ IsFiniteSet(G)
      /\ Cardinality(F) \in Nat /\ Cardinality(G) \in Nat
  <2>1. IsFiniteSet(F) /\ Cardinality(F) \in Nat BY HeldType DEF Held
  <2>2. IsFiniteSet(G) /\ Cardinality(G) \in Nat BY HeldType DEF Held
  <2> QED BY <2>1, <2>2
<1>2. CASE g[a] = s /\ f[a] = s
  <2>1. F = G BY <1>2
  <2> QED BY <1>1, <1>2, <2>1 DEF Held, Same
<1>3. CASE g[a] = s /\ f[a] # s
  <2>1. G = F \cup {a} /\ a \notin F BY <1>3
  <2>2. Cardinality(G) = Cardinality(F) + 1
    <3> HIDE DEF F, G
    <3> QED BY <1>1, <2>1, FS_AddElement
  <2> QED BY <1>1, <1>3, <2>2 DEF Held, Same
<1>4. CASE g[a] # s /\ f[a] = s
  <2>1. G = F \ {a} /\ a \in F BY <1>4
  <2>2. Cardinality(G) = Cardinality(F) - 1
    <3> HIDE DEF F, G
    <3> QED BY <1>1, <2>1, FS_RemoveElement
  <2> QED BY <1>1, <1>4, <2>2 DEF Held, Same
<1>5. CASE g[a] # s /\ f[a] # s
  <2>1. F = G BY <1>5
  <2> QED BY <1>1, <1>5, <2>1 DEF Held, Same
<1> QED BY <1>2, <1>3, <1>4, <1>5

Counted(s) == refs[s] = InStore(s) + Held(session, s) + Held(param, s)

(* Data with a reference are there and nobody deletes them; data without   *)
(* one are deleted by one actor.                                           *)
Safe(s) ==
  /\ refs[s] # 0 => data[s] = "alive" /\ Deleting(s) = {}
  /\ data[s] = "alive" => refs[s] # 0 \/ Deleting(s) # {}
  /\ Deleting(s) # {} => data[s] = "alive"
  /\ \A a, b \in Deleting(s) : a = b

(* While the timer runs, nobody else takes anything out of the store.      *)
TodoInStore ==
  /\ pc[Timer] # "idle" => sweep.todo \subseteq sessions
  /\ pc[Timer] = "erase" => session[Timer] \in sessions \ sweep.todo

MapperInv == /\ TypeOK /\ LocalInv /\ TodoInStore
             /\ \A s \in Session : Counted(s) /\ Safe(s)

LEMMA MapperInit == Init => MapperInv
<1> SUFFICES ASSUME Init PROVE MapperInv OBVIOUS
<1>1. TypeOK /\ LocalInv BY MapperTypeInit, LocalInit
<1>2. TodoInStore BY DEF Init, TodoInStore, Actor
<1>3. ASSUME NEW s \in Session PROVE Counted(s) /\ Safe(s)
  <2>1. s # NoSession BY MapperAssumption
  <2>2. /\ {a \in Actor : session[a] = s} = {}
        /\ {a \in Actor : param[a] = s} = {} /\ Deleting(s) = {}
    BY <2>1 DEF Init, Deleting, NoDrop
  <2>3. Held(session, s) = 0 /\ Held(param, s) = 0
    BY <2>2, FS_EmptySet DEF Held
  <2> QED BY <2>2, <2>3 DEF Init, Counted, Safe, InStore
<1> QED BY <1>1, <1>2, <1>3 DEF MapperInv

(* A step of the actor a that takes or gives back references to s.         *)
LEMMA CountedStep ==
  ASSUME TypeOK, TypeOK', NEW s \in Session, Counted(s), NEW a \in Actor,
         SameBut(session, session', a), SameBut(param, param', a),
         refs'[s] - refs[s] =
           (InStore(s)' - InStore(s))
           + (Same(session'[a], s) - Same(session[a], s))
           + (Same(param'[a], s) - Same(param[a], s))
  PROVE  Counted(s)'
<1>1. Held(session', s) = Held(session, s) + Same(session'[a], s) - Same(session[a], s)
  BY HeldUpdate
<1>2. Held(param', s) = Held(param, s) + Same(param'[a], s) - Same(param[a], s)
  BY HeldUpdate
<1>3. /\ Held(session, s) \in Nat /\ Held(param, s) \in Nat
      /\ Held(session', s) \in Nat /\ Held(param', s) \in Nat
  BY HeldType
<1>4. \A x, y : Same(x, y) \in {0, 1} BY DEF Same
<1>5. refs[s] \in Int /\ refs'[s] \in Int BY DEF TypeOK, DataOK
<1>6. refs'[s] = InStore(s)' + Held(session', s) + Held(param', s)
  BY <1>1, <1>2, <1>3, <1>4, <1>5 DEF Counted, InStore
<1> QED BY <1>6 DEF Counted

(* A step that neither deletes nor decides to, and loses no last reference.*)
LEMMA SafeStep ==
  ASSUME NEW s, Safe(s), data'[s] = data[s], dropped' = dropped,
         refs'[s] # 0 <=> refs[s] # 0
  PROVE  Safe(s)'
BY DEF Safe, Deleting

LEMMA CountedAtLeast ==
  ASSUME TypeOK, NEW s \in Session, Counted(s)
  PROVE  /\ refs[s] \in Nat /\ refs[s] >= InStore(s) /\ InStore(s) \in {0, 1}
         /\ \A a \in Actor : session[a] = s => refs[s] >= InStore(s) + 1
         /\ \A a \in Actor : session[a] = s /\ param[a] = s
              => refs[s] >= InStore(s) + 2
         /\ refs[s] = 0 => s \notin sessions /\ Held(session, s) = 0 /\ Held(param, s) = 0
<1>1. Held(session, s) \in Nat /\ \A a \in Actor : session[a] = s => Held(session, s) > 0
  BY HeldType
<1>2. Held(param, s) \in Nat /\ \A a \in Actor : param[a] = s => Held(param, s) > 0
  BY HeldType
<1> QED BY <1>1, <1>2 DEF Counted, InStore

(* Steps of the actor a that neither delete nor decide to.                 *)
LEMMA RefsStep ==
  ASSUME MapperInv, TypeOK', LocalInv', TodoInStore', NEW a \in Actor,
         SameBut(session, session', a), SameBut(param, param', a),
         data' = data, dropped' = dropped,
         \A s \in Session :
           /\ refs'[s] - refs[s] =
                (InStore(s)' - InStore(s))
                + (Same(session'[a], s) - Same(session[a], s))
                + (Same(param'[a], s) - Same(param[a], s))
           /\ refs'[s] # 0 <=> refs[s] # 0
  PROVE  MapperInv'
<1>1. ASSUME NEW s \in Session PROVE Counted(s)' /\ Safe(s)'
  <2>1. Counted(s) /\ Safe(s) BY DEF MapperInv
  <2>2. Counted(s)' BY <2>1, CountedStep DEF MapperInv
  <2>3. Safe(s)' BY <2>1, SafeStep
  <2> QED BY <2>2, <2>3
<1> QED BY <1>1 DEF MapperInv

(* Steps that are not about references.                                    *)
LEMMA RefsFrame ==
  ASSUME MapperInv, TypeOK', LocalInv', TodoInStore',
         UNCHANGED <<session, param, dropped, sessions, data, refs>>
  PROVE  MapperInv'
BY DEF MapperInv, Counted, InStore, Safe, Deleting

(* The steps of the handlers leave the timer's list alone.                 *)
LEMMA TodoFrame ==
  ASSUME TypeOK, TodoInStore, pc'[Timer] = pc[Timer],
         session'[Timer] = session[Timer], sweep' = sweep,
         MutexFree \/ sessions' = sessions
  PROVE  TodoInStore'
BY DEF TodoInStore, MutexFree

LEMMA MapperThreadNext ==
  ASSUME MapperInv, TypeOK', LocalInv', NEW t \in Thread,
         Find(t) \/ Login(t) \/ Static(t)
  PROVE  MapperInv'
<1>0. /\ t \in Actor /\ Timer \in Actor /\ t # Timer
      /\ HandlesLocal(t) /\ TypeOK /\ LocalInv /\ TodoInStore
  BY MapperAssumption DEF Actor, MapperInv, LocalInv
<1>1. pc'[Timer] = pc[Timer]
  <2>1. PICK l : pc' = [pc EXCEPT ![t] = l]
    BY DEF Find, Login, Static, Service, CreateSession, OpenSession, Touch, Gate,
           CheckTicket, LoggedIn, RightPassword, WrongPassword, RemoveSession, DropParam, StaticNow,
           CacheLookup, Respond, ReadFile, CacheInsert, Goto
  <2> QED BY <1>0, <2>1 DEF TypeOK, ControlOK
<1>2. CASE CreateSession(t)
  <2>1. PICK n \in Session :
          /\ data[n] = "new"
          /\ data' = [data EXCEPT ![n] = "alive"]
          /\ refs' = [refs EXCEPT ![n] = 2]
          /\ sessions' = sessions \cup {n}
          /\ session' = [session EXCEPT ![t] = n]
    BY <1>2 DEF CreateSession
  <2>2. /\ MutexFree /\ pc[t] = "create" /\ param' = param /\ dropped' = dropped
        /\ sweep' = sweep
    BY <1>2 DEF CreateSession
  <2>3. session[t] = NoSession BY <1>0, <2>2 DEF HandlesLocal, Holding
  <2>4. TodoInStore'
    <3>1. session'[Timer] = session[Timer] BY <1>0, <2>1 DEF TypeOK, HandlesOK
    <3> QED BY <1>0, <1>1, <2>2, <3>1, TodoFrame
  <2>5. SameBut(session, session', t) /\ SameBut(param, param', t)
    BY <1>0, <2>1, <2>2 DEF SameBut, TypeOK, HandlesOK
  <2>6. Counted(n) /\ Safe(n) BY DEF MapperInv
  <2>7. refs[n] = 0 /\ Deleting(n) = {} BY <2>1, <2>6 DEF Safe
  <2>8. n \notin sessions BY <1>0, <2>6, <2>7, CountedAtLeast
  <2>9. session'[t] = n BY <1>0, <2>1 DEF TypeOK, HandlesOK
  <2>10. ASSUME NEW s \in Session PROVE Counted(s)' /\ Safe(s)'
    <3>0. Counted(s) /\ Safe(s) /\ s # NoSession /\ refs[s] \in Int
      BY <1>0, MapperAssumption DEF MapperInv, TypeOK, DataOK
    <3>1. CASE s = n
      <4>1. refs'[s] = 2 /\ data'[s] = "alive" /\ InStore(s)' = 1 /\ InStore(s) = 0
        BY <1>0, <2>1, <2>8, <3>1 DEF TypeOK, DataOK, InStore
      <4>2. Same(session'[t], s) = 1 /\ Same(session[t], s) = 0
        BY <2>3, <2>9, <3>0, <3>1 DEF Same
      <4>3. refs'[s] - refs[s] = (1 - 0) + (1 - 0) + (Same(param[t], s) - Same(param[t], s))
        BY <2>7, <3>1, <4>1 DEF Same
      <4>4. Counted(s)'
        BY <1>0, <2>2, <2>5, <3>0, <4>1, <4>2, <4>3, CountedStep
      <4>5. Safe(s)' BY <2>2, <2>7, <3>1, <4>1 DEF Safe, Deleting
      <4> QED BY <4>4, <4>5
    <3>2. CASE s # n
      <4>1. refs'[s] = refs[s] /\ data'[s] = data[s] /\ InStore(s)' = InStore(s)
        BY <1>0, <2>1, <3>2 DEF TypeOK, DataOK, InStore
      <4>2. Same(session'[t], s) = 0 /\ Same(session[t], s) = 0 /\ InStore(s) \in Int
        BY <2>3, <2>9, <3>0, <3>2 DEF Same, InStore
      <4>3. refs'[s] - refs[s] = (InStore(s) - InStore(s)) + (0 - 0)
                                 + (Same(param[t], s) - Same(param[t], s))
        BY <3>0, <4>1, <4>2 DEF Same
      <4>4. Counted(s)'
        BY <1>0, <2>2, <2>5, <3>0, <4>1, <4>2, <4>3, CountedStep
      <4>5. Safe(s)' BY <2>2, <3>0, <4>1, SafeStep
      <4> QED BY <4>4, <4>5
    <3> QED BY <3>1, <3>2
  <2> QED BY <2>4, <2>10 DEF MapperInv
<1>3. CASE OpenSession(t)
  <2>1. PICK x \in Ids : /\ x \in sessions \/ x = NoSession
                         /\ session' = [session EXCEPT ![t] = x]
                         /\ refs' = Copied(x)
    BY <1>3 DEF OpenSession, Ids, MapperInv, TypeOK, DataOK
  <2>2. /\ pc[t] = "open" /\ UNCHANGED <<param, dropped, sessions, data, sweep>>
    BY <1>3 DEF OpenSession
  <2>3. session[t] = NoSession BY <1>0, <2>2 DEF HandlesLocal, Holding
  <2>4. session'[t] = x /\ session'[Timer] = session[Timer]
    BY <1>0, <2>1 DEF TypeOK, HandlesOK
  <2>5. SameBut(session, session', t) /\ SameBut(param, param', t)
    BY <1>0, <2>1, <2>2 DEF SameBut, TypeOK, HandlesOK
  <2>6. TodoInStore' BY <1>0, <1>1, <2>2, <2>4, TodoFrame
  <2>7. ASSUME NEW s \in Session
        PROVE  /\ refs'[s] - refs[s] =
                    (InStore(s)' - InStore(s))
                    + (Same(session'[t], s) - Same(session[t], s))
                    + (Same(param'[t], s) - Same(param[t], s))
               /\ refs'[s] # 0 <=> refs[s] # 0
    <3>1. /\ refs[s] \in Nat /\ (s \in sessions => refs[s] >= 1)
      BY <1>0, CountedAtLeast DEF MapperInv, InStore
    <3>2. s # NoSession BY MapperAssumption
    <3>3. InStore(s)' = InStore(s) /\ InStore(s) \in Int BY <2>2 DEF InStore
    <3>4. Same(session[t], s) = 0 /\ param'[t] = param[t] /\ Same(param[t], s) \in Int
      BY <2>2, <2>3, <3>2 DEF Same
    <3>5. CASE s = x
      <4>1. refs'[s] = refs[s] + 1
        BY <1>0, <2>1, <3>2, <3>5 DEF Copied, TypeOK, DataOK
      <4>2. Same(session'[t], s) = 1 BY <2>4, <3>5 DEF Same
      <4> QED BY <2>1, <3>1, <3>2, <3>3, <3>4, <3>5, <4>1, <4>2
    <3>6. CASE s # x
      <4>1. refs'[s] = refs[s]
        BY <1>0, <2>1, <3>6 DEF Copied, TypeOK, DataOK
      <4>2. Same(session'[t], s) = 0 BY <2>4, <3>6 DEF Same
      <4> QED BY <3>1, <3>3, <3>4, <4>1, <4>2
    <3> QED BY <3>5, <3>6
  <2> QED BY <1>0, <2>2, <2>5, <2>6, <2>7, RefsStep
<1>4. CASE WrongPassword(t)
  <2> DEFINE x == session[t]
  <2>1. /\ pc[t] = "pass" /\ param' = [param EXCEPT ![t] = x] /\ refs' = Copied(x)
        /\ UNCHANGED <<session, dropped, sessions, data, sweep>>
    BY <1>4 DEF WrongPassword
  <2>2. x \in Ids /\ param[t] = NoSession /\ param'[t] = x
    BY <1>0, <2>1 DEF HandlesLocal, TypeOK, HandlesOK
  <2>3. SameBut(session, session', t) /\ SameBut(param, param', t)
    BY <1>0, <2>1 DEF SameBut, TypeOK, HandlesOK
  <2>4. TodoInStore' BY <1>0, <1>1, <2>1, TodoFrame
  <2>5. ASSUME NEW s \in Session
        PROVE  /\ refs'[s] - refs[s] =
                    (InStore(s)' - InStore(s))
                    + (Same(session'[t], s) - Same(session[t], s))
                    + (Same(param'[t], s) - Same(param[t], s))
               /\ refs'[s] # 0 <=> refs[s] # 0
    <3>1. refs[s] \in Nat /\ (s = x => refs[s] >= 1)
      <4>1. Counted(s) BY DEF MapperInv
      <4>2. refs[s] \in Nat /\ InStore(s) \in {0, 1}
            /\ (s = x => refs[s] >= InStore(s) + 1)
        BY <1>0, <4>1, CountedAtLeast
      <4> QED BY <4>2
    <3>2. s # NoSession BY MapperAssumption
    <3>3. /\ InStore(s)' = InStore(s) /\ InStore(s) \in Int
          /\ session'[t] = session[t] /\ Same(session[t], s) \in Int
      BY <2>1 DEF InStore, Same
    <3>4. Same(param[t], s) = 0 BY <2>2, <3>2 DEF Same
    <3>5. CASE s = x
      <4>1. refs'[s] = refs[s] + 1
        BY <1>0, <2>1, <3>2, <3>5 DEF Copied, TypeOK, DataOK
      <4>2. Same(param'[t], s) = 1 BY <2>2, <3>5 DEF Same
      <4> HIDE DEF x
      <4> QED BY <3>1, <3>3, <3>4, <3>5, <4>1, <4>2
    <3>6. CASE s # x
      <4>1. refs'[s] = refs[s]
        BY <1>0, <2>1, <3>6 DEF Copied, TypeOK, DataOK
      <4>2. Same(param'[t], s) = 0 BY <2>2, <3>6 DEF Same
      <4> QED BY <3>1, <3>3, <3>4, <4>1, <4>2
    <3> QED BY <3>5, <3>6
  <2> QED BY <1>0, <2>1, <2>3, <2>4, <2>5, RefsStep
<1>5. CASE RemoveSession(t)
  <2> DEFINE x == param[t]
  <2>1. /\ pc[t] = "remove" /\ MutexFree /\ TakeOut(x)
        /\ UNCHANGED <<session, param, dropped, data, sweep>>
    BY <1>5 DEF RemoveSession, handleVars
  <2>2. x \in Ids /\ session[t] = x BY <1>0, <2>1 DEF HandlesLocal, TypeOK, HandlesOK
  <2>3. SameBut(session, session', t) /\ SameBut(param, param', t)
    BY <2>1 DEF SameBut
  <2>4. TodoInStore' BY <1>0, <1>1, <2>1, TodoFrame
  <2>5. ASSUME NEW s \in Session
        PROVE  /\ refs'[s] - refs[s] =
                    (InStore(s)' - InStore(s))
                    + (Same(session'[t], s) - Same(session[t], s))
                    + (Same(param'[t], s) - Same(param[t], s))
               /\ refs'[s] # 0 <=> refs[s] # 0
    <3>1. /\ refs[s] \in Nat /\ InStore(s) \in {0, 1}
          /\ s = x => refs[s] >= InStore(s) + 2
      <4>1. Counted(s) BY DEF MapperInv
      <4> QED BY <1>0, <2>2, <4>1, CountedAtLeast
    <3>2. /\ session'[t] = session[t] /\ Same(session[t], s) \in Int
          /\ param'[t] = param[t] /\ Same(param[t], s) \in Int
      BY <2>1 DEF Same
    <3>3. CASE s = x /\ s \in sessions
      <4>1. refs'[s] = refs[s] - 1
        BY <1>0, <2>1, <3>3 DEF TakeOut, TypeOK, DataOK
      <4>2. InStore(s) = 1 /\ InStore(s)' = 0
        BY <2>1, <3>3 DEF TakeOut, InStore
      <4> HIDE DEF x
      <4> QED BY <3>1, <3>2, <3>3, <4>1, <4>2
    <3>4. CASE ~(s = x /\ s \in sessions)
      <4>1. refs'[s] = refs[s]
        BY <1>0, <2>1, <3>4 DEF TakeOut, TypeOK, DataOK
      <4>2. InStore(s)' = InStore(s) BY <2>1, <3>4 DEF TakeOut, InStore
      <4> QED BY <3>1, <3>2, <4>1, <4>2
    <3> QED BY <3>3, <3>4
  <2> QED BY <1>0, <2>1, <2>3, <2>4, <2>5, RefsStep
<1>6. CASE DropParam(t)
  <2> DEFINE x == param[t]
  <2>1. /\ pc[t] = "return" /\ param' = [param EXCEPT ![t] = NoSession]
        /\ refs' = IF x = NoSession THEN refs ELSE [refs EXCEPT ![x] = @ - 1]
        /\ UNCHANGED <<session, dropped, sessions, data, sweep>>
    BY <1>6 DEF DropParam
  <2>2. x \in Ids /\ session[t] = x /\ param'[t] = NoSession
    BY <1>0, <2>1 DEF HandlesLocal, TypeOK, HandlesOK
  <2>3. SameBut(session, session', t) /\ SameBut(param, param', t)
    BY <1>0, <2>1 DEF SameBut, TypeOK, HandlesOK
  <2>4. TodoInStore' BY <1>0, <1>1, <2>1, TodoFrame
  <2>5. ASSUME NEW s \in Session
        PROVE  /\ refs'[s] - refs[s] =
                    (InStore(s)' - InStore(s))
                    + (Same(session'[t], s) - Same(session[t], s))
                    + (Same(param'[t], s) - Same(param[t], s))
               /\ refs'[s] # 0 <=> refs[s] # 0
    <3>1. /\ refs[s] \in Nat /\ InStore(s) \in {0, 1}
          /\ s = x => refs[s] >= InStore(s) + 2
      <4>1. Counted(s) BY DEF MapperInv
      <4> QED BY <1>0, <2>2, <4>1, CountedAtLeast
    <3>2. s # NoSession BY MapperAssumption
    <3>3. /\ InStore(s)' = InStore(s)
          /\ session'[t] = session[t] /\ Same(session[t], s) \in Int
      BY <2>1 DEF InStore, Same
    <3>4. Same(param'[t], s) = 0 BY <2>2, <3>2 DEF Same
    <3>5. CASE s = x
      <4>1. refs'[s] = refs[s] - 1
        BY <1>0, <2>1, <3>2, <3>5 DEF TypeOK, DataOK
      <4>2. Same(param[t], s) = 1 BY <3>5 DEF Same
      <4> HIDE DEF x
      <4> QED BY <3>1, <3>3, <3>4, <3>5, <4>1, <4>2
    <3>6. CASE s # x
      <4>1. refs'[s] = refs[s]
        BY <1>0, <2>1, <3>6 DEF TypeOK, DataOK
      <4>2. Same(param[t], s) = 0 BY <3>6 DEF Same
      <4> QED BY <3>1, <3>3, <3>4, <4>1, <4>2
    <3> QED BY <3>5, <3>6
  <2> QED BY <1>0, <2>1, <2>3, <2>4, <2>5, RefsStep
<1>7. CASE \/ Service(t) \/ Touch(t) \/ Gate(t) \/ CheckTicket(t) \/ LoggedIn(t)
           \/ RightPassword(t) \/ Static(t)
  <2>1. UNCHANGED <<session, param, dropped, sessions, data, refs, sweep>>
    BY <1>7 DEF Service, Touch, Gate, CheckTicket, LoggedIn, RightPassword, Static, StaticNow,
                CacheLookup, Respond, ReadFile, CacheInsert, handleVars, dataVars
  <2>2. TodoInStore' BY <1>0, <1>1, <2>1, TodoFrame
  <2> QED BY <2>1, <2>2, RefsFrame
<1> QED BY <1>2, <1>3, <1>4, <1>5, <1>6, <1>7 DEF Find, Login

(* The destructor: the one who takes the last reference deletes the data.  *)
LEMMA MapperDropNext ==
  ASSUME MapperInv, TypeOK', LocalInv', NEW a \in Actor, Drop(a)
  PROVE  MapperInv'
<1>0. HandlesLocal(a) /\ TypeOK /\ LocalInv /\ TodoInStore /\ pc[a] = "drop"
  BY DEF MapperInv, LocalInv, Drop
<1>1. /\ session' = [session EXCEPT ![a] = NoSession]
      /\ UNCHANGED <<param, sessions, data, sweep>>
  BY DEF Drop
<1>2. session'[a] = NoSession /\ session[a] \in Ids
  BY <1>0, <1>1 DEF TypeOK, HandlesOK
<1>3. SameBut(session, session', a) /\ SameBut(param, param', a)
  BY <1>0, <1>1 DEF SameBut, TypeOK, HandlesOK
<1>4. TodoInStore'
  <2>1. PICK l \in Labels \ {"erase"} : pc' = [pc EXCEPT ![a] = l]
    BY <1>0 DEF Drop, Goto, Labels, TypeOK, ControlOK
  <2>2. pc'[Timer] # "erase" \/ (pc[Timer] = "erase" /\ a # Timer)
    BY <1>0, <2>1 DEF TypeOK, ControlOK, Actor
  <2>3. pc'[Timer] # "idle" => pc[Timer] # "idle"
    BY <1>0, <2>1 DEF TypeOK, ControlOK
  <2>4. a # Timer => session'[Timer] = session[Timer]
    BY <1>0, <1>1 DEF TypeOK, HandlesOK
  <2> QED BY <1>0, <1>1, <2>2, <2>3, <2>4 DEF TodoInStore
<1>5. CASE session[a] = NoSession
  <2>1. refs' = refs /\ dropped' = dropped BY <1>5 DEF Drop
  <2>2. session' = session BY <1>0, <1>1, <1>5 DEF TypeOK, HandlesOK
  <2> QED BY <1>1, <1>4, <2>1, <2>2, RefsFrame
<1>6. CASE session[a] # NoSession
  <2>1. PICK x \in Session : x = session[a] BY <1>2, <1>6 DEF Ids
  <2>2. /\ refs' = [refs EXCEPT ![x] = @ - 1]
        /\ dropped' = [dropped EXCEPT ![a] = [of |-> x, left |-> refs[x] - 1]]
    BY <1>6, <2>1 DEF Drop
  <2>3. /\ dropped[a] = NoDrop /\ dropped'[a] = [of |-> x, left |-> refs[x] - 1]
        /\ \A b \in Actor \ {a} : dropped'[b] = dropped[b]
    BY <1>0, <2>2 DEF HandlesLocal, TypeOK, HandlesOK
  <2>4. ASSUME NEW s \in Session PROVE Counted(s)' /\ Safe(s)'
    <3>0. Counted(s) /\ Safe(s) /\ s # NoSession
      BY MapperAssumption DEF MapperInv
    <3>1. /\ refs[s] \in Nat /\ InStore(s) \in {0, 1}
          /\ s = x => refs[s] >= InStore(s) + 1
      BY <1>0, <2>1, <3>0, CountedAtLeast
    <3>2. InStore(s)' = InStore(s) /\ param'[a] = param[a] /\ Same(param[a], s) \in Int
      BY <1>1 DEF InStore, Same
    <3>3. Same(session'[a], s) = 0 BY <1>2, <3>0 DEF Same
    <3>4. CASE s = x
      <4>1. refs'[s] = refs[s] - 1
        BY <1>0, <2>2, <3>4 DEF TypeOK, DataOK
      <4>2. Same(session[a], s) = 1 BY <2>1, <3>4 DEF Same
      <4>3. Counted(s)'
        <5>1. refs'[s] - refs[s] =
                (InStore(s)' - InStore(s))
                + (Same(session'[a], s) - Same(session[a], s))
                + (Same(param'[a], s) - Same(param[a], s))
          BY <3>1, <3>2, <3>3, <4>1, <4>2
        <5> QED BY <1>0, <1>3, <3>0, <5>1, CountedStep
      <4>4. data[s] = "alive" /\ Deleting(s) = {}
        BY <3>0, <3>1, <3>4 DEF Safe
      <4>5. Deleting(s)' = IF refs'[s] = 0 THEN {a} ELSE {}
        <5>0. dropped'[a].of = s /\ dropped'[a].left = refs[s] - 1
          BY <2>3, <3>4
        <5>1. a \in Deleting(s)' <=> refs'[s] = 0
          BY <4>1, <5>0 DEF Deleting
        <5>2. \A b \in Actor \ {a} : b \notin Deleting(s)'
          BY <2>3, <4>4 DEF Deleting
        <5>3. Deleting(s)' \subseteq Actor BY DEF Deleting
        <5> QED BY <5>1, <5>2, <5>3
      <4>6. Safe(s)' BY <1>1, <4>4, <4>5 DEF Safe
      <4> QED BY <4>3, <4>6
    <3>5. CASE s # x
      <4>1. refs'[s] = refs[s] BY <1>0, <2>2, <3>5 DEF TypeOK, DataOK
      <4>2. Same(session[a], s) = 0 BY <2>1, <3>5 DEF Same
      <4>3. Counted(s)'
        <5>1. refs'[s] - refs[s] =
                (InStore(s)' - InStore(s))
                + (Same(session'[a], s) - Same(session[a], s))
                + (Same(param'[a], s) - Same(param[a], s))
          BY <3>1, <3>2, <3>3, <4>1, <4>2
        <5> QED BY <1>0, <1>3, <3>0, <5>1, CountedStep
      <4>4. Deleting(s)' = Deleting(s)
        BY <2>3, <3>0, <3>5 DEF Deleting, NoDrop
      <4>5. Safe(s)' BY <1>1, <3>0, <4>1, <4>4 DEF Safe
      <4> QED BY <4>3, <4>5
    <3> QED BY <3>4, <3>5
  <2> QED BY <1>4, <2>4 DEF MapperInv
<1> QED BY <1>5, <1>6

LEMMA MapperDeleteNext ==
  ASSUME MapperInv, TypeOK', LocalInv', NEW a \in Actor, Delete(a)
  PROVE  MapperInv'
<1>0. HandlesLocal(a) /\ TypeOK /\ LocalInv /\ TodoInStore /\ pc[a] = "delete"
  BY DEF MapperInv, LocalInv, Delete
<1>1. /\ dropped' = [dropped EXCEPT ![a] = NoDrop]
      /\ UNCHANGED <<session, param, sessions, refs, sweep>>
  BY DEF Delete
<1>2. TodoInStore'
  <2>1. PICK l \in Labels \ {"erase"} : pc' = [pc EXCEPT ![a] = l]
    BY <1>0 DEF Delete, Goto, Labels, TypeOK, ControlOK
  <2>2. pc'[Timer] = "erase" => pc[Timer] = "erase"
    BY <1>0, <2>1 DEF TypeOK, ControlOK, Actor
  <2>3. pc'[Timer] # "idle" => pc[Timer] # "idle"
    BY <1>0, <2>1 DEF TypeOK, ControlOK
  <2> QED BY <1>0, <1>1, <2>2, <2>3 DEF TodoInStore
<1>3. PICK x \in Session : x = dropped[a].of BY <1>0 DEF HandlesLocal
<1>4. /\ dropped'[a] = NoDrop
      /\ \A b \in Actor \ {a} : dropped'[b] = dropped[b]
  BY <1>0, <1>1 DEF TypeOK, HandlesOK
<1>5. ASSUME NEW s \in Session PROVE Counted(s)' /\ Safe(s)'
  <2>0. Counted(s) /\ Safe(s) /\ s # NoSession
    BY MapperAssumption DEF MapperInv
  <2>1. Counted(s)' BY <1>1, <2>0 DEF Counted, InStore
  <2>2. Deleting(s)' = Deleting(s) \ {a}
    BY <1>4, <2>0 DEF Deleting, NoDrop
  <2>3. CASE s = x /\ dropped[a].left = 0
    <3>1. a \in Deleting(s) BY <1>3, <2>3 DEF Deleting
    <3>2. refs[s] = 0 /\ Deleting(s)' = {} BY <2>0, <2>2, <3>1 DEF Safe
    <3>3. data'[s] = "deleted" BY <1>0, <1>3, <2>3 DEF Delete, TypeOK, DataOK
    <3> QED BY <1>1, <2>1, <3>2, <3>3 DEF Safe
  <2>4. CASE ~(s = x /\ dropped[a].left = 0)
    <3>1. a \notin Deleting(s) BY <1>3, <2>4 DEF Deleting
    <3>2. data'[s] = data[s] BY <1>0, <1>3, <2>4 DEF Delete, TypeOK, DataOK
    <3> QED BY <1>1, <2>0, <2>1, <2>2, <3>1, <3>2 DEF Safe
  <2> QED BY <2>3, <2>4
<1> QED BY <1>2, <1>5 DEF MapperInv

LEMMA MapperTimerNext ==
  ASSUME MapperInv, TypeOK', LocalInv', Sweep
  PROVE  MapperInv'
<1>0. /\ Timer \in Actor /\ HandlesLocal(Timer)
      /\ TypeOK /\ LocalInv /\ TodoInStore
  BY DEF Actor, MapperInv, LocalInv
<1>1. CASE SweepStart \/ SweepEnd
  <2>1. UNCHANGED <<session, param, dropped, sessions, data, refs>>
    BY <1>1 DEF SweepStart, SweepEnd, handleVars, dataVars
  <2>2. \/ sweep'.todo = sessions /\ pc'[Timer] = "sweep"
        \/ pc'[Timer] = "idle"
    BY <1>0, <1>1 DEF SweepStart, SweepEnd, Goto, TypeOK, ControlOK
  <2>3. TodoInStore' BY <2>1, <2>2 DEF TodoInStore
  <2> QED BY <2>1, <2>3, RefsFrame
<1>2. CASE SweepRead
  <2>1. PICK x \in sweep.todo :
          /\ session' = [session EXCEPT ![Timer] = x]
          /\ refs' = Copied(x)
          /\ sweep' = [sweep EXCEPT !.todo = @ \ {x}, !.last = last[x]]
    BY <1>2 DEF SweepRead
  <2>2. /\ pc[Timer] = "sweep" /\ pc'[Timer] = "erase"
        /\ UNCHANGED <<param, dropped, sessions, data>>
    BY <1>0, <1>2 DEF SweepRead, Goto, TypeOK, ControlOK
  <2>3. x \in sessions /\ x \in Session /\ x # NoSession
    BY <1>0, <2>2, MapperAssumption DEF TodoInStore, TypeOK, DataOK
  <2>4. session[Timer] = NoSession /\ session'[Timer] = x
    BY <1>0, <2>1, <2>2 DEF HandlesLocal, Holding, TypeOK, HandlesOK
  <2>5. TodoInStore'
    <3>1. sweep'.todo = sweep.todo \ {x} BY <1>0, <2>1 DEF TypeOK, TimeOK, Sweeps
    <3> QED BY <1>0, <2>2, <2>3, <2>4, <3>1 DEF TodoInStore
  <2>6. SameBut(session, session', Timer) /\ SameBut(param, param', Timer)
    BY <1>0, <2>1, <2>2 DEF SameBut, TypeOK, HandlesOK
  <2>7. ASSUME NEW s \in Session
        PROVE  /\ refs'[s] - refs[s] =
                    (InStore(s)' - InStore(s))
                    + (Same(session'[Timer], s) - Same(session[Timer], s))
                    + (Same(param'[Timer], s) - Same(param[Timer], s))
               /\ refs'[s] # 0 <=> refs[s] # 0
    <3>1. refs[s] \in Nat /\ (s \in sessions => refs[s] >= 1)
      BY <1>0, CountedAtLeast DEF MapperInv, InStore
    <3>2. /\ InStore(s)' = InStore(s) /\ InStore(s) \in Int
          /\ param'[Timer] = param[Timer] /\ Same(param[Timer], s) \in Int
      BY <2>2 DEF InStore, Same
    <3>3. Same(session[Timer], s) = 0 BY <2>4, MapperAssumption DEF Same
    <3>4. CASE s = x
      <4>1. refs'[s] = refs[s] + 1
        BY <1>0, <2>1, <2>3, <3>4 DEF Copied, TypeOK, DataOK
      <4>2. Same(session'[Timer], s) = 1 BY <2>4, <3>4 DEF Same
      <4> QED BY <2>3, <3>1, <3>2, <3>3, <3>4, <4>1, <4>2
    <3>5. CASE s # x
      <4>1. refs'[s] = refs[s]
        BY <1>0, <2>1, <2>3, <3>5 DEF Copied, TypeOK, DataOK
      <4>2. Same(session'[Timer], s) = 0 BY <2>4, <3>5 DEF Same
      <4> QED BY <3>1, <3>2, <3>3, <4>1, <4>2
    <3> QED BY <3>4, <3>5
  <2> QED BY <1>0, <2>2, <2>5, <2>6, <2>7, RefsStep
<1>3. CASE SweepErase
  <2>1. /\ pc[Timer] = "erase" /\ pc'[Timer] = "drop"
        /\ TakeOut(session[Timer]) \/ UNCHANGED <<sessions, refs>>
        /\ UNCHANGED <<session, param, dropped, data, sweep>>
    BY <1>0, <1>3 DEF SweepErase, Goto, handleVars, TypeOK, ControlOK
  <2>2. PICK x \in Session : x = session[Timer] /\ x \in sessions \ sweep.todo
    BY <1>0, <2>1 DEF TodoInStore, TypeOK, DataOK
  <2>3. TodoInStore'
    BY <1>0, <2>1, <2>2 DEF TodoInStore, TakeOut
  <2>4. SameBut(session, session', Timer) /\ SameBut(param, param', Timer)
    BY <2>1 DEF SameBut
  <2>5. CASE UNCHANGED <<sessions, refs>>
    BY <2>1, <2>3, <2>5, RefsFrame
  <2>6. CASE TakeOut(session[Timer])
    <3>1. ASSUME NEW s \in Session
          PROVE  /\ refs'[s] - refs[s] =
                      (InStore(s)' - InStore(s))
                      + (Same(session'[Timer], s) - Same(session[Timer], s))
                      + (Same(param'[Timer], s) - Same(param[Timer], s))
                 /\ refs'[s] # 0 <=> refs[s] # 0
      <4>1. /\ refs[s] \in Nat /\ InStore(s) \in {0, 1}
            /\ s = x => refs[s] >= InStore(s) + 1
        BY <1>0, <2>2, CountedAtLeast DEF MapperInv
      <4>2. /\ session'[Timer] = session[Timer] /\ Same(session[Timer], s) \in Int
            /\ param'[Timer] = param[Timer] /\ Same(param[Timer], s) \in Int
        BY <2>1 DEF Same
      <4>3. CASE s = x
        <5>1. refs'[s] = refs[s] - 1
          BY <1>0, <2>2, <2>6, <4>3 DEF TakeOut, TypeOK, DataOK
        <5>2. InStore(s) = 1 /\ InStore(s)' = 0
          BY <2>2, <2>6, <4>3 DEF TakeOut, InStore
        <5> QED BY <4>1, <4>2, <4>3, <5>1, <5>2
      <4>4. CASE s # x
        <5>1. refs'[s] = refs[s]
          BY <1>0, <2>2, <2>6, <4>4 DEF TakeOut, TypeOK, DataOK
        <5>2. InStore(s)' = InStore(s)
          BY <2>2, <2>6, <4>4 DEF TakeOut, InStore
        <5> QED BY <4>1, <4>2, <5>1, <5>2
      <4> QED BY <4>3, <4>4
    <3> QED BY <1>0, <2>1, <2>3, <2>4, <3>1, RefsStep
  <2> QED BY <2>1, <2>5, <2>6
<1> QED BY <1>1, <1>2, <1>3 DEF Sweep

LEMMA MapperNext == MapperInv /\ [Next]_vars => MapperInv'
<1> SUFFICES ASSUME MapperInv, [Next]_vars PROVE MapperInv' OBVIOUS
<1>1. TypeOK' /\ LocalInv' BY MapperTypeNext, LocalNext DEF MapperInv
<1>2. CASE Evict \/ ReplaceFile \/ Tick \/ UNCHANGED vars
  <2>1. UNCHANGED <<pc, session, param, dropped, sessions, data, refs, sweep>>
    BY <1>2 DEF Evict, ReplaceFile, Tick, vars, handleVars, dataVars
  <2>2. TodoInStore' BY <2>1 DEF MapperInv, TodoInStore
  <2> QED BY <1>1, <2>1, <2>2, RefsFrame
<1> QED BY <1>1, <1>2, MapperThreadNext, MapperDropNext, MapperDeleteNext,
           MapperTimerNext DEF Next

LEMMA MapperInvariant == Spec => []MapperInv
<1> QED BY MapperInit, MapperNext, PTL DEF Spec

(* The handlers, the store with its sessions and the cache are well typed, *)
(* for any number of each.                                                 *)
THEOREM MapperTypeCorrect == Spec => []TypeOK
<1>1. MapperInv => TypeOK BY DEF MapperInv
<1> QED BY <1>1, MapperInvariant, PTL

(* refCount is the number of the references there are, for any number of   *)
(* handlers and sessions.                                                  *)
THEOREM ReferencesAreCounted == Spec => []RefsExact
<1>1. ASSUME MapperInv PROVE RefsExact
  BY <1>1 DEF MapperInv, Counted, RefsExact, InStore, Held, Holders, Params
<1> QED BY <1>1, MapperInvariant, PTL

(* The data of a session are deleted by the last one to let go, and by     *)
(* nobody else.                                                            *)
THEOREM SessionsDeletedOnce == Spec => []DeletedOnce
<1>1. ASSUME MapperInv PROVE DeletedOnce
  <2> SUFFICES ASSUME NEW s \in Session
               PROVE  /\ s \in sessions \/ Holders(s) # {} \/ Params(s) # {}
                           => data[s] = "alive" /\ Deleting(s) = {}
                      /\ \A a, b \in Actor : {a, b} \subseteq Deleting(s) => a = b
                      /\ \A a \in Actor : dropped[a].of = s /\ pc[a] = "delete"
                                          /\ dropped[a].left = 0 => data[s] = "alive"
                      /\ data[s] = "alive" => refs[s] > 0 \/ Deleting(s) # {}
    BY DEF DeletedOnce
  <2>1. Counted(s) /\ Safe(s) /\ TypeOK BY <1>1 DEF MapperInv
  <2>2. refs[s] \in Nat BY <2>1, CountedAtLeast
  <2>3. s \in sessions => refs[s] # 0 BY <2>1, CountedAtLeast
  <2>4. Holders(s) # {} => refs[s] # 0
    BY <2>1, CountedAtLeast DEF Holders
  <2>5. Params(s) # {} => refs[s] # 0
    <3>1. ASSUME NEW a \in Actor, param[a] = s PROVE refs[s] # 0
      <4>1. Held(param, s) > 0 /\ Held(param, s) \in Nat BY <3>1, HeldType
      <4> QED BY <2>1, <4>1, CountedAtLeast
    <3> QED BY <3>1 DEF Params
  <2>6. \A a \in Actor : dropped[a].of = s /\ dropped[a].left = 0 => a \in Deleting(s)
    BY DEF Deleting
  <2> QED BY <2>1, <2>2, <2>3, <2>4, <2>5, <2>6 DEF Safe
<1> QED BY <1>1, MapperInvariant, PTL

-----------------------------------------------------------------------------
(* Who is served.                                                          *)

(* Once it is logged in, a session is until its data are gone.              *)
Named(s) == user[s] \/ data[s] = "deleted"

Served(t) == id[t] # NoSession /\ Named(id[t])

(* A handler asks the session that service found, or none: one that it has *)
(* created itself, which others may have logged in meanwhile, is not asked.*)
GateInv ==
  \A t \in Thread :
    /\ at[t] = "ticket" /\ pc[t] # "idle" => Served(t)
    /\ path[t] # "public" /\ pc[t] \in {"static", "cache", "read", "respond", "insert"}
         => Served(t)
    /\ path[t] # "public" /\ after[t] = "static" => Served(t)
    /\ pc[t] \in {"touch", "look"} => session[t] \in {id[t], NoSession}

LEMMA GateInit == Init => GateInv
<1> SUFFICES ASSUME Init, NEW t \in Thread
             PROVE  pc[t] = "idle" /\ at[t] = "mapper" /\ after[t] = "idle"
  BY DEF GateInv
<1> QED BY DEF Init, Actor

LEMMA GateNext == MapperInv /\ GateInv /\ [Next]_vars => GateInv'
<1> SUFFICES ASSUME MapperInv, GateInv, [Next]_vars PROVE GateInv' OBVIOUS
<1>0. TypeOK BY DEF MapperInv
<1> DEFINE G(t) ==
      /\ at[t] = "ticket" /\ pc[t] # "idle" => Served(t)
      /\ path[t] # "public" /\ pc[t] \in {"static", "cache", "read", "respond", "insert"}
           => Served(t)
      /\ path[t] # "public" /\ after[t] = "static" => Served(t)
      /\ pc[t] \in {"touch", "look"} => session[t] \in {id[t], NoSession}
<1>1. \A t \in Thread : G(t) BY DEF GateInv
(* Nobody logs out: what a handler that does not run has, it keeps.        *)
<1>2. \A s \in Session : Named(s) => Named(s)'
  <2>1. \A s \in Session : data[s] = "deleted" => data'[s] = "deleted"
    <3>1. ASSUME NEW t \in Thread, CreateSession(t)
          PROVE  \A s \in Session : data[s] = "deleted" => data'[s] = "deleted"
      BY <1>0, <3>1 DEF CreateSession, TypeOK, DataOK
    <3>2. ASSUME NEW t \in Thread,
                 (Find(t) /\ ~CreateSession(t)) \/ Static(t) \/ Login(t)
          PROVE  data' = data
      BY <3>2 DEF Find, Login, Static, Service, OpenSession, Touch, Gate, CheckTicket,
             LoggedIn, RightPassword, WrongPassword, RemoveSession, DropParam,
             StaticNow, CacheLookup, Respond, ReadFile, CacheInsert, dataVars
    <3>3. ASSUME NEW a \in Actor, Delete(a)
          PROVE  \A s \in Session : data[s] = "deleted" => data'[s] = "deleted"
      BY <1>0, <3>3 DEF Delete, TypeOK, DataOK
    <3>4. ASSUME \/ \E a \in Actor : Drop(a)
                 \/ Sweep \/ Evict \/ ReplaceFile \/ Tick \/ UNCHANGED vars
          PROVE  data' = data
      BY <3>4 DEF Drop, Sweep, SweepStart, SweepRead, SweepErase, SweepEnd,
             Evict, ReplaceFile, Tick, vars, dataVars
    <3> QED BY <3>1, <3>2, <3>3, <3>4 DEF Next
  <2>2. ASSUME NEW t \in Thread, RightPassword(t)
        PROVE  user' = user \/ \E s \in Session : user' = [user EXCEPT ![s] = TRUE]
    BY <1>0, <2>2 DEF RightPassword, TypeOK, HandlesOK, Ids, Actor
  <2>3. ASSUME NEW t \in Thread,
               Find(t) \/ Static(t) \/ (Login(t) /\ ~RightPassword(t))
        PROVE  user' = user
    BY <2>3 DEF Find, Login, Static, Service, CreateSession, OpenSession, Touch,
                Gate, CheckTicket,
           LoggedIn, WrongPassword, RemoveSession, DropParam, StaticNow, CacheLookup,
           Respond, ReadFile, CacheInsert, dataVars
  <2>4. ASSUME \/ \E a \in Actor : Drop(a)
               \/ Sweep \/ Evict \/ ReplaceFile \/ Tick \/ UNCHANGED vars
        PROVE  user' = user
    BY <2>4 DEF Drop, Sweep, SweepStart, SweepRead, SweepErase, SweepEnd,
           Evict, ReplaceFile, Tick, vars, dataVars
  <2>5. ASSUME NEW a \in Actor, Delete(a), NEW s \in Session, Named(s)
        PROVE  Named(s)'
    BY <1>0, <2>1, <2>5 DEF Delete, Named, TypeOK, DataOK
  <2>6. ASSUME \/ user' = user
               \/ \E s \in Session : user' = [user EXCEPT ![s] = TRUE]
        PROVE  \A s \in Session : Named(s) => Named(s)'
    BY <1>0, <2>1, <2>6 DEF Named, TypeOK, DataOK
  <2> QED BY <2>2, <2>3, <2>4, <2>5, <2>6 DEF Next
<1>3. ASSUME NEW t \in Thread, id'[t] = id[t], Served(t) PROVE Served(t)'
  <2>1. id[t] \in Session BY <1>0, <1>3 DEF TypeOK, RequestsOK, Ids, Served
  <2> QED BY <1>2, <1>3, <2>1 DEF Served, Named
<1>4. ASSUME NEW t \in Thread, pc'[t] = pc[t], after'[t] = after[t],
             session'[t] = session[t],
             at'[t] = at[t], path'[t] = path[t], id'[t] = id[t]
      PROVE  G(t)'
  BY <1>1, <1>3, <1>4
<1>5. ASSUME NEW t \in Thread, NEW u \in Actor \ {t}, Drop(u) \/ Delete(u)
      PROVE  G(t)'
  <2>1. /\ pc'[t] = pc[t] /\ after'[t] = after[t] /\ session'[t] = session[t]
        /\ at'[t] = at[t] /\ path'[t] = path[t] /\ id'[t] = id[t]
    BY <1>0, <1>5 DEF Drop, Delete, Goto, requestVars, TypeOK, ControlOK, HandlesOK,
                      Actor
  <2> QED BY <1>4, <2>1
<1>6. ASSUME NEW t \in Thread, Sweep \/ Evict \/ ReplaceFile \/ Tick \/ UNCHANGED vars
      PROVE  G(t)'
  <2>0. t \in Actor /\ t # Timer BY MapperAssumption DEF Actor
  <2>1. /\ pc'[t] = pc[t] /\ after'[t] = after[t] /\ session'[t] = session[t]
        /\ UNCHANGED requestVars
    BY <1>0, <1>6, <2>0
       DEF Sweep, SweepStart, SweepRead, SweepErase, SweepEnd, Evict, ReplaceFile,
           Tick,
           Goto, vars, requestVars, handleVars, TypeOK, ControlOK, HandlesOK
  <2> QED BY <1>4, <2>1 DEF requestVars
<1>7. ASSUME NEW t \in Thread, NEW u \in Thread \ {t}, Find(u) \/ Login(u) \/ Static(u)
      PROVE  G(t)'
  <2>0. t \in Actor /\ u \in Actor BY DEF Actor
  <2>1. pc'[t] = pc[t]
    <3>1. PICK l : pc' = [pc EXCEPT ![u] = l]
      BY <1>7 DEF Find, Login, Static, Service, CreateSession, OpenSession, Touch,
                  Gate,
             CheckTicket, LoggedIn, RightPassword, WrongPassword, RemoveSession, DropParam, StaticNow,
             CacheLookup, Respond, ReadFile, CacheInsert, Goto
    <3> QED BY <1>0, <2>0, <3>1 DEF TypeOK, ControlOK
  <2>2. after'[t] = after[t] /\ session'[t] = session[t]
    BY <1>0, <1>7, <2>0
       DEF Find, Login, Static, Service, CreateSession, OpenSession, Touch, Gate,
           CheckTicket, LoggedIn, RightPassword, WrongPassword, RemoveSession, DropParam, StaticNow,
           CacheLookup, Respond, ReadFile, CacheInsert, handleVars,
           TypeOK, ControlOK, HandlesOK
  <2>3. at'[t] = at[t] /\ path'[t] = path[t] /\ id'[t] = id[t]
    BY <1>0, <1>7
       DEF Find, Login, Static, Service, CreateSession, OpenSession, Touch, Gate,
           CheckTicket, LoggedIn, RightPassword, WrongPassword, RemoveSession, DropParam, StaticNow,
           CacheLookup, Respond, ReadFile, CacheInsert, requestVars, TypeOK, RequestsOK
  <2> QED BY <1>4, <2>1, <2>2, <2>3
<1>8. ASSUME NEW t \in Thread, Find(t) \/ Login(t) \/ Static(t) \/ Drop(t) \/ Delete(t)
      PROVE  G(t)'
  <2>0. t \in Actor /\ G(t) /\ LocalInv BY <1>1 DEF Actor, MapperInv
  <2>1. CASE Service(t)
    <3>1. PICK p \in load.paths, l \in {"static", "create", "open"} :
            /\ path' = [path EXCEPT ![t] = p]
            /\ at' = [at EXCEPT ![t] = IF p = "login" THEN "login" ELSE "mapper"]
            /\ pc' = [pc EXCEPT ![t] = l] /\ (l = "static" => p = "public")
      BY <2>1 DEF Service, Goto
    <3>2. after' = [after EXCEPT ![t] = "idle"] BY <2>1 DEF Service
    <3>3. /\ path'[t] = p /\ at'[t] # "ticket" /\ pc'[t] = l /\ after'[t] = "idle"
      BY <1>0, <2>0, <3>1, <3>2 DEF TypeOK, RequestsOK, ControlOK
    <3> QED BY <3>1, <3>3
  <2>2. ASSUME UNCHANGED requestVars, after'[t] = after[t], pc[t] # "idle",
               \/ pc'[t] \notin {"static", "cache", "read", "respond", "insert",
                                 "touch", "look"}
               \/ pc[t] \in {"static", "cache", "read", "respond", "insert"}
                  /\ pc'[t] \notin {"touch", "look"}
        PROVE  G(t)'
    BY <1>3, <2>0, <2>2 DEF requestVars
  <2>3. CASE \/ CreateSession(t) \/ CheckTicket(t) \/ LoggedIn(t) \/ RightPassword(t)
             \/ WrongPassword(t) \/ RemoveSession(t) \/ DropParam(t)
    <3>1. /\ UNCHANGED requestVars /\ after' = after /\ pc[t] # "idle"
          /\ pc'[t] \in {"drop", "pass", "remove", "return"}
      BY <1>0, <2>0, <2>3
         DEF CreateSession, CheckTicket, LoggedIn, RightPassword, WrongPassword,
             RemoveSession, DropParam, Goto, TypeOK, ControlOK
    <3> QED BY <2>2, <3>1
  <2>4. CASE Static(t)
    <3>1. /\ UNCHANGED requestVars /\ after' = after
          /\ pc[t] \in {"static", "cache", "read", "respond", "insert"}
          /\ pc'[t] \in {"idle", "cache", "read", "respond", "insert"}
      BY <1>0, <2>0, <2>4
         DEF Static, StaticNow, CacheLookup, Respond, ReadFile, CacheInsert, Goto,
             TypeOK, ControlOK
    <3> QED BY <2>2, <3>1
  <2>5. CASE OpenSession(t)
    <3>1. /\ UNCHANGED requestVars /\ after' = after /\ pc[t] = "open"
          /\ pc'[t] = "touch" /\ session'[t] \in {id[t], NoSession}
      BY <1>0, <2>0, <2>5 DEF OpenSession, Goto, TypeOK, ControlOK, HandlesOK
    <3> QED BY <1>3, <2>0, <3>1 DEF requestVars
  <2>6. CASE Touch(t)
    <3>1. /\ UNCHANGED requestVars /\ after'[t] = "idle" /\ pc[t] = "touch"
          /\ pc'[t] = "look" /\ session' = session
      BY <1>0, <2>0, <2>6 DEF Touch, Goto, handleVars, TypeOK, ControlOK
    <3> QED BY <1>3, <2>0, <3>1 DEF requestVars
  <2>7. CASE Gate(t)
    <3>1. /\ pc[t] = "look" /\ pc'[t] = "drop" /\ path' = path /\ id' = id
          /\ at'[t] # "ticket" \/ HasUser(t) \/ at[t] = "ticket"
          /\ after'[t] # "static" \/ HasUser(t)
      BY <1>0, <2>0, <2>7 DEF Gate, Goto, TypeOK, ControlOK, RequestsOK
    <3>2. HasUser(t) => Served(t) BY <2>0, <3>1 DEF HasUser, Served, Named
    <3> QED BY <1>3, <2>0, <3>1, <3>2
  <2>8. CASE Drop(t) \/ Delete(t)
    <3>1. /\ UNCHANGED requestVars /\ after' = after /\ pc[t] \in {"drop", "delete"}
          /\ pc'[t] = after[t] \/ pc'[t] = "delete"
      BY <1>0, <2>0, <2>8 DEF Drop, Delete, Goto, TypeOK, ControlOK
    <3>2. after[t] \in {"idle", "open", "static", "sweep"}
      BY <1>0, <2>0 DEF TypeOK, ControlOK
    <3> QED BY <1>3, <2>0, <3>1, <3>2 DEF requestVars
  <2> QED BY <1>8, <2>1, <2>3, <2>4, <2>5, <2>6, <2>7, <2>8 DEF Find, Login
<1>9. ASSUME NEW t \in Thread PROVE G(t)'
  <2>1. \/ \E u \in Thread : Find(u) \/ Login(u) \/ Static(u)
        \/ \E u \in Actor : Drop(u) \/ Delete(u)
        \/ Sweep \/ Evict \/ ReplaceFile \/ Tick \/ UNCHANGED vars
    BY DEF Next
  <2> HIDE DEF G
  <2> QED BY <1>5, <1>6, <1>7, <1>8, <2>1
<1> QED BY <1>9 DEF GateInv

(* No document but the public ones, and no ticket, is given to a request   *)
(* whose session has not been logged in.                                   *)
THEOREM ServedAreLoggedIn == Spec => []OnlyLoggedInServed
<1>1. GateInv => OnlyLoggedInServed BY DEF GateInv, OnlyLoggedInServed, Served, Named
<1> QED BY <1>1, MapperInvariant, GateInit, GateNext, PTL DEF Spec

-----------------------------------------------------------------------------
(* The timer.                                                              *)

(* What it has read of a session is what is there, or has been written     *)
(* since it started.                                                       *)
SweepInv ==
  /\ sweep.now <= clock
  /\ pc[Timer] = "erase" =>
       last[session[Timer]] = sweep.last \/ last[session[Timer]] >= sweep.now

LEMMA SweepInit == Init => SweepInv
BY DEF Init, SweepInv, Actor

LEMMA SweepNext == MapperInv /\ SweepInv /\ [Next]_vars => SweepInv'
<1> SUFFICES ASSUME MapperInv, SweepInv, [Next]_vars PROVE SweepInv' OBVIOUS
<1>0. /\ TypeOK /\ TypeOK' /\ TodoInStore /\ Timer \in Actor
      /\ clock \in Nat /\ sweep.now \in Nat
  BY MapperTypeNext DEF MapperInv, Actor, TypeOK, TimeOK, Sweeps
<1>1. ASSUME clock' = clock, sweep' = sweep, pc'[Timer] = "erase" =>
               /\ pc[Timer] = "erase" /\ session'[Timer] = session[Timer]
               /\ last'[session[Timer]] \in {last[session[Timer]], clock}
      PROVE  SweepInv'
  BY <1>0, <1>1 DEF SweepInv
<1>2. ASSUME NEW t \in Thread, Find(t) \/ Login(t) \/ Static(t) PROVE SweepInv'
  <2>0. t \in Actor /\ t # Timer BY MapperAssumption DEF Actor
  <2>1. pc'[Timer] = pc[Timer]
    <3>1. PICK l : pc' = [pc EXCEPT ![t] = l]
      BY <1>2 DEF Find, Login, Static, Service, CreateSession, OpenSession, Touch,
                  Gate,
             CheckTicket, LoggedIn, RightPassword, WrongPassword, RemoveSession, DropParam, StaticNow,
             CacheLookup, Respond, ReadFile, CacheInsert, Goto
    <3> QED BY <1>0, <2>0, <3>1 DEF TypeOK, ControlOK
  <2>2. clock' = clock /\ sweep' = sweep /\ session'[Timer] = session[Timer]
    BY <1>0, <1>2, <2>0
       DEF Find, Login, Static, Service, CreateSession, OpenSession, Touch, Gate,
           CheckTicket, LoggedIn, RightPassword, WrongPassword, RemoveSession, DropParam, StaticNow,
           CacheLookup, Respond, ReadFile, CacheInsert, handleVars, TypeOK, HandlesOK
  <2>3. ASSUME pc[Timer] = "erase"
        PROVE  last'[session[Timer]] \in {last[session[Timer]], clock}
    <3>1. session[Timer] \in Session BY <1>0, <2>3 DEF TodoInStore, TypeOK, DataOK
    <3>2. last' = last \/ \E s \in Ids : last' = [last EXCEPT ![s] = clock]
      BY <1>0, <1>2, <2>0
         DEF Find, Login, Static, Service, CreateSession, OpenSession, Touch, Gate,
             CheckTicket, LoggedIn, RightPassword, WrongPassword, RemoveSession, DropParam, StaticNow,
             CacheLookup, Respond, ReadFile, CacheInsert, dataVars, TypeOK, HandlesOK, Ids
    <3> QED BY <1>0, <3>1, <3>2 DEF TypeOK, DataOK
  <2> QED BY <1>1, <2>1, <2>2, <2>3
<1>3. ASSUME NEW a \in Actor, Drop(a) \/ Delete(a) PROVE SweepInv'
  <2>1. clock' = clock /\ sweep' = sweep /\ last' = last
    BY <1>3 DEF Drop, Delete
  <2>2. pc'[Timer] = "erase" =>
          pc[Timer] = "erase" /\ session'[Timer] = session[Timer]
    <3>1. PICK l \in Labels \ {"erase"} : pc' = [pc EXCEPT ![a] = l]
      BY <1>0, <1>3 DEF Drop, Delete, Goto, Labels, TypeOK, ControlOK
    <3>2. a # Timer => session'[Timer] = session[Timer]
      BY <1>0, <1>3 DEF Drop, Delete, TypeOK, HandlesOK
    <3> QED BY <1>0, <3>1, <3>2 DEF TypeOK, ControlOK
  <2> QED BY <1>1, <2>1, <2>2
<1>4. CASE SweepStart \/ SweepErase \/ SweepEnd
  <2>1. /\ clock' = clock /\ sweep'.now \in {sweep.now, clock}
        /\ pc'[Timer] # "erase"
    BY <1>0, <1>4
       DEF SweepStart, SweepErase, SweepEnd, Goto, TypeOK, ControlOK
  <2> QED BY <1>0, <2>1 DEF SweepInv
<1>5. CASE SweepRead
  <2>1. PICK s \in sweep.todo :
          /\ session' = [session EXCEPT ![Timer] = s]
          /\ sweep' = [sweep EXCEPT !.todo = @ \ {s}, !.last = last[s]]
    BY <1>5 DEF SweepRead
  <2>2. clock' = clock /\ last' = last BY <1>5 DEF SweepRead
  <2>3. session'[Timer] = s /\ sweep'.now = sweep.now /\ sweep'.last = last[s]
    BY <1>0, <2>1 DEF TypeOK, HandlesOK, TimeOK, Sweeps
  <2> QED BY <2>2, <2>3 DEF SweepInv
<1>6. CASE Tick
  BY <1>0, <1>6 DEF Tick, handleVars, dataVars, SweepInv
<1>7. CASE Evict \/ ReplaceFile \/ UNCHANGED vars
  BY <1>7 DEF Evict, ReplaceFile, vars, handleVars, dataVars, SweepInv
<1> QED BY <1>2, <1>3, <1>4, <1>5, <1>6, <1>7 DEF Next, Sweep

(* The timer takes a session out of the store only if it had not been      *)
(* accessed for ExpirationTime, or was again only while the timer ran.     *)
THEOREM TimerSweepsIdle == Spec => SweptOnlyIdle
<1> DEFINE Step ==
      pc[Timer] = "erase" =>
        \A s \in sessions \ sessions' :
          \/ sweep.now - last[s] > ExpirationTime
          \/ last[s] >= sweep.now
<1>1. MapperInv /\ SweepInv /\ [Next]_vars => [Step]_vars
  <2> SUFFICES ASSUME MapperInv, SweepInv, [Next]_vars, pc[Timer] = "erase",
                      NEW s \in sessions \ sessions'
               PROVE  \/ sweep.now - last[s] > ExpirationTime
                      \/ last[s] >= sweep.now
    OBVIOUS
  <2>1. TypeOK BY DEF MapperInv
  <2>2. SweepErase
    BY DEF Next, Find, Login, Static, Sweep, Service, CreateSession, OpenSession,
        Touch, Gate, CheckTicket, LoggedIn, RightPassword, WrongPassword, RemoveSession, DropParam,
        StaticNow, CacheLookup, Respond, ReadFile, CacheInsert, Drop, Delete, SweepStart,
        SweepRead, SweepEnd, Evict, ReplaceFile, Tick, vars, dataVars, MutexFree
  <2>3. s = session[Timer] /\ sweep.now - sweep.last > ExpirationTime
    BY <2>2 DEF SweepErase, TakeOut, Expired
  <2> QED BY <2>3 DEF SweepInv
<1> QED BY <1>1, MapperInvariant, SweepInit, SweepNext, PTL DEF Spec, SweptOnlyIdle

-----------------------------------------------------------------------------
(* The cache.                                                              *)

(* The version v was on the disk at the time now, or later.                *)
Recent(v, now) == v \in 1 .. file /\ (v = file \/ replaced[v] >= now)

FileInv ==
  /\ entry # NoEntry => Recent(entry.doc, entry.created) /\ entry.created <= clock
  /\ \A t \in Thread :
       /\ since[t] <= clock
       /\ pc[t] = "insert" => Recent(doc[t], since[t])
       /\ pc[t] = "respond" /\ CacheTime # 0 => Recent(doc[t], since[t] - CacheTime + 1)

LEMMA FileInit == Init => FileInv
BY DEF Init, FileInv, Actor

LEMMA FileNext == TypeOK /\ FileInv /\ [Next]_vars => FileInv'
<1> SUFFICES ASSUME TypeOK, FileInv, [Next]_vars PROVE FileInv' OBVIOUS
<1>0. /\ clock \in Nat /\ CacheTime \in Nat /\ file \in Nat \ {0}
      /\ \A t \in Thread : since[t] \in Nat /\ doc[t] \in Nat /\ t \in Actor
      /\ entry.doc \in Nat /\ entry.created \in Nat
      /\ \A v \in 1 .. file - 1 : replaced[v] \in Nat
  BY MapperAssumption DEF TypeOK, TimeOK, CacheOK, Entries, Actor
<1>1. ASSUME UNCHANGED cacheVars, clock' = clock,
             \A t \in Thread : pc'[t] \in {"insert", "respond"} => pc'[t] = pc[t]
      PROVE  FileInv'
  BY <1>1 DEF FileInv, Recent, cacheVars, NoEntry
<1>2. ASSUME NEW a \in Actor, NEW l,
             pc' = [pc EXCEPT ![a] = l], l \notin {"insert", "respond"},
             UNCHANGED cacheVars, clock' = clock
      PROVE  FileInv'
  <2>1. \A t \in Thread : pc'[t] \in {"insert", "respond"} => pc'[t] = pc[t]
    BY <1>2 DEF TypeOK, ControlOK, Actor
  <2> QED BY <1>1, <1>2, <2>1
<1>3. CASE \E a \in Actor : Drop(a) \/ Delete(a)
  <2>1. PICK a \in Actor : Drop(a) \/ Delete(a) BY <1>3
  <2>2. PICK l : /\ pc' = [pc EXCEPT ![a] = l]
                 /\ l \in {"delete", "idle", "open", "static", "sweep"}
    BY <2>1 DEF Drop, Delete, Goto, TypeOK, ControlOK
  <2>3. UNCHANGED cacheVars /\ clock' = clock BY <2>1 DEF Drop, Delete
  <2> QED BY <1>2, <2>2, <2>3
<1>4. CASE Sweep
  <2>1. PICK l \in {"sweep", "erase", "drop", "idle"} : pc' = [pc EXCEPT ![Timer] = l]
    BY <1>4 DEF Sweep, SweepStart, SweepRead, SweepErase, SweepEnd, Goto
  <2>2. UNCHANGED cacheVars /\ clock' = clock /\ Timer \in Actor
    BY <1>4 DEF Sweep, SweepStart, SweepRead, SweepErase, SweepEnd, Actor
  <2> QED BY <1>2, <2>1, <2>2
<1>5. ASSUME NEW t \in Thread, Find(t) \/ Login(t) \/ Respond(t) PROVE FileInv'
  <2>1. PICK l \in Labels \ {"insert", "respond"} : pc' = [pc EXCEPT ![t] = l]
    BY <1>5 DEF Find, Login, Service, CreateSession, OpenSession, Touch, Gate,
           CheckTicket, LoggedIn, RightPassword, WrongPassword, RemoveSession, DropParam, Respond,
           Goto, Labels
  <2>2. UNCHANGED cacheVars /\ clock' = clock /\ t \in Actor
    BY <1>0, <1>5 DEF Find, Login, Service, CreateSession, OpenSession, Touch, Gate,
           CheckTicket, LoggedIn, RightPassword, WrongPassword, RemoveSession, DropParam, Respond
  <2> QED BY <1>2, <2>1, <2>2
<1>6. ASSUME NEW t \in Thread,
             StaticNow(t) \/ CacheLookup(t) \/ ReadFile(t) \/ CacheInsert(t)
      PROVE  FileInv'
  <2>0. UNCHANGED <<file, replaced, clock>> /\ t \in Actor
    BY <1>0, <1>6 DEF StaticNow, CacheLookup, ReadFile, CacheInsert
  <2>1. \A v, now : Recent(v, now)' <=> Recent(v, now) BY <2>0 DEF Recent
  <2>2. CASE StaticNow(t)
    <3>1. /\ since' = [since EXCEPT ![t] = clock] /\ pc' = [pc EXCEPT ![t] = "cache"]
          /\ doc' = doc /\ entry' = entry
      BY <2>2 DEF StaticNow, Goto
    <3>2. ASSUME NEW u \in Thread
          PROVE  /\ since'[u] <= clock
                 /\ pc'[u] = "insert" => Recent(doc'[u], since'[u])
                 /\ pc'[u] = "respond" /\ CacheTime # 0
                      => Recent(doc'[u], since'[u] - CacheTime + 1)
      BY <1>0, <2>0, <3>1 DEF FileInv, TypeOK, ControlOK, CacheOK, Actor
    <3> QED BY <2>0, <2>1, <3>1, <3>2 DEF FileInv, NoEntry
  <2>3. CASE CacheLookup(t)
    <3>1. /\ since' = since /\ entry' = entry
          /\ \/ /\ pc' = [pc EXCEPT ![t] = "respond"] /\ entry # NoEntry
                /\ CacheTime = 0 \/ entry.created > since[t] - CacheTime
                /\ doc' = [doc EXCEPT ![t] = entry.doc]
             \/ pc' = [pc EXCEPT ![t] = "read"] /\ doc' = doc
      BY <2>3 DEF CacheLookup, Goto
    <3>2. ASSUME NEW u \in Thread, u # t
          PROVE  /\ pc'[u] = "insert" => Recent(doc'[u], since'[u])
                 /\ pc'[u] = "respond" /\ CacheTime # 0
                      => Recent(doc'[u], since'[u] - CacheTime + 1)
      <4>1. pc'[u] = pc[u] /\ doc'[u] = doc[u]
        BY <1>0, <2>0, <3>1, <3>2 DEF TypeOK, ControlOK, CacheOK
      <4> QED BY <3>1, <4>1 DEF FileInv
    <3>3. /\ pc'[t] # "insert"
          /\ pc'[t] = "respond" /\ CacheTime # 0
               => Recent(doc'[t], since'[t] - CacheTime + 1)
      <4>1. CASE pc' = [pc EXCEPT ![t] = "read"]
        BY <2>0, <4>1 DEF TypeOK, ControlOK
      <4>2. CASE /\ pc' = [pc EXCEPT ![t] = "respond"] /\ entry # NoEntry
                 /\ CacheTime = 0 \/ entry.created > since[t] - CacheTime
                 /\ doc' = [doc EXCEPT ![t] = entry.doc]
        <5>1. pc'[t] = "respond" /\ doc'[t] = entry.doc
          BY <2>0, <4>2 DEF TypeOK, ControlOK, CacheOK
        <5>2. Recent(entry.doc, entry.created) BY <4>2 DEF FileInv
        <5>3. CacheTime # 0 => Recent(entry.doc, since[t] - CacheTime + 1)
          <6> SUFFICES ASSUME CacheTime # 0
                       PROVE  Recent(entry.doc, since[t] - CacheTime + 1)
            OBVIOUS
          <6>1. entry.created >= since[t] - CacheTime + 1 BY <1>0, <4>2
          <6>2. CASE entry.doc = file BY <5>2, <6>2 DEF Recent
          <6>3. CASE entry.doc # file
            <7>1. entry.doc \in 1 .. file - 1 /\ replaced[entry.doc] >= entry.created
              BY <1>0, <5>2, <6>3 DEF Recent
            <7>2. replaced[entry.doc] >= since[t] - CacheTime + 1
              BY <1>0, <6>1, <7>1
            <7> QED BY <5>2, <7>2 DEF Recent
          <6> QED BY <6>2, <6>3
        <5> QED BY <3>1, <5>1, <5>3
      <4> QED BY <3>1, <4>1, <4>2
    <3> QED BY <2>0, <2>1, <3>1, <3>2, <3>3 DEF FileInv, NoEntry
  <2>4. CASE ReadFile(t)
    <3>1. /\ since' = since /\ entry' = entry
          /\ \/ /\ pc' = [pc EXCEPT ![t] = "insert"]
                /\ doc' = [doc EXCEPT ![t] = file]
             \/ pc' = [pc EXCEPT ![t] = "idle"] /\ doc' = doc
      BY <2>4 DEF ReadFile, Goto
    <3>2. ASSUME NEW u \in Thread, u # t
          PROVE  /\ pc'[u] = "insert" => Recent(doc'[u], since'[u])
                 /\ pc'[u] = "respond" /\ CacheTime # 0
                      => Recent(doc'[u], since'[u] - CacheTime + 1)
      <4>1. pc'[u] = pc[u] /\ doc'[u] = doc[u]
        BY <1>0, <2>0, <3>1, <3>2 DEF TypeOK, ControlOK, CacheOK
      <4> QED BY <3>1, <4>1 DEF FileInv
    <3>3. pc'[t] # "respond" /\ (pc'[t] = "insert" => doc'[t] = file)
      BY <2>0, <3>1 DEF TypeOK, ControlOK, CacheOK
    <3>4. pc'[t] = "insert" => Recent(doc'[t], since'[t])
      BY <1>0, <3>3 DEF Recent
    <3> QED BY <2>0, <2>1, <3>1, <3>2, <3>3, <3>4 DEF FileInv, NoEntry
  <2>5. CASE CacheInsert(t)
    <3>1. /\ since' = since /\ doc' = doc /\ pc[t] = "insert"
          /\ entry' = [doc |-> doc[t], created |-> since[t]]
          /\ pc' = [pc EXCEPT ![t] = "idle"]
      BY <2>5 DEF CacheInsert, Goto
    <3>2. \A u \in Thread : pc'[u] \in {"insert", "respond"} => pc'[u] = pc[u]
      BY <2>0, <3>1 DEF TypeOK, ControlOK
    <3>3. Recent(entry'.doc, entry'.created) /\ entry'.created <= clock
      BY <3>1 DEF FileInv
    <3> QED BY <2>0, <2>1, <3>1, <3>2, <3>3 DEF FileInv
  <2> QED BY <1>6, <2>2, <2>3, <2>4, <2>5
<1>7. CASE Evict
  <2>1. entry' = NoEntry /\ UNCHANGED <<pc, clock, since, doc, file, replaced>>
    BY <1>7 DEF Evict
  <2>2. ~(entry' # NoEntry') BY <2>1 DEF NoEntry
  <2> QED BY <2>1, <2>2 DEF FileInv, Recent
<1>8. CASE ReplaceFile
  <2>1. /\ file' = file + 1 /\ UNCHANGED <<pc, clock, since, doc, entry>>
        /\ replaced' = [v \in 1 .. file |-> IF v = file THEN clock ELSE replaced[v]]
    BY <1>8 DEF ReplaceFile
  <2>2. ASSUME NEW v, NEW now \in Int, now <= clock, Recent(v, now)
        PROVE  Recent(v, now)'
    <3>1. v \in 1 .. file /\ v \in 1 .. file' BY <1>0, <2>1, <2>2 DEF Recent
    <3>2. replaced'[v] = IF v = file THEN clock ELSE replaced[v] BY <2>1, <3>1
    <3> QED BY <2>2, <3>1, <3>2 DEF Recent
  <2>3. \A t \in Thread : /\ since[t] \in Int /\ since[t] <= clock
                          /\ CacheTime # 0 => /\ since[t] - CacheTime + 1 \in Int
                                              /\ since[t] - CacheTime + 1 <= clock
    BY <1>0 DEF FileInv
  <2>4. entry # NoEntry => Recent(entry.doc, entry.created)' /\ entry.created <= clock
    <3> SUFFICES ASSUME entry # NoEntry
                 PROVE  Recent(entry.doc, entry.created)' /\ entry.created <= clock
      OBVIOUS
    <3>1. Recent(entry.doc, entry.created) /\ entry.created <= clock
          /\ entry.created \in Int
      BY <1>0 DEF FileInv
    <3>2. entry' = entry BY <2>1
    <3>3. PICK now \in Int : now = entry.created BY <3>1
    <3>4. PICK v \in Nat : v = entry.doc BY <1>0
    <3>5. Recent(v, now)' BY <2>2, <3>1, <3>3, <3>4
    <3> QED BY <3>1, <3>2, <3>3, <3>4, <3>5
  <2>5. ASSUME NEW t \in Thread
        PROVE  /\ pc[t] = "insert" => Recent(doc[t], since[t])'
               /\ pc[t] = "respond" /\ CacheTime # 0
                    => Recent(doc[t], since[t] - CacheTime + 1)'
    BY <2>1, <2>2, <2>3 DEF FileInv
  <2> QED BY <2>1, <2>3, <2>4, <2>5 DEF FileInv, NoEntry
<1>9. CASE Tick
  <2>1. clock' = clock + 1 /\ UNCHANGED cacheVars /\ pc' = pc BY <1>9 DEF Tick
  <2> QED BY <1>0, <2>1 DEF FileInv, Recent, cacheVars, NoEntry
<1>10. CASE UNCHANGED vars
  BY <1>1, <1>10 DEF vars, cacheVars
<1> QED BY <1>3, <1>4, <1>5, <1>6, <1>7, <1>8, <1>9, <1>10 DEF Next, Static

(* A document from the cache was the one on the disk less than cacheTime   *)
(* before the request.                                                     *)
THEOREM CachedIsFresh == Spec => []CacheFresh
<1>1. ASSUME TypeOK, FileInv PROVE CacheFresh
  <2> SUFFICES ASSUME CacheTime # 0, NEW t \in Thread, pc[t] = "respond"
               PROVE  doc[t] = file \/ replaced[doc[t]] > since[t] - CacheTime
    BY DEF CacheFresh
  <2>1. Recent(doc[t], since[t] - CacheTime + 1) BY <1>1 DEF FileInv
  <2>2. CASE doc[t] # file
    <3>1. doc[t] \in 1 .. file - 1 /\ replaced[doc[t]] >= since[t] - CacheTime + 1
      BY <1>1, <2>1, <2>2 DEF Recent, TypeOK, CacheOK
    <3>2. replaced[doc[t]] \in Nat /\ since[t] \in Nat /\ CacheTime \in Nat
      BY <1>1, <3>1, MapperAssumption DEF TypeOK, CacheOK
    <3> QED BY <3>1, <3>2
  <2> QED BY <2>2
<1> QED BY <1>1, MapperTypeCorrect, FileInit, FileNext, PTL DEF Spec

=============================================================================
