---------------------------- MODULE RequestMapper ---------------------------
(***************************************************************************)
(* What the handlers of the HTTP server do with a request: RequestMapper   *)
(* looks for its session, sends who is not logged in to the login page,    *)
(* and passes the rest to the controllers.  Handlers share the store of    *)
(* the sessions, whose data are counted references, and the cache of the   *)
(* static files; a timer takes expired sessions out of the store.          *)
(* A session is written for its data, its id and its cookie.               *)
(***************************************************************************)
EXTENDS Integers, FiniteSets

CONSTANTS
  Thread,          \* the threads of the connection handlers
  Timer,           \* the thread of the store's cleanupTimer
  Session,         \* the sessions that may be created
  NoSession,       \* the null session, the empty id and no cookie
  ExpirationTime,
  CacheTime,       \* cacheTimeout
  Workload,        \* the paths asked for, with bounds on the requests and
                   \* on the versions of the file that is served
  MaxTime          \* bound on the clock

ASSUME MapperAssumption ==
  /\ IsFiniteSet(Thread) /\ Timer \notin Thread /\ NoSession \notin Session
  /\ ExpirationTime \in Nat /\ CacheTime \in Nat
  /\ MaxTime \in Nat
  /\ \A w \in Workload :
       /\ w.paths \subseteq {"public", "login", "page", "check"}
       /\ w.requests \in Nat /\ w.files \in Nat \ {0}

VARIABLES
  (* each actor: a handler with its request, or the timer *)
  load,      \* one of Workload, for the whole run
  requests,  \* how many there were
  pc, path,
  id,        \* sessionId
  at,        \* who called getSession: "mapper", "login", "ticket"
  session,   \* the HttpSession on the stack
  param,     \* the HttpSession passed to removeSession
  dropped,   \* the data whose count has been taken down, and what was left
  after,     \* where it goes on when its session is gone
  (* the store and the data *)
  sessions, data, refs, last,
  user,      \* contains("username")
  sweep,     \* the timer's `now', what it has not seen yet, lastAccess
  clock,
  (* the cache and the file *)
  since,     \* service's `now'
  doc,       \* the document in the response
  entry,     \* the entry of the file, or NoEntry
  file, replaced   \* the version on the disk, and when others went

requestVars == <<load, requests, path, id, at>>
handleVars == <<session, param, dropped>>
dataVars == <<sessions, data, refs, last, user>>
cacheVars == <<since, doc, entry, file, replaced>>
vars == <<load, requests, pc, path, id, at, session, param, dropped, after, sessions, data, refs,
          last, user, sweep, clock, since, doc, entry, file, replaced>>

Actor == Thread \cup {Timer}
NoDrop == [of |-> NoSession, left |-> 0]
NoEntry == [doc |-> 0, created |-> 0]

Init ==
  /\ load \in Workload /\ requests = 0
  /\ pc = [a \in Actor |-> "idle"]
  /\ path = [t \in Thread |-> "public"] /\ id = [t \in Thread |-> NoSession]
  /\ at = [t \in Thread |-> "mapper"]
  /\ session = [a \in Actor |-> NoSession] /\ param = [a \in Actor |-> NoSession]
  /\ dropped = [a \in Actor |-> NoDrop] /\ after = [a \in Actor |-> "idle"]
  /\ sessions = {} /\ data = [s \in Session |-> "new"]
  /\ refs = [s \in Session |-> 0] /\ last = [s \in Session |-> 0]
  /\ user = [s \in Session |-> FALSE]
  /\ sweep = [now |-> 0, todo |-> {}, last |-> 0] /\ clock = 0
  /\ since = [t \in Thread |-> 0] /\ doc = [t \in Thread |-> 0]
  /\ entry = NoEntry /\ file = 1 /\ replaced = [v \in {} |-> 0]

(* The timer holds the mutex of the store from its first line to its last; *)
(* the sections of the handlers are one step each.                         *)
MutexFree == pc[Timer] = "idle"

Goto(a, label) == pc' = [pc EXCEPT ![a] = label]

(* Mutant of Copied: the copy is not counted.                              *)
CopiedUncounted(s) == refs

(* The copy constructor of HttpSession.                                    *)
Copied(s) == IF s = NoSession THEN refs ELSE [refs EXCEPT ![s] = @ + 1]

-----------------------------------------------------------------------------
(* The mapper.                                                             *)

(* service with getSessionId: a cookie that is not in the store is empty.  *)
Service(t) ==
  /\ pc[t] = "idle" /\ MutexFree /\ requests < load.requests
  /\ requests' = requests + 1
  /\ \E cookie \in {NoSession} \cup {s \in Session : data[s] # "new"},
        p \in load.paths :
       LET found == IF cookie \in sessions THEN cookie ELSE NoSession IN
       /\ path' = [path EXCEPT ![t] = p]
       /\ id' = [id EXCEPT ![t] = found]
       /\ at' = [at EXCEPT ![t] = IF p = "login" THEN "login" ELSE "mapper"]
       /\ Goto(t, CASE p = "public"       -> "static"
                    [] p # "public" /\ found = NoSession -> "create"
                    [] OTHER              -> "open")
  /\ after' = [after EXCEPT ![t] = "idle"]
  /\ UNCHANGED <<load, handleVars, dataVars, sweep, clock, cacheVars>>

(* getSession(request, response, true), which finds what service found:    *)
(* nothing.  One reference is in the store, one on the stack.              *)
CreateSession(t) ==
  /\ pc[t] = "create" /\ MutexFree
  /\ \E s \in {x \in Session : data[x] = "new"} :
       /\ data' = [data EXCEPT ![s] = "alive"]
       /\ refs' = [refs EXCEPT ![s] = 2]
       /\ last' = [last EXCEPT ![s] = clock]
       /\ sessions' = sessions \cup {s}
       /\ session' = [session EXCEPT ![t] = s]
  /\ Goto(t, "drop")
  /\ UNCHANGED <<requestVars, param, dropped, after, user, sweep, clock, cacheVars>>

(* getSession(id) up to the unlock: it may have gone since service looked. *)
OpenSession(t) ==
  /\ pc[t] = "open" /\ MutexFree
  /\ LET s == IF id[t] \in sessions THEN id[t] ELSE NoSession IN
     /\ session' = [session EXCEPT ![t] = s]
     /\ refs' = Copied(s)
  /\ Goto(t, "touch")
  /\ UNCHANGED <<requestVars, param, dropped, after, sessions, data, last, user,
                 sweep, clock, cacheVars>>

(* setLastAccess.  This session is the request's last one, unless the      *)
(* mapper goes on.                                                         *)
Touch(t) ==
  /\ pc[t] = "touch"
  /\ last' = IF session[t] = NoSession THEN last
             ELSE [last EXCEPT ![session[t]] = clock]
  /\ after' = [after EXCEPT ![t] = "idle"]
  /\ Goto(t, "look")
  /\ UNCHANGED <<requestVars, handleVars, sessions, data, refs, user, sweep, clock,
                 cacheVars>>

HasUser(t) == session[t] # NoSession /\ user[session[t]]

(* Mutant of Gate: whoever has a session is let in.                        *)
GateWithoutName(t) ==
  /\ pc[t] = "look" /\ at[t] = "mapper"
  /\ at' = [at EXCEPT ![t] = IF path[t] = "check" THEN "ticket" ELSE @]
  /\ after' = [after EXCEPT ![t] = IF path[t] = "check" THEN "open" ELSE "static"]
  /\ Goto(t, "drop")
  /\ UNCHANGED <<load, requests, path, id, handleVars, dataVars, sweep, clock, cacheVars>>

(* The mapper's contains: the login page, the ticket or the document.      *)
Gate(t) ==
  /\ pc[t] = "look" /\ at[t] = "mapper"
  /\ at' = [at EXCEPT ![t] =
              IF HasUser(t) /\ path[t] = "check" THEN "ticket" ELSE @]
  /\ after' = [after EXCEPT ![t] =
                 CASE ~HasUser(t) -> "idle"
                   [] HasUser(t) /\ path[t] = "check" -> "open"
                   [] OTHER -> "static"]
  /\ Goto(t, "drop")
  /\ UNCHANGED <<load, requests, path, id, handleVars, dataVars, sweep, clock, cacheVars>>

(* The controller of the tickets asks the database; its session lives      *)
(* until the answer is written, and is asked nothing.                      *)
CheckTicket(t) ==
  /\ pc[t] = "look" /\ at[t] = "ticket"
  /\ Goto(t, "drop")
  /\ UNCHANGED <<requestVars, handleVars, after, dataVars, sweep, clock, cacheVars>>

(* The login controller's contains.                                        *)
LoggedIn(t) ==
  /\ pc[t] = "look" /\ at[t] = "login"
  /\ Goto(t, IF HasUser(t) THEN "drop" ELSE "pass")
  /\ UNCHANGED <<requestVars, handleVars, after, dataVars, sweep, clock, cacheVars>>

(* check_pass asks the database.                                           *)
RightPassword(t) ==
  /\ pc[t] = "pass"
  /\ user' = IF session[t] = NoSession THEN user
             ELSE [user EXCEPT ![session[t]] = TRUE]
  /\ Goto(t, "drop")
  /\ UNCHANGED <<requestVars, handleVars, after, sessions, data, refs, last, sweep,
                 clock, cacheVars>>

WrongPassword(t) ==
  /\ pc[t] = "pass"
  /\ param' = [param EXCEPT ![t] = session[t]]
  /\ refs' = Copied(session[t])
  /\ Goto(t, "remove")
  /\ UNCHANGED <<requestVars, session, dropped, after, sessions, data, last, user,
                 sweep, clock, cacheVars>>

(* The store's reference to s goes; the one who takes it out has another.  *)
TakeOut(s) ==
  /\ sessions' = sessions \ {s}
  /\ refs' = IF s \in sessions THEN [refs EXCEPT ![s] = @ - 1] ELSE refs

RemoveSession(t) ==
  /\ pc[t] = "remove" /\ MutexFree
  /\ TakeOut(param[t])
  /\ Goto(t, "return")
  /\ UNCHANGED <<requestVars, handleVars, after, data, last, user, sweep, clock,
                 cacheVars>>

(* The argument of removeSession goes; the session on the stack is there.  *)
DropParam(t) ==
  /\ pc[t] = "return"
  /\ param' = [param EXCEPT ![t] = NoSession]
  /\ refs' = IF param[t] = NoSession THEN refs
             ELSE [refs EXCEPT ![param[t]] = @ - 1]
  /\ Goto(t, "drop")
  /\ UNCHANGED <<requestVars, session, dropped, after, sessions, data, last, user,
                 sweep, clock, cacheVars>>

-----------------------------------------------------------------------------
(* The destructor of HttpSession: the count is taken down under the lock   *)
(* of the data, the data are deleted after it.                             *)

Drop(a) ==
  /\ pc[a] = "drop"
  /\ LET s == session[a] IN
     IF s = NoSession
     THEN Goto(a, after[a]) /\ UNCHANGED <<refs, dropped>>
     ELSE /\ refs' = [refs EXCEPT ![s] = @ - 1]
          /\ dropped' = [dropped EXCEPT ![a] = [of |-> s, left |-> refs[s] - 1]]
          /\ Goto(a, "delete")
  /\ session' = [session EXCEPT ![a] = NoSession]
  /\ UNCHANGED <<requestVars, param, after, sessions, data, last, user, sweep, clock,
                 cacheVars>>

(* Mutant of Delete: the count is read again without the lock.             *)
DeleteRereads(a) ==
  /\ pc[a] = "delete"
  /\ LET s == dropped[a].of IN
     IF refs[s] = 0
     THEN data' = [data EXCEPT ![s] = "deleted"] /\ user' = [user EXCEPT ![s] = FALSE]
     ELSE UNCHANGED <<data, user>>
  /\ dropped' = [dropped EXCEPT ![a] = NoDrop]
  /\ Goto(a, after[a])
  /\ UNCHANGED <<requestVars, session, param, after, sessions, refs, last, sweep,
                 clock, cacheVars>>

(* The data go with the names in them.                                     *)
Delete(a) ==
  /\ pc[a] = "delete"
  /\ LET s == dropped[a].of IN
     IF dropped[a].left = 0
     THEN data' = [data EXCEPT ![s] = "deleted"] /\ user' = [user EXCEPT ![s] = FALSE]
     ELSE UNCHANGED <<data, user>>
  /\ dropped' = [dropped EXCEPT ![a] = NoDrop]
  /\ Goto(a, after[a])
  /\ UNCHANGED <<requestVars, session, param, after, sessions, refs, last, sweep,
                 clock, cacheVars>>

-----------------------------------------------------------------------------
(* sessionTimerEvent; the ids are random, so is their order.               *)

SweepStart ==
  /\ pc[Timer] = "idle"
  /\ sweep' = [now |-> clock, todo |-> sessions, last |-> 0]
  /\ after' = [after EXCEPT ![Timer] = "sweep"]
  /\ Goto(Timer, "sweep")
  /\ UNCHANGED <<requestVars, handleVars, dataVars, clock, cacheVars>>

SweepRead ==
  /\ pc[Timer] = "sweep"
  /\ \E s \in sweep.todo :
       /\ session' = [session EXCEPT ![Timer] = s]
       /\ refs' = Copied(s)
       /\ sweep' = [sweep EXCEPT !.todo = @ \ {s}, !.last = last[s]]
  /\ Goto(Timer, "erase")
  /\ UNCHANGED <<requestVars, param, dropped, after, sessions, data, last, user, clock,
                 cacheVars>>

(* Mutant of Expired: expires one tick early.                              *)
ExpiredEarly == sweep.now - sweep.last >= ExpirationTime

Expired == sweep.now - sweep.last > ExpirationTime

SweepErase ==
  /\ pc[Timer] = "erase"
  /\ IF Expired THEN TakeOut(session[Timer]) ELSE UNCHANGED <<sessions, refs>>
  /\ Goto(Timer, "drop")
  /\ UNCHANGED <<requestVars, handleVars, after, data, last, user, sweep, clock,
                 cacheVars>>

SweepEnd ==
  /\ pc[Timer] = "sweep" /\ sweep.todo = {}
  /\ Goto(Timer, "idle")
  /\ UNCHANGED <<requestVars, handleVars, after, dataVars, sweep, clock, cacheVars>>

-----------------------------------------------------------------------------
(* StaticFileController::service, for one file.                            *)

StaticNow(t) ==
  /\ pc[t] = "static"
  /\ since' = [since EXCEPT ![t] = clock]
  /\ Goto(t, "cache")
  /\ UNCHANGED <<requestVars, handleVars, after, dataVars, sweep, clock, doc, entry,
                 file, replaced>>

(* The document is copied under the mutex of the cache.                    *)
CacheLookup(t) ==
  /\ pc[t] = "cache"
  /\ IF entry # NoEntry /\ (CacheTime = 0 \/ entry.created > since[t] - CacheTime)
     THEN doc' = [doc EXCEPT ![t] = entry.doc] /\ Goto(t, "respond")
     ELSE UNCHANGED doc /\ Goto(t, "read")
  /\ UNCHANGED <<requestVars, handleVars, after, dataVars, sweep, clock, since, entry,
                 file, replaced>>

Respond(t) ==
  /\ pc[t] = "respond"
  /\ Goto(t, "idle")
  /\ UNCHANGED <<requestVars, handleVars, after, dataVars, sweep, clock, cacheVars>>

(* What is there now is sent; it is kept unless it is larger than          *)
(* maxCachedFileSize.  403 and 404 send no document.                       *)
ReadFile(t) ==
  /\ pc[t] = "read"
  /\ \/ doc' = [doc EXCEPT ![t] = file] /\ Goto(t, "insert")
     \/ UNCHANGED doc /\ Goto(t, "idle")
  /\ UNCHANGED <<requestVars, handleVars, after, dataVars, sweep, clock, since, entry,
                 file, replaced>>

(* Mutant of CacheInsert: the entry dates from its insertion.              *)
CacheInsertNow(t) ==
  /\ pc[t] = "insert"
  /\ entry' = [doc |-> doc[t], created |-> clock]
  /\ Goto(t, "idle")
  /\ UNCHANGED <<requestVars, handleVars, after, dataVars, sweep, clock, since, doc,
                 file, replaced>>

CacheInsert(t) ==
  /\ pc[t] = "insert"
  /\ entry' = [doc |-> doc[t], created |-> since[t]]
  /\ Goto(t, "idle")
  /\ UNCHANGED <<requestVars, handleVars, after, dataVars, sweep, clock, since, doc,
                 file, replaced>>

(* The entry of another file needs the place.                              *)
Evict ==
  /\ entry # NoEntry
  /\ entry' = NoEntry
  /\ UNCHANGED <<pc, requestVars, handleVars, after, dataVars, sweep, clock, since, doc,
                 file, replaced>>

ReplaceFile ==
  /\ file < load.files
  /\ file' = file + 1
  /\ replaced' = [v \in 1 .. file |-> IF v = file THEN clock ELSE replaced[v]]
  /\ UNCHANGED <<pc, requestVars, handleVars, after, dataVars, sweep, clock, since, doc,
                 entry>>

Tick ==
  /\ clock < MaxTime
  /\ clock' = clock + 1
  /\ UNCHANGED <<pc, requestVars, handleVars, after, dataVars, sweep, cacheVars>>

-----------------------------------------------------------------------------

Find(t) ==
  \/ Service(t) \/ CreateSession(t) \/ OpenSession(t) \/ Touch(t) \/ Gate(t)
  \/ CheckTicket(t)

Login(t) ==
  \/ LoggedIn(t) \/ RightPassword(t) \/ WrongPassword(t)
  \/ RemoveSession(t) \/ DropParam(t)

Static(t) ==
  StaticNow(t) \/ CacheLookup(t) \/ Respond(t) \/ ReadFile(t) \/ CacheInsert(t)

Sweep == SweepStart \/ SweepRead \/ SweepErase \/ SweepEnd

Next ==
  \/ \E t \in Thread : Find(t) \/ Login(t) \/ Static(t)
  \/ \E a \in Actor : Drop(a) \/ Delete(a)
  \/ Sweep \/ Evict \/ ReplaceFile \/ Tick

Spec == Init /\ [][Next]_vars

-----------------------------------------------------------------------------

Holders(s) == {a \in Actor : session[a] = s}
Params(s) == {a \in Actor : param[a] = s}

(* refCount is the number of the references there are: the store's, the    *)
(* handlers', the timer's and the arguments', whatever they do at once.    *)
RefsExact ==
  \A s \in Session :
    refs[s] = (IF s \in sessions THEN 1 ELSE 0)
              + Cardinality(Holders(s)) + Cardinality(Params(s))

(* Data that anyone can still reach are there; the last one to let go, and *)
(* no one else, deletes them, once; and nothing else outlives its          *)
(* references.                                                             *)
Deleting(s) == {a \in Actor : dropped[a].of = s /\ dropped[a].left = 0}

DeletedOnce ==
  \A s \in Session :
    /\ s \in sessions \/ Holders(s) # {} \/ Params(s) # {}
         => data[s] = "alive" /\ Deleting(s) = {}
    /\ \A a, b \in Actor : {a, b} \subseteq Deleting(s) => a = b
    /\ \A a \in Actor : dropped[a].of = s /\ pc[a] = "delete" /\ dropped[a].left = 0
         => data[s] = "alive"
    /\ data[s] = "alive" => refs[s] > 0 \/ Deleting(s) # {}

(* httpsessionstore.cpp: an access that was finished when the timer        *)
(* started is never lost.  What the timer takes out had no setLastAccess   *)
(* for ExpirationTime then, or has had one only while it ran: lastAccess   *)
(* is written without the mutex of the store, after the lookup, so that a  *)
(* session that a handler has found and not yet touched may still go.      *)
SweptOnlyIdle ==
  [][pc[Timer] = "erase" =>
       \A s \in sessions \ sessions' :
         \/ sweep.now - last[s] > ExpirationTime
         \/ last[s] >= sweep.now]_vars

(* requestmapper.cpp: no document but the public ones, and no ticket, is   *)
(* given to a request whose session is not logged in, although it may be   *)
(* removed, or expire, at any point of the request: the name is in its     *)
(* data as long as there are any.                                          *)
OnlyLoggedInServed ==
  \A t \in Thread :
    (\/ at[t] = "ticket" /\ pc[t] # "idle"
     \/ path[t] # "public" /\ pc[t] \in {"static", "cache", "read", "respond", "insert"})
    => id[t] # NoSession /\ (user[id[t]] \/ data[id[t]] = "deleted")

(* staticfilecontroller.cpp: a document from the cache was the one on the  *)
(* disk less than cacheTimeout before the request, also if its reader was  *)
(* slow, the file was replaced meanwhile and a newer entry was there.      *)
CacheFresh ==
  CacheTime # 0 =>
    \A t \in Thread : pc[t] = "respond" =>
      doc[t] = file \/ replaced[doc[t]] > since[t] - CacheTime

=============================================================================
