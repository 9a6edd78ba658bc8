-------------------------- MODULE StandAloneProofs --------------------------
(***************************************************************************)
(* Proofs about the switch and the stand-alone checker, for any            *)
(* connections, barcodes and certificates and any number of registrations, *)
(* scans and switches.                                                     *)
(***************************************************************************)
EXTENDS StandAlone, SequenceTheorems, TLAPS

Decision == {"isCovidQR", "noCert"}

Has(s, e) == \E i \in 1 .. Len(s) : s[i] = e

(* The queue of a machine that has not decided of which type a barcode is, *)
(* and of one that has: the decision is the last event of the drain.       *)
Undecided(s) == \A i \in 1 .. Len(s) : s[i] \notin Decision
Decided(s) ==
  Len(s) > 0 /\ \A i \in 1 .. Len(s) : s[i] \in Decision <=> i = Len(s)

(* A connection of the main reader that no disconnection follows.          *)
Connects(s) ==
  \E i \in 1 .. Len(s) :
    s[i] = "mainConnected" /\ \A j \in 1 .. Len(s) : j > i => s[j] # "mainDisconnected"

(* Whether region Main is in onMainConnected when the queue is empty.      *)
EndsOnline == Connects(evq) \/ (online /\ ~Has(evq, "mainDisconnected"))

-----------------------------------------------------------------------------
(* The invariant. *)

KindInv == kind = "wicket" => st = "onReady"

(* onCheckType is left by the drain that entered it, with the decision     *)
(* that its script has submitted, which is the last event of the queue.    *)
DecisionInv == IF st = "onCheckType" THEN busy /\ Decided(evq) ELSE Undecided(evq)

(* Where no certificate can be asked for, the script has submitted the     *)
(* failure, which is the next event of the drain that entered the state.   *)
FailedInv ==
  st = "onCheckCovid" /\ Unknown(locked) => busy /\ evq = <<"certFail">>

(* A state that waits has its timer, or the event of its timer is queued.  *)
TimedInv ==
  st \notin {"onReady", "onCheckType"} =>
    \E i \in Arms(st) : i \in timers \/ Has(evq, TimeoutOf[i])

(* The gate's pointers, and what the machine will know when its queue is   *)
(* empty.                                                                  *)
ToldInv == \A r \in Mac \cup Sides : reader[r] # NoConn => reader[r] \in told
OnlineInv ==
  /\ reader["main"] # NoConn => EndsOnline
  /\ kind = "wicket" /\ EndsOnline => reader["main"] # NoConn

StandInv == /\ MachineOK /\ GateOK /\ KindInv /\ DecisionInv /\ FailedInv /\ TimedInv
            /\ ToldInv /\ OnlineInv

-----------------------------------------------------------------------------
(* Queues. *)

LEMMA SubmittedIsEvent == Decision \subseteq Event /\ "certFail" \in Event
BY DEF Decision, Event

LEMMA TailElements ==
  ASSUME NEW s \in Seq(Event), s # <<>>
  PROVE  /\ Tail(s) \in Seq(Event) /\ Len(Tail(s)) = Len(s) - 1 /\ Len(s) > 0
         /\ Head(s) = s[1] /\ Head(s) \in Event
         /\ \A i \in 1 .. Len(s) - 1 : Tail(s)[i] = s[i + 1]
BY HeadTailProperties

LEMMA AppendElements ==
  ASSUME NEW s \in Seq(Event), NEW x \in Event
  PROVE  /\ Append(s, x) \in Seq(Event) /\ Len(Append(s, x)) = Len(s) + 1
         /\ \A i \in 1 .. Len(s) : Append(s, x)[i] = s[i]
         /\ Append(s, x)[Len(s) + 1] = x
         /\ Append(s, x) # <<>>
BY AppendProperties

LEMMA EmptyQueue ==
  /\ Undecided(<<>>) /\ ~Decided(<<>>)
  /\ \A e : ~Has(<<>>, e) /\ <<e>> # <<>> /\ <<>> \o <<e>> = <<e>> /\ Head(<<e>>) = e
  /\ ~Connects(<<>>)
<1>1. Undecided(<<>>) BY DEF Undecided
<1>2. ~Decided(<<>>) BY DEF Decided
<1>3. \A e : ~Has(<<>>, e) BY DEF Has
<1>4. \A e : <<e>> # <<>> /\ <<>> \o <<e>> = <<e>> /\ Head(<<e>>) = e OBVIOUS
<1>5. ~\E i \in 1 .. Len(<<>>) : TRUE OBVIOUS
<1>6. ~Connects(<<>>) BY <1>5 DEF Connects
<1> QED BY <1>1, <1>2, <1>3, <1>4, <1>6

(* The scripts submit one event or none.                                   *)
LEMMA ConcatOne ==
  ASSUME NEW s \in Seq(Event), NEW x \in Event
  PROVE  s \o <<x>> = Append(s, x) /\ s \o <<>> = s
<1>1. s \o <<x>> = Append(s, x) BY AppendIsConcat
<1>2. s \o <<>> = s BY ConcatEmptySeq
<1> QED BY <1>1, <1>2

LEMMA AppendHas ==
  ASSUME NEW s \in Seq(Event), NEW x \in Event, NEW e
  PROVE  Has(Append(s, x), e) <=> Has(s, e) \/ x = e
<1> DEFINE t == Append(s, x)
<1>1. /\ Len(t) = Len(s) + 1 /\ Len(s) \in Nat /\ t[Len(s) + 1] = x
      /\ \A i \in 1 .. Len(s) : t[i] = s[i]
  BY AppendElements
<1> HIDE DEF t
<1>2. Has(t, e) <=> Has(s, e) \/ x = e BY <1>1 DEF Has
<1> QED BY <1>2 DEF t

LEMMA TailHas ==
  ASSUME NEW s \in Seq(Event), s # <<>>, NEW e
  PROVE  Has(s, e) <=> Head(s) = e \/ Has(Tail(s), e)
<1> DEFINE t == Tail(s)  h == Head(s)
<1>1. /\ Len(t) = Len(s) - 1 /\ Len(s) > 0 /\ Len(s) \in Nat /\ h = s[1]
      /\ \A i \in 1 .. Len(s) - 1 : t[i] = s[i + 1]
  BY TailElements
<1> HIDE DEF t, h
<1>2. ASSUME Has(s, e) PROVE h = e \/ Has(t, e)
  <2>1. PICK i \in 1 .. Len(s) : s[i] = e BY <1>2 DEF Has
  <2>2. CASE i = 1 BY <1>1, <2>1, <2>2
  <2>3. CASE i # 1
    <3>1. i - 1 \in 1 .. Len(t) /\ t[i - 1] = s[i - 1 + 1] BY <1>1, <2>3
    <3>2. i - 1 + 1 = i OBVIOUS
    <3> QED BY <2>1, <3>1, <3>2 DEF Has
  <2> QED BY <2>2, <2>3
<1>3. h = e \/ Has(t, e) => Has(s, e) BY <1>1 DEF Has
<1> QED BY <1>2, <1>3 DEF t, h

LEMMA AppendDecided ==
  ASSUME NEW s \in Seq(Event), NEW x \in Event, Undecided(s)
  PROVE  /\ x \in Decision => Decided(Append(s, x))
         /\ x \notin Decision => Undecided(Append(s, x))
<1> DEFINE t == Append(s, x)
<1>1. /\ Len(t) = Len(s) + 1 /\ Len(s) \in Nat /\ t[Len(s) + 1] = x
      /\ \A i \in 1 .. Len(s) : t[i] = s[i]
  BY AppendElements
<1> HIDE DEF t
<1>2. /\ x \in Decision => Decided(t)
      /\ x \notin Decision => Undecided(t)
  BY <1>1 DEF Decided, Undecided
<1> QED BY <1>2 DEF t

LEMMA TailDecided ==
  ASSUME NEW s \in Seq(Event), s # <<>>
  PROVE  /\ Undecided(s) => Undecided(Tail(s))
         /\ Decided(s) /\ Head(s) \notin Decision => Decided(Tail(s))
         /\ Decided(s) /\ Head(s) \in Decision => Tail(s) = <<>>
<1> DEFINE t == Tail(s)  h == Head(s)
<1>1. /\ Len(t) = Len(s) - 1 /\ Len(s) > 0 /\ Len(s) \in Nat /\ h = s[1]
      /\ \A i \in 1 .. Len(s) - 1 : t[i] = s[i + 1]
      /\ t \in Seq(Event)
  BY TailElements
<1> HIDE DEF t, h
<1>2. Undecided(s) => Undecided(t) BY <1>1 DEF Undecided
<1>3. Decided(s) /\ h \notin Decision => Decided(t) BY <1>1 DEF Decided
<1>4. Decided(s) /\ h \in Decision => Len(t) = 0 BY <1>1 DEF Decided
<1>5. Len(t) = 0 => t = <<>> BY <1>1, EmptySeq
<1> QED BY <1>2, <1>3, <1>4, <1>5 DEF t, h

LEMMA AppendConnects ==
  ASSUME NEW s \in Seq(Event), NEW x \in Event
  PROVE  /\ x = "mainConnected" => Connects(Append(s, x))
         /\ x = "mainDisconnected" => ~Connects(Append(s, x))
         /\ x \notin {"mainConnected", "mainDisconnected"} =>
              (Connects(Append(s, x)) <=> Connects(s))
<1> DEFINE t == Append(s, x)
<1>1. /\ Len(t) = Len(s) + 1 /\ Len(s) \in Nat /\ t[Len(s) + 1] = x
      /\ \A i \in 1 .. Len(s) : t[i] = s[i]
  BY AppendElements
<1> HIDE DEF t
<1>2. x = "mainConnected" => Connects(t) BY <1>1 DEF Connects
<1>3. x = "mainDisconnected" => ~Connects(t) BY <1>1 DEF Connects
<1>4. x \notin {"mainConnected", "mainDisconnected"} => (Connects(t) <=> Connects(s))
  BY <1>1 DEF Connects
<1> QED BY <1>2, <1>3, <1>4 DEF t

LEMMA TailConnects ==
  ASSUME NEW s \in Seq(Event), s # <<>>
  PROVE  Connects(s) <=> \/ Head(s) = "mainConnected" /\ ~Has(Tail(s), "mainDisconnected")
                         \/ Connects(Tail(s))
<1> DEFINE t == Tail(s)  h == Head(s)
<1>1. /\ Len(t) = Len(s) - 1 /\ Len(s) > 0 /\ Len(s) \in Nat /\ h = s[1]
      /\ \A i \in 1 .. Len(s) - 1 : t[i] = s[i + 1]
  BY TailElements
<1> HIDE DEF t, h
<1> DEFINE Final(q, i) == q[i] = "mainConnected"
                          /\ \A j \in 1 .. Len(q) : j > i => q[j] # "mainDisconnected"
<1>2. ASSUME NEW i \in 1 .. Len(t) PROVE Final(t, i) <=> Final(s, i + 1)
  <2>1. t[i] = s[i + 1] BY <1>1
  <2>2. ASSUME NEW j \in 1 .. Len(s), j > i + 1
        PROVE  j - 1 \in 1 .. Len(t) /\ t[j - 1] = s[j] /\ j - 1 > i
    <3>1. j - 1 \in 1 .. Len(t) /\ j - 1 > i BY <1>1, <2>2
    <3>2. t[j - 1] = s[j - 1 + 1] BY <1>1, <3>1
    <3>3. j - 1 + 1 = j OBVIOUS
    <3> QED BY <3>1, <3>2, <3>3
  <2>3. ASSUME NEW j \in 1 .. Len(t), j > i
        PROVE  j + 1 \in 1 .. Len(s) /\ s[j + 1] = t[j] /\ j + 1 > i + 1
    BY <1>1, <2>3
  <2> QED BY <2>1, <2>2, <2>3
<1>3. Final(s, 1) <=> h = "mainConnected" /\ ~Has(t, "mainDisconnected")
  <2>1. ASSUME NEW j \in 1 .. Len(s), j > 1
        PROVE  j - 1 \in 1 .. Len(t) /\ t[j - 1] = s[j]
    <3>1. j - 1 \in 1 .. Len(t) /\ t[j - 1] = s[j - 1 + 1] BY <1>1, <2>1
    <3>2. j - 1 + 1 = j OBVIOUS
    <3> QED BY <3>1, <3>2
  <2>2. ASSUME NEW j \in 1 .. Len(t)
        PROVE  j + 1 \in 1 .. Len(s) /\ s[j + 1] = t[j] /\ j + 1 > 1
    BY <1>1
  <2> QED BY <1>1, <2>1, <2>2 DEF Has
<1>4. \A i \in 1 .. Len(s) : i = 1 \/ (i - 1 \in 1 .. Len(t) /\ i - 1 + 1 = i) BY <1>1
<1>5. (\A i \in 1 .. Len(t) : i + 1 \in 1 .. Len(s)) /\ 1 \in 1 .. Len(s) BY <1>1
<1>6. (\E i \in 1 .. Len(s) : Final(s, i)) <=> Final(s, 1) \/ \E i \in 1 .. Len(t) : Final(t, i)
  <2>1. ASSUME NEW i \in 1 .. Len(s), Final(s, i), i # 1
        PROVE  \E k \in 1 .. Len(t) : Final(t, k)
    <3>1. i - 1 \in 1 .. Len(t) /\ i - 1 + 1 = i BY <1>4, <2>1
    <3>2. Final(t, i - 1) BY ONLY <1>2, <2>1, <3>1
    <3> QED BY <3>1, <3>2
  <2> HIDE DEF Final
  <2> QED BY <1>2, <1>5, <2>1
<1> QED BY <1>3, <1>6 DEF Connects, t, h

(* Signals that were connected n times.                                    *)
LEMMA TimesOne ==
  ASSUME NEW S, NEW n \in Nat, NEW e \in S
  PROVE  /\ Times(n, <<e>>) \in Seq(S) /\ Len(Times(n, <<e>>)) = n
         /\ \A i \in 1 .. n : Times(n, <<e>>)[i] = e
<1>1. n * Len(<<e>>) = n OBVIOUS
<1>2. \A k \in 1 .. n : ((k - 1) % Len(<<e>>)) + 1 = 1 OBVIOUS
<1>3. Times(n, <<e>>) = [k \in 1 .. n |-> e] BY <1>1, <1>2 DEF Times
<1> QED BY <1>3

LEMMA TimesTwo ==
  ASSUME NEW S, NEW n \in Nat, NEW d \in S, NEW e \in S
  PROVE  Times(n, <<d, e>>) \in Seq(S)
<1>1. n * Len(<<d, e>>) \in Nat OBVIOUS
<1>2. \A k \in 1 .. n * Len(<<d, e>>) : ((k - 1) % Len(<<d, e>>)) + 1 \in {1, 2}
  OBVIOUS
<1>3. \A k \in 1 .. n * Len(<<d, e>>) : <<d, e>>[((k - 1) % Len(<<d, e>>)) + 1] \in S
  BY <1>2
<1> QED BY <1>1, <1>3 DEF Times

-----------------------------------------------------------------------------
(* The initial states. *)

LEMMA StandInit == Init => StandInv
<1> SUFFICES ASSUME Init PROVE StandInv OBVIOUS
<1>1. evq = <<>> /\ st = "onReady" BY DEF Init
<1>2. MachineOK
  <2>1. <<>> \in Seq(Event) OBVIOUS
  <2>2. {} \subseteq DOMAIN TimeoutOf OBVIOUS
  <2> QED BY <2>1, <2>2 DEF Init, MachineOK, Keys, Leaf, NoRequest
<1>3. GateOK
  <2>1. posted \in [Conn -> Seq(CallType)] BY DEF Init
  <2>2. left \in [register : Nat, scan : Nat, switch : Nat, seen : SUBSET Barcode]
    BY StandAloneAssumption DEF Init
  <2>3. reader \in [Mac \cup Sides -> Conn \cup {NoConn}] BY DEF Init
  <2>4. conn \in [Conn -> [mac : Mac, state : {"new", "open", "gone"}]] BY DEF Init, Mac
  <2>5. slots \in [Conn -> Nat] /\ told \subseteq Conn /\ crashed \in BOOLEAN BY DEF Init
  <2> QED BY <2>1, <2>2, <2>3, <2>4, <2>5 DEF GateOK
<1>4. \A r \in Mac \cup Sides : reader[r] = NoConn BY DEF Init
<1>5. Undecided(evq) BY <1>1 DEF Undecided
<1>6. EndsOnline <=> kind = "checker"
  <2>1. online = (kind = "checker") BY DEF Init
  <2>2. EndsOnline <=> online BY <1>1, EmptyQueue DEF EndsOnline
  <2> QED BY <2>1, <2>2
<1>7. KindInv /\ DecisionInv /\ FailedInv /\ TimedInv
  BY <1>1, <1>5 DEF KindInv, DecisionInv, FailedInv, TimedInv
<1>8. ToldInv BY <1>4 DEF ToldInv
<1>9. OnlineInv
  <2>1. reader["main"] = NoConn BY <1>4 DEF Mac
  <2> QED BY <1>6, <2>1 DEF OnlineInv
<1> QED BY <1>2, <1>3, <1>7, <1>8, <1>9 DEF StandInv

-----------------------------------------------------------------------------
(* A slot of the main thread submits an event that is not a decision.      *)

LEMMA Submitted ==
  ASSUME StandInv, ~busy, NEW e \in Event \ Decision, evq' = Append(evq, e),
         kind' = kind, st' = st
  PROVE  /\ KindInv' /\ DecisionInv' /\ st # "onCheckType"
         /\ evq' \in Seq(Event) /\ Has(evq', e)
         /\ \A x : Has(evq', x) <=> Has(evq, x) \/ e = x
<1>1. evq \in Seq(Event) BY DEF StandInv, MachineOK
<1>2. st # "onCheckType" /\ Undecided(evq) BY DEF StandInv, DecisionInv
<1>3. Undecided(evq') BY <1>1, <1>2, AppendDecided
<1>4. evq' \in Seq(Event) BY <1>1, AppendElements
<1>5. \A x : Has(evq', x) <=> Has(evq, x) \/ e = x BY <1>1, AppendHas
<1>6. KindInv' BY DEF StandInv, KindInv
<1>7. DecisionInv' BY <1>2, <1>3 DEF DecisionInv
<1> QED BY <1>2, <1>4, <1>5, <1>6, <1>7

(* A slot runs when nothing is being drained.                              *)
LEMMA FailedKept ==
  ASSUME StandInv, ~busy, st' = st, locked' = locked
  PROVE  FailedInv'
BY DEF StandInv, FailedInv, Unknown

(* An event that is not about the main reader.                             *)
LEMMA OnlineKept ==
  ASSUME StandInv, NEW e \in Event \ {"mainConnected", "mainDisconnected"},
         evq' = Append(evq, e), kind' = kind, online' = online,
         reader'["main"] = reader["main"]
  PROVE  OnlineInv'
<1>1. evq \in Seq(Event) /\ online \in BOOLEAN /\ OnlineInv BY DEF StandInv, MachineOK
<1>2. /\ Connects(evq') <=> Connects(evq)
      /\ Has(evq', "mainDisconnected") <=> Has(evq, "mainDisconnected")
  BY <1>1, AppendConnects, AppendHas
<1>3. EndsOnline' <=> EndsOnline BY <1>2 DEF EndsOnline
<1> QED BY <1>1, <1>3 DEF OnlineInv

-----------------------------------------------------------------------------
(* The steps of the machine. *)

LEMMA TimerFiresKeeps == StandInv /\ TimerFires => StandInv'
<1> SUFFICES ASSUME StandInv, TimerFires PROVE StandInv' OBVIOUS
<1>1. PICK i \in timers : timers' = timers \ {i} /\ evq' = Append(evq, TimeoutOf[i])
  BY DEF TimerFires
<1>2. ~busy /\ i \in DOMAIN TimeoutOf
  BY DEF StandInv, MachineOK, TimerFires, Room
<1>3. TimeoutOf[i] \in Event \ (Decision \cup {"mainConnected", "mainDisconnected"})
  BY <1>2 DEF TimeoutOf, Event, Decision
<1>4. /\ KindInv' /\ DecisionInv' /\ st # "onCheckType"
      /\ evq' \in Seq(Event) /\ Has(evq', TimeoutOf[i])
      /\ \A x : Has(evq', x) <=> Has(evq, x) \/ TimeoutOf[i] = x
  BY <1>1, <1>2, <1>3, Submitted DEF TimerFires
<1>5. MachineOK'
  BY <1>1, <1>4 DEF StandInv, MachineOK, TimerFires, modelVars
<1>6. GateOK' BY DEF StandInv, GateOK, TimerFires, connVars
<1>7. FailedInv' BY <1>2, FailedKept DEF TimerFires, modelVars
<1>8. TimedInv'
  <2>1. Arms(st)' = Arms(st) /\ st' = st BY DEF TimerFires, Arms
  <2>2. ASSUME NEW k \in Arms(st), k \in timers \/ Has(evq, TimeoutOf[k])
        PROVE  k \in timers' \/ Has(evq', TimeoutOf[k])
    BY <1>1, <1>4, <2>2
  <2> QED BY <2>1, <2>2 DEF StandInv, TimedInv
<1>9. ToldInv' BY DEF StandInv, ToldInv, TimerFires
<1>10. OnlineInv' BY <1>1, <1>3, OnlineKept DEF TimerFires
<1> QED BY <1>4, <1>5, <1>6, <1>7, <1>8, <1>9, <1>10 DEF StandInv

LEMMA CertReplyKeeps == StandInv /\ CertReply => StandInv'
<1> SUFFICES ASSUME StandInv, CertReply PROVE StandInv' OBVIOUS
<1>1. PICK b \in Barcode :
        /\ asked[b] > 0
        /\ asked' = [asked EXCEPT ![b] = @ - 1]
        /\ \/ b \in Valid /\ certInfo' = b /\ evq' = Append(evq, "certOK")
           \/ UNCHANGED certInfo /\ evq' = Append(evq, "certFail")
  BY DEF CertReply
<1>2. PICK e \in {"certOK", "certFail"} :
        /\ evq' = Append(evq, e)
        /\ e = "certOK" => b \in Valid
        /\ certInfo' = IF e = "certOK" THEN b ELSE certInfo
  BY <1>1
<1>3. ~busy /\ e \in Event \ (Decision \cup {"mainConnected", "mainDisconnected"})
  BY <1>2 DEF CertReply, Room, Event, Decision
<1>4. /\ KindInv' /\ DecisionInv' /\ st # "onCheckType"
      /\ evq' \in Seq(Event)
      /\ \A x : Has(evq', x) <=> Has(evq, x) \/ e = x
  BY <1>2, <1>3, Submitted DEF CertReply
<1>5. asked \in [Barcode -> Nat] BY DEF StandInv, MachineOK
<1>6. asked' \in [Barcode -> Nat] BY <1>1, <1>5
<1>7. MachineOK'
  <2>1. certInfo' \in Keys BY <1>2 DEF StandInv, MachineOK, Keys
  <2> QED BY <1>4, <1>6, <2>1 DEF StandInv, MachineOK, CertReply
<1>8. GateOK' BY DEF StandInv, GateOK, CertReply, connVars
<1>9. FailedInv' BY <1>3, FailedKept DEF CertReply
<1>10. TimedInv'
  <2>1. Arms(st)' = Arms(st) /\ st' = st /\ timers' = timers BY DEF CertReply, Arms
  <2> QED BY <1>4, <2>1 DEF StandInv, TimedInv
<1>11. ToldInv' BY DEF StandInv, ToldInv, CertReply
<1>12. OnlineInv' BY <1>2, <1>3, OnlineKept DEF CertReply
<1> QED BY <1>4, <1>7, <1>8, <1>9, <1>10, <1>11, <1>12 DEF StandInv

(* The first event of the queue has no transition in region _checker.      *)
LEMMA DiscardKeeps ==
  ASSUME StandInv, evq # <<>>, Targets = {}, evq' = Tail(evq),
         online' = CASE Head(evq) = "mainConnected"    -> TRUE
                     [] Head(evq) = "mainDisconnected" -> FALSE
                     [] OTHER                          -> online,
         busy' = (evq' # <<>>),
         UNCHANGED <<st, locked, timers, asked>>,
         UNCHANGED <<kind, scanned, certInfo, told, reader, connVars, crashed, left>>
  PROVE  StandInv'
<1>1. evq \in Seq(Event) /\ online \in BOOLEAN BY DEF StandInv, MachineOK
<1>2. evq' \in Seq(Event) /\ Head(evq) \in Event BY <1>1, TailElements
<1>3. \A x : Has(evq, x) <=> Head(evq) = x \/ Has(evq', x) BY <1>1, TailHas
<1>4. st # "onReady" => \A t \in Leaf : <<st, Head(evq), t>> \notin Arcs
  BY DEF StandInv, KindInv, Targets, MachineOK
<1>5. MachineOK'
  <2>1. online' \in BOOLEAN BY <1>1
  <2>2. busy' \in BOOLEAN OBVIOUS
  <2> QED BY <1>2, <2>1, <2>2 DEF StandInv, MachineOK
<1>6. GateOK' BY DEF StandInv, GateOK, connVars
<1>7. KindInv' BY DEF StandInv, KindInv
<1>8. DecisionInv'
  <2>1. CASE st = "onCheckType"
    <3>1. Decided(evq) BY <2>1 DEF StandInv, DecisionInv
    <3>2. Head(evq) \notin Decision BY <1>4, <2>1 DEF Decision, Arcs, Leaf
    <3>3. Decided(evq') BY <1>1, <3>1, <3>2, TailDecided
    <3>4. evq' # <<>> BY <3>3, EmptyQueue
    <3> QED BY <2>1, <3>3, <3>4 DEF DecisionInv
  <2>2. CASE st # "onCheckType"
    <3>1. Undecided(evq) BY <2>2 DEF StandInv, DecisionInv
    <3>2. Undecided(evq') BY <1>1, <3>1, TailDecided
    <3> QED BY <2>2, <3>2 DEF DecisionInv
  <2> QED BY <2>1, <2>2
<1>9. FailedInv'
  <2>1. FailedInv BY DEF StandInv
  <2>2. SUFFICES ASSUME st = "onCheckCovid", evq = <<"certFail">> PROVE FALSE
    BY <2>1 DEF FailedInv, Unknown
  <2>3. Head(evq) = "certFail" BY <2>2
  <2> QED BY <1>4, <2>2, <2>3 DEF Arcs, Leaf
<1>10. TimedInv'
  <2>1. Arms(st)' = Arms(st) BY DEF Arms
  <2>2. ASSUME NEW k \in Arms(st), st \notin {"onReady", "onCheckType"}
        PROVE  Head(evq) # TimeoutOf[k]
    <3>1. \E t \in Leaf : <<st, TimeoutOf[k], t>> \in Arcs
      <4>1. st \in Leaf BY DEF StandInv, MachineOK
      <4>2. CASE st = "onCheckCovid"
        BY <2>2, <4>2 DEF Arms, TimeoutOf, Arcs, Leaf
      <4>3. CASE st = "onWaitCovidContoller"
        BY <2>2, <4>3 DEF Arms, TimeoutOf, Arcs, Leaf
      <4>4. CASE st \in {"onShowNoTicket", "onShowCovidFail",
                         "onShowCovidCheckCommunicationTimeout"}
        BY <2>2, <4>4 DEF Arms, TimeoutOf, Arcs, Leaf
      <4> QED BY <2>2, <4>1, <4>2, <4>3, <4>4 DEF Leaf
    <3> QED BY <1>4, <2>2, <3>1
  <2> QED BY <1>3, <2>1, <2>2 DEF StandInv, TimedInv
<1>11. ToldInv' BY DEF StandInv, ToldInv
<1>12. OnlineInv'
  <2>1. Connects(evq) <=> \/ Head(evq) = "mainConnected" /\ ~Has(evq', "mainDisconnected")
                          \/ Connects(evq')
    BY <1>1, TailConnects
  <2>2. Has(evq, "mainDisconnected")
          <=> Head(evq) = "mainDisconnected" \/ Has(evq', "mainDisconnected")
    BY <1>3
  <2>3. CASE Head(evq) = "mainConnected"
    <3>1. EndsOnline' <=> EndsOnline BY <2>1, <2>2, <2>3 DEF EndsOnline
    <3> QED BY <3>1 DEF StandInv, OnlineInv
  <2>4. CASE Head(evq) = "mainDisconnected"
    <3>1. EndsOnline' <=> EndsOnline BY <2>1, <2>2, <2>4 DEF EndsOnline
    <3> QED BY <3>1 DEF StandInv, OnlineInv
  <2>5. CASE Head(evq) \notin {"mainConnected", "mainDisconnected"}
    <3>1. EndsOnline' <=> EndsOnline BY <2>1, <2>2, <2>5 DEF EndsOnline
    <3> QED BY <3>1 DEF StandInv, OnlineInv
  <2> QED BY <2>3, <2>4, <2>5
<1> QED BY <1>5, <1>6, <1>7, <1>8, <1>9, <1>10, <1>11, <1>12 DEF StandInv

(* The first event of the queue moves region _checker.                     *)
LEMMA MoveKeeps ==
  ASSUME StandInv, evq # <<>>, NEW t \in Targets,
         st' = t, locked' = Latched(Head(evq)),
         evq' = Tail(evq) \o Submits(t, locked'),
         timers' = (timers \ Arms(st)) \cup Arms(t),
         Asks(t, locked'), UNCHANGED online, busy' = (evq' # <<>>),
         UNCHANGED <<kind, scanned, certInfo, told, reader, connVars, crashed, left>>
  PROVE  StandInv'
<1>1. /\ evq \in Seq(Event) /\ online \in BOOLEAN /\ locked \in Keys
      /\ scanned \in [Sides -> Keys] /\ asked \in [Barcode -> Nat]
      /\ timers \subseteq DOMAIN TimeoutOf
  BY DEF StandInv, MachineOK
<1>2. Tail(evq) \in Seq(Event) /\ Head(evq) \in Event BY <1>1, TailElements
<1>3. t \in Leaf /\ kind = "checker" /\ <<st, Head(evq), t>> \in Arcs BY DEF Targets
<1>4. locked' \in Keys BY <1>1 DEF Latched, Sides
<1>5. Head(evq) \notin {"mainConnected", "mainDisconnected"} BY <1>3 DEF Arcs
<1>6. \/ Submits(t, locked') = <<>>
      \/ \E x \in Decision \cup {"certFail"} : Submits(t, locked') = <<x>>
  BY DEF Submits, Decision
<1>7. \/ evq' = Tail(evq)
      \/ \E x \in Decision \cup {"certFail"} : evq' = Append(Tail(evq), x)
  BY <1>2, <1>6, ConcatOne, SubmittedIsEvent
<1>8. evq' \in Seq(Event)
  BY <1>2, <1>7, AppendElements, SubmittedIsEvent
<1>9. asked' \in [Barcode -> Nat]
  <2>1. CASE t = "onCheckCovid" /\ ~Unknown(locked')
    <3>1. PICK b : b = locked' OBVIOUS
    <3>2. asked' = [asked EXCEPT ![b] = asked[b] + 1] BY <2>1, <3>1 DEF Asks
    <3>3. b \in Barcode BY <2>1, <3>1, StandAloneAssumption DEF Unknown
    <3> QED BY <1>1, <3>2, <3>3
  <2>2. CASE ~(t = "onCheckCovid" /\ ~Unknown(locked')) BY <1>1, <2>2 DEF Asks
  <2> QED BY <2>1, <2>2
<1>10. MachineOK'
  <2>1. timers' \subseteq DOMAIN TimeoutOf
    <3>1. Arms(t) \subseteq DOMAIN TimeoutOf BY DEF Arms, TimeoutOf
    <3> QED BY <1>1, <3>1
  <2>2. busy' \in BOOLEAN OBVIOUS
  <2> QED BY <1>3, <1>4, <1>8, <1>9, <2>1, <2>2 DEF StandInv, MachineOK
<1>11. GateOK' BY DEF StandInv, GateOK, connVars
<1>12. KindInv' BY <1>3 DEF KindInv
<1>13. ASSUME t = "onCheckType" PROVE DecisionInv' /\ FailedInv' /\ TimedInv'
  <2>1. st # "onCheckType" BY <1>3, <1>13 DEF Arcs
  <2>2. Undecided(evq) BY <2>1 DEF StandInv, DecisionInv
  <2>3. Undecided(Tail(evq)) BY <1>1, <2>2, TailDecided
  <2>4. PICK x \in Decision : evq' = Append(Tail(evq), x)
    <3>1. PICK x \in Decision : Submits(t, locked') = <<x>>
      BY <1>13 DEF Submits, Decision
    <3> QED BY <1>2, <3>1, ConcatOne, SubmittedIsEvent
  <2>5. Decided(evq') BY <1>2, <2>3, <2>4, AppendDecided, SubmittedIsEvent
  <2>6. evq' # <<>> BY <2>5, EmptyQueue
  <2>7. DecisionInv' BY <1>13, <2>5, <2>6 DEF DecisionInv
  <2>8. FailedInv' /\ TimedInv' BY <1>13 DEF FailedInv, TimedInv
  <2> QED BY <2>7, <2>8
<1>14. ASSUME t # "onCheckType" PROVE DecisionInv' /\ FailedInv' /\ TimedInv'
  <2>1. TimedInv'
    <3>1. Arms(st)' = Arms(t) BY DEF Arms
    <3>2. t \notin {"onReady", "onCheckType"} => \E i \in Arms(t) : TRUE BY DEF Arms
    <3> QED BY <3>1, <3>2 DEF TimedInv
  <2>2. Undecided(Tail(evq))
    <3>1. CASE st = "onCheckType"
      <4>1. Decided(evq) BY <3>1 DEF StandInv, DecisionInv
      <4>2. Head(evq) \in Decision BY <1>3, <3>1 DEF Arcs, Decision
      <4>3. Tail(evq) = <<>> BY <1>1, <4>1, <4>2, TailDecided
      <4> QED BY <4>3, EmptyQueue
    <3>2. CASE st # "onCheckType"
      <4>1. Undecided(evq) BY <3>2 DEF StandInv, DecisionInv
      <4> QED BY <1>1, <4>1, TailDecided
    <3> QED BY <3>1, <3>2
  <2>3. \/ evq' = Tail(evq)
        \/ evq' = Append(Tail(evq), "certFail")
    <3>1. Submits(t, locked') \in {<<>>, <<"certFail">>} BY <1>14 DEF Submits
    <3> QED BY <1>2, <3>1, ConcatOne DEF Event
  <2>4. Undecided(evq')
    BY <1>2, <2>2, <2>3, AppendDecided DEF Event, Decision
  <2>5. DecisionInv' BY <1>14, <2>4 DEF DecisionInv
  <2>6. FailedInv'
    <3>1. CASE t = "onCheckCovid"
      <4>1. st = "onCheckType" /\ Head(evq) = "isCovidQR" BY <1>3, <3>1 DEF Arcs
      <4>2. Decided(evq) BY <4>1 DEF StandInv, DecisionInv
      <4>3. Tail(evq) = <<>> BY <1>1, <4>1, <4>2, TailDecided DEF Decision
      <4>4. Unknown(locked)' <=> Unknown(locked') BY DEF Unknown
      <4>5. CASE Unknown(locked')
        <5>1. Submits(t, locked') = <<"certFail">> BY <3>1, <4>5 DEF Submits
        <5>2. evq' = <<"certFail">> BY <4>3, <5>1, EmptyQueue
        <5>3. evq' # <<>> BY <5>2, EmptyQueue
        <5> QED BY <3>1, <4>4, <4>5, <5>2, <5>3 DEF FailedInv
      <4>6. CASE ~Unknown(locked') BY <4>4, <4>6 DEF FailedInv
      <4> QED BY <4>5, <4>6
    <3>2. CASE t # "onCheckCovid" BY <3>2 DEF FailedInv
    <3> QED BY <3>1, <3>2
  <2> QED BY <2>1, <2>5, <2>6
<1>15. ToldInv' BY DEF StandInv, ToldInv
<1>16. OnlineInv'
  <2>1. /\ Connects(evq) <=> Connects(Tail(evq))
        /\ Has(evq, "mainDisconnected") <=> Has(Tail(evq), "mainDisconnected")
    BY <1>1, <1>5, TailConnects, TailHas
  <2>2. ASSUME NEW x \in Decision \cup {"certFail"}
        PROVE  /\ Connects(Append(Tail(evq), x)) <=> Connects(Tail(evq))
               /\ Has(Append(Tail(evq), x), "mainDisconnected")
                    <=> Has(Tail(evq), "mainDisconnected")
    <3>1. x \in Event /\ x \notin {"mainConnected", "mainDisconnected"}
      BY DEF Event, Decision
    <3> QED BY <1>2, <3>1, AppendConnects, AppendHas
  <2>3. /\ Connects(evq') <=> Connects(evq)
        /\ Has(evq', "mainDisconnected") <=> Has(evq, "mainDisconnected")
    BY <1>7, <2>1, <2>2
  <2>4. EndsOnline' <=> EndsOnline BY <2>3 DEF EndsOnline
  <2> QED BY <2>4 DEF StandInv, OnlineInv
<1> QED BY <1>10, <1>11, <1>12, <1>13, <1>14, <1>15, <1>16 DEF StandInv

LEMMA DrainKeeps == StandInv /\ Drain => StandInv'
<1> SUFFICES ASSUME StandInv, Drain PROVE StandInv' OBVIOUS
<1>1. CASE \E t \in Targets :
             LET b == Latched(Head(evq)) IN
             /\ st' = t /\ locked' = b
             /\ evq' = Tail(evq) \o Submits(t, b)
             /\ timers' = (timers \ Arms(st)) \cup Arms(t)
             /\ Asks(t, b)
             /\ UNCHANGED online
  <2>1. PICK t \in Targets : /\ st' = t /\ locked' = Latched(Head(evq))
                             /\ evq' = Tail(evq) \o Submits(t, locked')
                             /\ timers' = (timers \ Arms(st)) \cup Arms(t)
                             /\ Asks(t, locked')
                             /\ UNCHANGED online
    BY <1>1
  <2> QED BY <2>1, MoveKeeps DEF Drain
<1>2. CASE Targets = {} /\ evq' = Tail(evq) BY <1>2, DiscardKeeps DEF Drain
<1> QED BY <1>1, <1>2 DEF Drain

-----------------------------------------------------------------------------
(* The steps of the readers, and of the gate. *)

(* What the machine and the gate's pointers are does not change.           *)
LEMMA MachineKept ==
  ASSUME StandInv, GateOK', UNCHANGED <<machineVars, reader>>
  PROVE  StandInv'
<1>1. UNCHANGED <<kind, st, online, evq, busy, timers, scanned, locked, certInfo, asked,
                  told, reader>>
  BY DEF machineVars, modelVars
<1>2. MachineOK' BY <1>1 DEF StandInv, MachineOK
<1>3. KindInv' /\ DecisionInv' BY <1>1 DEF StandInv, KindInv, DecisionInv
<1>4. FailedInv' BY <1>1 DEF StandInv, FailedInv, Unknown
<1>5. TimedInv'
  <2>1. Arms(st)' = Arms(st) BY <1>1 DEF Arms
  <2> QED BY <1>1, <2>1 DEF StandInv, TimedInv
<1>6. ToldInv' BY <1>1 DEF StandInv, ToldInv
<1>7. OnlineInv' BY <1>1 DEF StandInv, OnlineInv, EndsOnline
<1> QED BY <1>2, <1>3, <1>4, <1>5, <1>6, <1>7 DEF StandInv

LEMMA PostType ==
  ASSUME GateOK, NEW c \in Conn, NEW calls \in Seq(CallType), Post(c, calls)
  PROVE  posted' \in [Conn -> Seq(CallType)]
<1>1. posted[c] \o calls \in Seq(CallType) BY ConcatProperties DEF GateOK
<1> QED BY <1>1 DEF Post, GateOK

LEMMA SpendType ==
  ASSUME GateOK, NEW what \in {"register", "scan", "switch"}, Spend(what)
  PROVE  left' \in [register : Nat, scan : Nat, switch : Nat, seen : SUBSET Barcode]
<1>1. left[what] \in Nat /\ left[what] > 0 BY DEF Spend, GateOK
<1>2. left[what] - 1 \in Nat BY <1>1
<1> QED BY <1>2 DEF Spend, GateOK

LEMMA ReadersKeep == ASSUME StandInv, NEW c \in Conn, Readers(c) PROVE StandInv'
<1> USE DEF StandInv
<1>1. ASSUME NEW mac \in Mac, Register(c, mac) PROVE StandInv'
  <2>1. <<Call("register")>> \in Seq(CallType) BY DEF Call, CallType, Keys
  <2>2. posted' \in [Conn -> Seq(CallType)] BY <1>1, <2>1, PostType DEF Register
  <2>3. left' \in [register : Nat, scan : Nat, switch : Nat, seen : SUBSET Barcode]
    BY <1>1, SpendType DEF Register
  <2>4. GateOK' BY <1>1, <2>2, <2>3 DEF Register, GateOK, machineVars
  <2> QED BY <1>1, <2>4, MachineKept DEF Register
<1>2. ASSUME NEW b \in Barcode, Scan(c, b) PROVE StandInv'
  <2>1. [slot |-> "parse", bc |-> b] \in CallType BY DEF CallType, Keys
  <2>2. Times(slots[c], <<[slot |-> "parse", bc |-> b]>>) \in Seq(CallType)
    BY <2>1, TimesOne DEF GateOK
  <2>3. posted' \in [Conn -> Seq(CallType)] BY <1>2, <2>2, PostType DEF Scan
  <2>4. left' \in [register : Nat, scan : Nat, switch : Nat, seen : SUBSET Barcode]
    BY <1>2, SpendType DEF Scan
  <2>5. GateOK' BY <1>2, <2>3, <2>4 DEF Scan, GateOK, machineVars
  <2> QED BY <1>2, <2>5, MachineKept DEF Scan
<1>3. ASSUME Disconnect(c) PROVE StandInv'
  <2>1. Call("sideGone") \in CallType /\ Call("macGone") \in CallType
    BY DEF Call, CallType, Keys
  <2>2. Times(slots[c], <<Call("sideGone"), Call("macGone")>>) \in Seq(CallType)
    BY <2>1, TimesTwo DEF GateOK
  <2>3. posted' \in [Conn -> Seq(CallType)] BY <1>3, <2>2, PostType DEF Disconnect
  <2>4. GateOK' BY <1>3, <2>3 DEF Disconnect, GateOK, machineVars
  <2> QED BY <1>3, <2>4, MachineKept DEF Disconnect
<1> QED BY <1>1, <1>2, <1>3 DEF Readers

LEMMA MayCrashType == ASSUME NEW used, MayCrash(used) PROVE crashed' \in BOOLEAN
BY DEF MayCrash

(* What Deliver leaves alone.                                              *)
DeliverFrame(c) ==
  /\ ~busy /\ posted[c] # <<>> /\ posted' = [posted EXCEPT ![c] = Tail(@)]
  /\ UNCHANGED <<kind, st, online, busy, timers, conn, left>>

LEMMA DeliverType ==
  ASSUME GateOK, NEW c \in Conn, DeliverFrame(c),
         told' \subseteq Conn, reader' \in [Mac \cup Sides -> Conn \cup {NoConn}],
         slots' \in [Conn -> Nat], crashed' \in BOOLEAN
  PROVE  GateOK'
<1>1. Tail(posted[c]) \in Seq(CallType) BY HeadTailProperties DEF GateOK, DeliverFrame
<1>2. posted' \in [Conn -> Seq(CallType)] BY <1>1 DEF GateOK, DeliverFrame
<1> QED BY <1>2 DEF GateOK, DeliverFrame

LEMMA TimedKept ==
  ASSUME StandInv, st' = st, timers' = timers, \A x : Has(evq, x) => Has(evq', x)
  PROVE  TimedInv'
<1>1. Arms(st)' = Arms(st) BY DEF Arms
<1> QED BY <1>1 DEF StandInv, TimedInv

LEMMA ParseKeeps ==
  ASSUME StandInv, NEW c \in Conn, NEW b \in Keys, DeliverFrame(c), Parse(c, b)
  PROVE  StandInv'
<1>1. UNCHANGED <<reader, slots, told, locked, certInfo, asked, crashed>>
      /\ UNCHANGED <<kind, st, online, busy, timers>>
  BY DEF Parse, DeliverFrame
<1>2. GateOK' BY <1>1, DeliverType DEF StandInv, GateOK
<1>3. FailedInv' BY <1>1, FailedKept DEF DeliverFrame
<1>4. ToldInv' BY <1>1 DEF StandInv, ToldInv
<1>5. CASE kind = "checker"
  <2>1. PICK e \in {"en.barcode", "ex.barcode"} : evq' = Append(evq, e)
    BY <1>5 DEF Parse
  <2>2. e \in Event \ (Decision \cup {"mainConnected", "mainDisconnected"})
    BY DEF Event, Decision
  <2>3. /\ KindInv' /\ DecisionInv' /\ evq' \in Seq(Event)
        /\ \A x : Has(evq', x) <=> Has(evq, x) \/ e = x
    BY <1>1, <2>1, <2>2, Submitted DEF DeliverFrame
  <2>4. scanned' \in [Sides -> Keys]
    <3>1. PICK side : scanned' = [scanned EXCEPT ![side] = b] BY <1>5 DEF Parse
    <3> QED BY <3>1 DEF StandInv, MachineOK
  <2>5. MachineOK' BY <1>1, <2>3, <2>4 DEF StandInv, MachineOK
  <2>6. TimedInv' BY <1>1, <2>3, TimedKept
  <2>7. OnlineInv' BY <1>1, <2>1, <2>2, OnlineKept
  <2> QED BY <1>2, <1>3, <1>4, <2>3, <2>5, <2>6, <2>7 DEF StandInv
<1>6. CASE kind # "checker"
  <2>1. UNCHANGED <<evq, scanned>> BY <1>6 DEF Parse
  <2> QED BY <1>1, <1>2, <2>1, MachineKept DEF machineVars, modelVars
<1> QED BY <1>5, <1>6

LEMMA SideIsNoMac ==
  ASSUME NEW mac \in Mac PROVE Side[mac] \in Sides /\ Side[mac] # "main"
BY StandAloneAssumption DEF Sides

LEMMA SideGoneKeeps ==
  ASSUME StandInv, NEW c \in Conn, DeliverFrame(c), SideGone(c)
  PROVE  StandInv'
<1>1. UNCHANGED <<evq, slots, told, scanned, locked, certInfo, asked, crashed>>
      /\ UNCHANGED <<kind, st, online, busy, timers>>
  BY DEF SideGone, DeliverFrame, modelVars
<1>2. PICK side : side = Side[conn[c].mac] OBVIOUS
<1>3. side \in Sides /\ side # "main"
  BY <1>2, SideIsNoMac DEF StandInv, GateOK
<1>4. reader' = [reader EXCEPT ![side] = NoConn] BY <1>2 DEF SideGone
<1>5. reader' \in [Mac \cup Sides -> Conn \cup {NoConn}]
  BY <1>4 DEF StandInv, GateOK
<1>6. reader'["main"] = reader["main"]
  BY <1>3, <1>4 DEF StandInv, GateOK, Mac
<1>7. GateOK' BY <1>1, <1>5, DeliverType DEF StandInv, GateOK
<1>8. MachineOK' BY <1>1 DEF StandInv, MachineOK
<1>9. KindInv' /\ DecisionInv' BY <1>1 DEF StandInv, KindInv, DecisionInv
<1>10. FailedInv' BY <1>1, FailedKept DEF DeliverFrame
<1>11. TimedInv' BY <1>1, TimedKept
<1>12. ToldInv' BY <1>1, <1>4 DEF StandInv, GateOK, ToldInv
<1>13. OnlineInv' BY <1>1, <1>6 DEF StandInv, OnlineInv, EndsOnline
<1> QED BY <1>7, <1>8, <1>9, <1>10, <1>11, <1>12, <1>13 DEF StandInv

LEMMA MacGoneKeeps ==
  ASSUME StandInv, NEW c \in Conn, DeliverFrame(c), MacGone(c)
  PROVE  StandInv'
<1>1. UNCHANGED <<slots, told, scanned, locked, certInfo, asked, crashed>>
      /\ UNCHANGED <<kind, st, online, busy, timers>>
  BY DEF MacGone, DeliverFrame, modelVars
<1>2. PICK mac \in Mac : mac = conn[c].mac BY DEF StandInv, GateOK
<1>3. reader' = [reader EXCEPT ![mac] = NoConn]
      /\ evq' = IF mac = "main" THEN Append(evq, "mainDisconnected") ELSE evq
  BY <1>2 DEF MacGone
<1>4. reader' \in [Mac \cup Sides -> Conn \cup {NoConn}]
  BY <1>3 DEF StandInv, GateOK
<1>5. GateOK' BY <1>1, <1>4, DeliverType DEF StandInv, GateOK
<1>6. ToldInv' BY <1>1, <1>3 DEF StandInv, GateOK, ToldInv
<1>7. FailedInv' BY <1>1, FailedKept DEF DeliverFrame
<1>8. CASE mac = "main"
  <2>1. evq' = Append(evq, "mainDisconnected") BY <1>3, <1>8
  <2>2. "mainDisconnected" \in Event \ Decision BY DEF Event, Decision
  <2>3. /\ KindInv' /\ DecisionInv' /\ evq' \in Seq(Event)
        /\ Has(evq', "mainDisconnected")
        /\ \A x : Has(evq', x) <=> Has(evq, x) \/ "mainDisconnected" = x
    BY <1>1, <2>1, <2>2, Submitted DEF DeliverFrame
  <2>4. MachineOK' BY <1>1, <2>3 DEF StandInv, MachineOK
  <2>5. TimedInv' BY <1>1, <2>3, TimedKept
  <2>6. OnlineInv'
    <3>1. ~Connects(evq') BY <2>1, <2>2, AppendConnects DEF StandInv, MachineOK
    <3>2. ~EndsOnline' BY <2>3, <3>1 DEF EndsOnline
    <3>3. reader'["main"] = NoConn BY <1>3, <1>8 DEF StandInv, GateOK, Mac
    <3> QED BY <3>2, <3>3 DEF OnlineInv
  <2> QED BY <1>5, <1>6, <1>7, <2>3, <2>4, <2>5, <2>6 DEF StandInv
<1>9. CASE mac # "main"
  <2>1. evq' = evq BY <1>3, <1>9
  <2>2. reader'["main"] = reader["main"] BY <1>3, <1>9 DEF StandInv, GateOK, Mac
  <2>3. MachineOK' BY <1>1, <2>1 DEF StandInv, MachineOK
  <2>4. KindInv' /\ DecisionInv' BY <1>1, <2>1 DEF StandInv, KindInv, DecisionInv
  <2>5. TimedInv' BY <1>1, <2>1, TimedKept
  <2>6. OnlineInv' BY <1>1, <2>1, <2>2 DEF StandInv, OnlineInv, EndsOnline
  <2> QED BY <1>5, <1>6, <1>7, <2>3, <2>4, <2>5, <2>6 DEF StandInv
<1> QED BY <1>8, <1>9

(* A waiting state whose script runs again is onCheckCovid with a request  *)
(* that goes out: its script submits nothing.                              *)
LEMMA SetReaderKeeps ==
  ASSUME StandInv, NEW c \in Conn, DeliverFrame(c), SetReader(c)
  PROVE  StandInv'
<1>1. UNCHANGED <<scanned, locked, certInfo, kind, st, online, busy, timers, conn>>
  BY DEF SetReader, DeliverFrame
<1>2. PICK mac \in Mac : mac = conn[c].mac BY DEF StandInv, GateOK
<1>3. PICK side \in Sides : side = Side[mac] /\ side # "main" BY SideIsNoMac
<1>4. reader' = [reader EXCEPT ![mac] = c, ![side] = c]
  BY <1>2, <1>3 DEF SetReader
<1>5. reader' \in [Mac \cup Sides -> Conn \cup {NoConn}]
      /\ \A r \in Mac \cup Sides : reader'[r] = c \/ reader'[r] = reader[r]
  BY <1>4 DEF StandInv, GateOK
<1>6. told' = told \cup {c} /\ slots' = [slots EXCEPT ![c] = @ + 1] BY DEF SetReader
<1>7. slots' \in [Conn -> Nat]
  <2>1. slots[c] + 1 \in Nat BY DEF StandInv, GateOK
  <2> QED BY <1>6, <2>1 DEF StandInv, GateOK
<1>8. GateOK'
  <2>1. crashed' \in BOOLEAN BY MayCrashType DEF SetReader
  <2>2. told' \subseteq Conn BY <1>6 DEF StandInv, GateOK
  <2> QED BY <1>5, <1>7, <2>1, <2>2, DeliverType DEF StandInv
<1>9. ToldInv' BY <1>5, <1>6 DEF StandInv, ToldInv
<1>10. ~busy /\ st # "onCheckType" /\ evq \in Seq(Event)
  BY DEF DeliverFrame, StandInv, DecisionInv, MachineOK
<1>11. Redoes => st = "onCheckCovid" /\ ~Unknown(locked)
  BY <1>10 DEF Redoes, StandInv, FailedInv
<1>12. evq' = IF mac = "main" THEN Append(evq, "mainConnected") ELSE evq
  <2>1. (IF Redoes THEN RedoSubmits ELSE <<>>) = <<>>
    BY <1>11 DEF RedoSubmits, Submits, Redoes
  <2>2. evq' = (evq \o (IF mac = "main" THEN <<"mainConnected">> ELSE <<>>)) \o <<>>
    BY <1>2, <2>1 DEF SetReader
  <2>3. "mainConnected" \in Event BY DEF Event
  <2>4. CASE mac = "main"
    <3>1. evq \o <<"mainConnected">> = Append(evq, "mainConnected")
      BY <1>10, <2>3, ConcatOne
    <3>2. Append(evq, "mainConnected") \in Seq(Event) BY <1>10, <2>3, AppendElements
    <3>3. Append(evq, "mainConnected") \o <<>> = Append(evq, "mainConnected")
      BY <3>2, ConcatEmptySeq
    <3> QED BY <2>2, <2>4, <3>1, <3>3
  <2>5. CASE mac # "main"
    <3>1. evq \o <<>> = evq BY <1>10, ConcatEmptySeq
    <3> QED BY <2>2, <2>5, <3>1
  <2> QED BY <2>4, <2>5
<1>13. asked' \in [Barcode -> Nat]
  <2>1. asked \in [Barcode -> Nat] BY DEF StandInv, MachineOK
  <2>2. CASE Redoes
    <3>1. PICK b \in Barcode : b = locked
      BY <1>11, <2>2, StandAloneAssumption DEF Unknown
    <3>2. asked' = [asked EXCEPT ![b] = asked[b] + 1]
      BY <1>11, <2>2, <3>1 DEF SetReader, Asks
    <3> QED BY <2>1, <3>1, <3>2
  <2>3. CASE ~Redoes BY <2>1, <2>3 DEF SetReader
  <2> QED BY <2>2, <2>3
<1>14. FailedInv' BY <1>1, <1>10, FailedKept
<1>15. CASE mac = "main"
  <2>1. evq' = Append(evq, "mainConnected") BY <1>12, <1>15
  <2>2. "mainConnected" \in Event \ Decision BY DEF Event, Decision
  <2>3. /\ KindInv' /\ DecisionInv' /\ evq' \in Seq(Event)
        /\ \A x : Has(evq', x) <=> Has(evq, x) \/ "mainConnected" = x
    BY <1>1, <1>10, <2>1, <2>2, Submitted
  <2>4. MachineOK' BY <1>1, <1>13, <2>3 DEF StandInv, MachineOK
  <2>5. TimedInv' BY <1>1, <2>3, TimedKept
  <2>6. OnlineInv'
    <3>1. Connects(evq') BY <1>10, <2>1, <2>2, AppendConnects
    <3>2. EndsOnline' BY <3>1 DEF EndsOnline
    <3>3. reader'["main"] = c BY <1>4, <1>15, <1>3 DEF StandInv, GateOK, Mac
    <3>4. c # NoConn BY StandAloneAssumption
    <3> QED BY <3>2, <3>3, <3>4 DEF OnlineInv
  <2> QED BY <1>8, <1>9, <1>14, <2>3, <2>4, <2>5, <2>6 DEF StandInv
<1>16. CASE mac # "main"
  <2>1. evq' = evq BY <1>12, <1>16
  <2>2. reader'["main"] = reader["main"] BY <1>3, <1>4, <1>16 DEF StandInv, GateOK, Mac
  <2>3. MachineOK' BY <1>1, <1>13, <2>1 DEF StandInv, MachineOK
  <2>4. KindInv' /\ DecisionInv' BY <1>1, <2>1 DEF StandInv, KindInv, DecisionInv
  <2>5. TimedInv' BY <1>1, <2>1, TimedKept
  <2>6. OnlineInv' BY <1>1, <2>1, <2>2 DEF StandInv, OnlineInv, EndsOnline
  <2> QED BY <1>8, <1>9, <1>14, <2>3, <2>4, <2>5, <2>6 DEF StandInv
<1> QED BY <1>15, <1>16

LEMMA DeliverKeeps == ASSUME StandInv, NEW c \in Conn, Deliver(c) PROVE StandInv'
<1>1. DeliverFrame(c) BY DEF Deliver, DeliverFrame, Room
<1>2. Head(posted[c]) \in CallType
  BY <1>1, HeadTailProperties DEF StandInv, GateOK, DeliverFrame
<1>3. CASE Head(posted[c]).slot = "register" BY <1>1, <1>3, SetReaderKeeps DEF Deliver
<1>4. CASE Head(posted[c]).slot = "parse"
  <2>1. Parse(c, Head(posted[c]).bc) /\ Head(posted[c]).bc \in Keys
    BY <1>2, <1>4 DEF Deliver, CallType
  <2> QED BY <1>1, <2>1, ParseKeeps
<1>5. CASE Head(posted[c]).slot = "sideGone" BY <1>1, <1>5, SideGoneKeeps DEF Deliver
<1>6. CASE Head(posted[c]).slot = "macGone" BY <1>1, <1>6, MacGoneKeeps DEF Deliver
<1> QED BY <1>2, <1>3, <1>4, <1>5, <1>6 DEF CallType

(* Every place of a reader belongs to one of the two.                      *)
LEMMA EveryPlaceHasAMac ==
  /\ \A r \in Mac \cup Sides :
       (CHOOSE mac \in Mac : r \in {mac, Side[mac]}) \in Mac
  /\ (CHOOSE mac \in Mac : "main" \in {mac, Side[mac]}) = "main"
<1>1. \A r \in Mac \cup Sides : \E mac \in Mac : r \in {mac, Side[mac]}
  BY StandAloneAssumption DEF Mac, Sides
<1>2. \A mac \in Mac : "main" \in {mac, Side[mac]} <=> mac = "main"
  BY SideIsNoMac
<1>3. "main" \in Mac BY DEF Mac
<1> QED BY <1>1, <1>2, <1>3

LEMMA SwitchKeep ==
  ASSUME StandInv, NEW k \in {"checker", "wicket"}, Switch(k)
  PROVE  StandInv'
<1> DEFINE known == {Pointed(mac) : mac \in Mac} \ {NoConn}
<1>1. /\ kind' = k /\ st' = "onReady" /\ online' = (k = "checker")
      /\ busy' = FALSE /\ timers' = {}
      /\ scanned' = [s \in Sides |-> NoBarcode]
      /\ locked' = NoBarcode /\ certInfo' = NoBarcode
      /\ asked' = NoRequest
  BY DEF Switch, Started
<1>2. /\ reader' = [r \in Mac \cup Sides |->
                      Pointed(CHOOSE mac \in Mac : r \in {mac, Side[mac]})]
      /\ slots' = [c \in Conn |->
                     IF c \in known
                     THEN slots[c] + Registered(CHOOSE mac \in Mac : Pointed(mac) = c)
                     ELSE slots[c]]
      /\ told' = known
      /\ evq' = Times(Registered("main"), <<"mainConnected">>)
      /\ MayCrash(known)
      /\ UNCHANGED <<conn, posted>>
  BY DEF Switch
<1>3. \A mac \in Mac : Pointed(mac) \in Conn \cup {NoConn}
  <2>1. \A mac \in Mac : mac \in Mac \cup Sides /\ Side[mac] \in Mac \cup Sides
    BY SideIsNoMac
  <2> QED BY <2>1 DEF Pointed, StandInv, GateOK
<1>4. \A mac : Registered(mac) \in Nat BY DEF Registered
<1>5. "mainConnected" \in Event BY DEF Event
<1>6. /\ evq' \in Seq(Event) /\ Len(evq') = Registered("main")
      /\ \A i \in 1 .. Len(evq') : evq'[i] = "mainConnected"
  BY <1>2, <1>4, <1>5, TimesOne
<1>7. MachineOK'
  <2>1. online' \in BOOLEAN /\ busy' \in BOOLEAN BY <1>1
  <2>2. asked' \in [Barcode -> Nat] /\ timers' \subseteq DOMAIN TimeoutOf
    BY <1>1 DEF NoRequest
  <2>3. scanned' \in [Sides -> Keys] /\ locked' \in Keys /\ certInfo' \in Keys
    BY <1>1 DEF Keys
  <2>4. st' \in Leaf /\ kind' \in {"checker", "wicket"} BY <1>1 DEF Leaf
  <2> QED BY <1>6, <2>1, <2>2, <2>3, <2>4 DEF MachineOK
<1>8. \A r \in Mac \cup Sides : \E mac \in Mac : reader'[r] = Pointed(mac)
  BY <1>2, EveryPlaceHasAMac
<1>9. GateOK'
  <2>1. told' \subseteq Conn BY <1>2, <1>3
  <2>2. reader' \in [Mac \cup Sides -> Conn \cup {NoConn}] BY <1>2, <1>3, <1>8
  <2>3. slots' \in [Conn -> Nat]
    <3>1. \A c \in Conn : slots[c] \in Nat BY DEF StandInv, GateOK
    <3>2. \A c \in Conn : slots[c] + Registered(CHOOSE mac \in Mac : Pointed(mac) = c) \in Nat
      BY <1>4, <3>1
    <3> HIDE DEF known
    <3> QED BY <1>2, <3>1, <3>2
  <2>4. crashed' \in BOOLEAN BY <1>2, MayCrashType
  <2>5. left' \in [register : Nat, scan : Nat, switch : Nat, seen : SUBSET Barcode]
    BY SpendType DEF Switch, StandInv
  <2> QED BY <1>2, <2>1, <2>2, <2>3, <2>4, <2>5 DEF StandInv, GateOK
<1>10. KindInv' /\ FailedInv' /\ TimedInv' BY <1>1 DEF KindInv, FailedInv, TimedInv
<1>11. Undecided(evq')
  BY <1>6 DEF Undecided, Decision
<1>12. DecisionInv' BY <1>1, <1>11 DEF DecisionInv
<1>13. ToldInv'
  <2>1. ASSUME NEW r \in Mac \cup Sides, reader'[r] # NoConn PROVE reader'[r] \in told'
    <3>1. PICK mac \in Mac : reader'[r] = Pointed(mac) BY <1>8
    <3>2. Pointed(mac) \in known BY <2>1, <3>1
    <3>3. told' = known BY <1>2
    <3> QED BY <3>1, <3>2, <3>3
  <2> QED BY <2>1 DEF ToldInv
<1>14. OnlineInv'
  <2>1. reader'["main"] = Pointed("main")
    BY <1>2, EveryPlaceHasAMac DEF Mac
  <2>2. reader'["main"] # NoConn <=> Registered("main") > 0
    BY <2>1 DEF Pointed, Registered
  <2>3. ~Has(evq', "mainDisconnected") BY <1>6 DEF Has
  <2>4. Connects(evq') <=> Registered("main") > 0
    BY <1>4, <1>6 DEF Connects
  <2>5. EndsOnline' <=> Registered("main") > 0 \/ k = "checker"
    BY <1>1, <2>3, <2>4 DEF EndsOnline
  <2>6. kind' = "wicket" => k # "checker" BY <1>1
  <2> QED BY <2>2, <2>5, <2>6 DEF OnlineInv
<1> QED BY <1>7, <1>9, <1>10, <1>12, <1>13, <1>14 DEF StandInv

-----------------------------------------------------------------------------
(* The theorems. *)

LEMMA StandStep == StandInv /\ [Next]_vars => StandInv'
<1> SUFFICES ASSUME StandInv, [Next]_vars PROVE StandInv' OBVIOUS
<1>1. CASE Drain BY <1>1, DrainKeeps
<1>2. CASE TimerFires BY <1>2, TimerFiresKeeps
<1>3. CASE CertReply BY <1>3, CertReplyKeeps
<1>4. CASE \E c \in Conn : Readers(c) BY <1>4, ReadersKeep
<1>5. CASE \E c \in Conn : Deliver(c) BY <1>5, DeliverKeeps
<1>6. CASE \E k \in {"checker", "wicket"} : Switch(k) BY <1>6, SwitchKeep
<1>7. CASE UNCHANGED vars
  <2>1. UNCHANGED <<machineVars, reader>> /\ UNCHANGED <<conn, slots, posted, crashed, left>>
    BY <1>7 DEF vars, machineVars, modelVars
  <2>2. told' = told /\ reader' = reader BY <2>1 DEF machineVars
  <2>3. GateOK' BY <2>1, <2>2 DEF StandInv, GateOK
  <2> QED BY <2>1, <2>3, MachineKept
<1> QED BY <1>1, <1>2, <1>3, <1>4, <1>5, <1>6, <1>7 DEF Next

LEMMA StandAlways == Spec => []StandInv
BY StandInit, StandStep, PTL DEF Spec

(* The gate, its machine and its readers are well typed, whatever the      *)
(* readers, the widget and the certificate service do.                     *)
THEOREM StandAloneTypeCorrect == Spec => []TypeOK
<1>1. StandInv => TypeOK BY DEF StandInv, TypeOK
<1> QED BY <1>1, StandAlways, PTL

(* stndAlnOn and stndAlnOff keep every reader: the machine talks to each   *)
(* connection that the gate points to, and knows of the main one when its  *)
(* queue is empty, for any interleaving with the readers' threads.         *)
THEOREM SwitchLosesNoReader == Spec => []SwitchKeepsReaders
<1>1. StandInv => SwitchKeepsReaders
  <2> SUFFICES ASSUME StandInv PROVE SwitchKeepsReaders OBVIOUS
  <2>1. ToldInv /\ OnlineInv BY DEF StandInv
  <2>2. evq = <<>> => (EndsOnline <=> online) BY EmptyQueue DEF EndsOnline
  <2> QED BY <2>1, <2>2 DEF ToldInv, OnlineInv, SwitchKeepsReaders
<1> QED BY <1>1, StandAlways, PTL

(* The checker never waits for the certificate service or a reader alone:  *)
(* outside onReady an event is queued or a timer of the chart is armed.    *)
THEOREM CheckerNeverStuck == Spec => [](st # "onReady" => timers # {} \/ evq # <<>>)
<1>1. StandInv => (st # "onReady" => timers # {} \/ evq # <<>>)
  BY EmptyQueue DEF StandInv, TimedInv, DecisionInv
<1> QED BY <1>1, StandAlways, PTL

=============================================================================
