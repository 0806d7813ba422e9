--------------------------- MODULE AdapterProofs ----------------------------
(***************************************************************************)
(* Proofs about the adapter and network packages, for every value of the   *)
(* constants: the table of message ids stays one to one (MessageUnique),   *)
(* what a protocol adapter registered is gone when it was stopped          *)
(* (Transports), and what the answer to a request says of what was done    *)
(* (Requests).                                                             *)
(***************************************************************************)
EXTENDS MessageUnique, Transports, Requests, Integers, WellFoundedInduction, TLAPS

-----------------------------------------------------------------------------
(***************************************************************************)
(* The table of message ids. The inductive invariant adds to the property  *)
(* what nextFreeId relies on: below the cursor an id is either in use or   *)
(* freed, from the cursor on neither. That is why the cursor, and the      *)
(* linear scan of an overflow, hand out ids that are not in use.           *)
(***************************************************************************)

\* An id that was used is either in use or waits in the set freed: nextFreeId
\* reaches its linear scan only when every id is in use, and throws.
IdsAccounted ==
    \A i \in Ids : /\ i < cursor <=> (i \in freed \/ intToMsgId[i] # NoMsg)
                   /\ ~(i \in freed /\ intToMsgId[i] # NoMsg)

IdsInv == IdsTypeOK /\ IdsOneToOne /\ IdsAccounted

\* What nextFreeId returns is an id that no message holds, and the cursor
\* moves over it.
LEMMA NextFreeIdIsFree ==
    ASSUME IdsInv, NEW next \in NextFreeId
    PROVE  /\ next[1] \in Ids
           /\ intToMsgId[next[1]] = NoMsg
           /\ next[2] \in 1 .. MaxId + 1
           /\ cursor <= next[2]
           /\ \A i \in Ids : i < next[2] <=> (i < cursor \/ i = next[1])
<1> USE MessageUniqueAssumption DEF IdsInv, IdsTypeOK, IdsAccounted, Ids
<1>1. CASE freed # {}
  <2>1. PICK i \in freed : next = <<i, cursor>>
    BY <1>1 DEF NextFreeId
  <2> QED BY <2>1
<1>2. CASE freed = {} /\ cursor <= MaxId
  <2>1. next = <<cursor, cursor + 1>>
    BY <1>2 DEF NextFreeId
  <2> QED BY <1>2, <2>1
<1>3. CASE freed = {} /\ cursor > MaxId
  <2>1. PICK i \in Ids : intToMsgId[i] = NoMsg
    BY <1>3 DEF NextFreeId
  <2>2. i < cursor
    BY <1>3
  <2>3. intToMsgId[i] # NoMsg
    BY <1>3, <2>2
  <2> QED BY <2>1, <2>3
<1> QED BY <1>1, <1>2, <1>3

LEMMA IdsInitInv == IdsInit => IdsInv
BY MessageUniqueAssumption
   DEF IdsInit, IdsInv, IdsTypeOK, IdsOneToOne, IdsAccounted, Ids, Resolve

LEMMA AllocNewInv ==
    ASSUME IdsInv, NEW m \in Msgs, NEW peer \in BOOLEAN, AllocNew(m, peer)
    PROVE  IdsInv'
<1> USE MessageUniqueAssumption DEF IdsInv
<1>1. PICK id \in Ids, c \in 1 .. MaxId + 1 :
        /\ intToMsgId[id] = NoMsg
        /\ \A i \in Ids : i < c <=> (i < cursor \/ i = id)
        /\ msgIdToInt' = [msgIdToInt EXCEPT ![m] = id]
        /\ intToMsgId' = [intToMsgId EXCEPT ![id] = m]
        /\ cursor' = c
        /\ freed' = freed \ {id}
  BY NextFreeIdIsFree DEF AllocNew
<1>2. msgIdToInt[m] = 0 /\ withPeer' \subseteq Msgs
  BY DEF AllocNew, IdsTypeOK
<1>3. IdsTypeOK'
  BY <1>1, <1>2 DEF IdsTypeOK, Ids
<1>4. IdsOneToOne'
  <2>1. \A n \in Msgs : msgIdToInt[n] # id
    BY <1>1 DEF IdsOneToOne, Ids
  <2>2. \A i \in Ids : intToMsgId[i] # m
    BY <1>2 DEF IdsOneToOne, Ids
  <2>3. \A n \in Msgs : msgIdToInt'[n] = IF n = m THEN id ELSE msgIdToInt[n]
    BY <1>1 DEF IdsTypeOK
  <2>4. \A i \in Ids : intToMsgId'[i] = IF i = id THEN m ELSE intToMsgId[i]
    BY <1>1 DEF IdsTypeOK
  <2>5. \A n \in Msgs : msgIdToInt'[n] # 0 => intToMsgId'[msgIdToInt'[n]] = n
    BY <2>1, <2>3, <2>4 DEF IdsOneToOne, IdsTypeOK, Ids
  <2>6. \A i \in Ids : intToMsgId'[i] # NoMsg => msgIdToInt'[intToMsgId'[i]] = i
    BY <2>2, <2>3, <2>4 DEF IdsOneToOne, IdsTypeOK
  <2>7. ASSUME NEW n \in withPeer'
        PROVE  msgIdToInt'[n] # 0 /\ Resolve(msgIdToInt[n])' = n
    <3>1. n = m \/ (n \in withPeer /\ n \in Msgs)
      BY DEF AllocNew, IdsTypeOK
    <3>2. msgIdToInt'[n] # 0 /\ msgIdToInt'[n] \in Ids
      BY <1>2, <2>3, <3>1 DEF IdsOneToOne, IdsTypeOK, Ids
    <3>3. intToMsgId'[msgIdToInt'[n]] = n
      BY <1>2, <2>5, <3>1, <3>2
    <3> QED BY <3>2, <3>3 DEF Resolve
  <2> QED BY <2>5, <2>6, <2>7 DEF IdsOneToOne
<1>5. IdsAccounted'
  BY <1>1 DEF IdsAccounted, IdsTypeOK, Ids
<1> QED BY <1>3, <1>4, <1>5

LEMMA ReleaseInv ==
    ASSUME IdsInv, NEW m \in Msgs, Release(m)
    PROVE  IdsInv'
<1> USE MessageUniqueAssumption DEF IdsInv
<1>1. PICK id \in Ids :
        /\ msgIdToInt[m] = id /\ intToMsgId[id] = m
        /\ freed' = freed \cup {id}
        /\ intToMsgId' = [intToMsgId EXCEPT ![id] = NoMsg]
        /\ msgIdToInt' = [msgIdToInt EXCEPT ![m] = 0]
  <2>1. msgIdToInt[m] \in Ids /\ intToMsgId[msgIdToInt[m]] = m
    BY DEF Release, IdsTypeOK, IdsOneToOne, Ids
  <2> QED BY <2>1 DEF Release
<1>2. withPeer' = withPeer \ {m} /\ cursor' = cursor
  BY DEF Release
<1>3. \A n \in Msgs : msgIdToInt'[n] = IF n = m THEN 0 ELSE msgIdToInt[n]
  BY <1>1 DEF IdsTypeOK
<1>4. \A i \in Ids : intToMsgId'[i] = IF i = id THEN NoMsg ELSE intToMsgId[i]
  BY <1>1 DEF IdsTypeOK
<1>5. IdsTypeOK'
  <2>1. msgIdToInt' \in [Msgs -> 0 .. MaxId]
    BY <1>1 DEF IdsTypeOK
  <2>2. intToMsgId' \in [Ids -> Msgs \cup {NoMsg}]
    BY <1>1 DEF IdsTypeOK
  <2>3. withPeer' \subseteq Msgs /\ cursor' \in 1 .. MaxId + 1
    BY <1>2 DEF IdsTypeOK
  <2>4. freed' \subseteq Ids
    BY <1>1 DEF IdsTypeOK
  <2> QED BY <2>1, <2>2, <2>3, <2>4 DEF IdsTypeOK
<1>6. IdsOneToOne'
  <2>1. /\ \A n \in Msgs : msgIdToInt'[n] # 0 => intToMsgId'[msgIdToInt'[n]] = n
        /\ \A i \in Ids : intToMsgId'[i] # NoMsg => msgIdToInt'[intToMsgId'[i]] = i
    BY <1>1, <1>3, <1>4 DEF IdsOneToOne, IdsTypeOK, Ids
  <2>2. ASSUME NEW n \in withPeer'
        PROVE  msgIdToInt'[n] # 0 /\ Resolve(msgIdToInt[n])' = n
    <3>1. n # m /\ n \in withPeer /\ n \in Msgs
      BY <1>2 DEF IdsTypeOK
    <3>2. msgIdToInt'[n] # 0
      BY <1>3, <3>1 DEF IdsOneToOne
    <3>3. intToMsgId'[msgIdToInt'[n]] = n
      BY <2>1, <3>1, <3>2
    <3> QED BY <3>2, <3>3 DEF Resolve
  <2> QED BY <2>1, <2>2 DEF IdsOneToOne
<1>7. IdsAccounted'
  BY <1>1, <1>2, <1>4 DEF IdsAccounted, IdsTypeOK, IdsOneToOne, Ids
<1> QED BY <1>5, <1>6, <1>7

\* However many messages there are and wherever the ids end, an id that was
\* handed out denotes its message until it is released.
THEOREM IdsStayOneToOne == IdsSpec => []IdsOneToOne
<1>1. IdsInv /\ [IdsNext]_idVars => IdsInv'
  <2> SUFFICES ASSUME IdsInv, [IdsNext]_idVars PROVE IdsInv'
    OBVIOUS
  <2>1. ASSUME NEW m \in Msgs, AllocKnown(m) PROVE IdsInv'
    <3>1. IdsTypeOK' /\ IdsAccounted'
      BY <2>1 DEF AllocKnown, IdsInv, IdsTypeOK, IdsAccounted
    <3>2. intToMsgId[msgIdToInt[m]] = m
      BY <2>1 DEF AllocKnown, IdsInv, IdsOneToOne
    <3>3. ASSUME NEW n \in withPeer'
          PROVE  (msgIdToInt[n] # 0 /\ Resolve(msgIdToInt[n]) = n)'
      <4>1. msgIdToInt'[n] # 0 /\ intToMsgId'[msgIdToInt'[n]] = n
        BY <2>1, <3>2, <3>3 DEF AllocKnown, IdsInv, IdsTypeOK, IdsOneToOne
      <4> QED BY <3>3, <4>1 DEF Resolve
    <3>4. IdsOneToOne'
      BY <2>1, <3>3 DEF AllocKnown, IdsInv, IdsOneToOne
    <3> QED BY <3>1, <3>4 DEF IdsInv
  <2>2. ASSUME NEW m \in Msgs, NEW peer \in BOOLEAN, AllocNew(m, peer) PROVE IdsInv'
    BY <2>2, AllocNewInv
  <2>3. ASSUME NEW m \in Msgs, Release(m) PROVE IdsInv'
    BY <2>3, ReleaseInv
  <2>4. CASE UNCHANGED idVars
    BY <2>4 DEF idVars, IdsInv, IdsTypeOK, IdsOneToOne, IdsAccounted, Resolve
  <2> QED BY <2>1, <2>2, <2>3, <2>4 DEF IdsNext
<1>2. IdsInv => IdsOneToOne
  BY DEF IdsInv
<1> QED BY IdsInitInv, <1>1, <1>2, PTL DEF IdsSpec

-----------------------------------------------------------------------------
(***************************************************************************)
(* Transports. What is left of an adapter depends on how far its stop is   *)
(* and which adapters stopped before it (StopsInOrder); that the client    *)
(* dials again depends on the attempts being the failures in a row         *)
(* (AttemptsAreFailures).                                                  *)
(***************************************************************************)

\* What an adapter may be doing, by what the process does.
StageFollows ==
    /\ process = "starting" => stage \in {"idle", "opening", "dialling"}
    /\ process = "stopping" => stage \in {"idle", "closing"}
    /\ process \in {"ready", "exited"} => stage = "idle"
    /\ stage # "idle" => turn <= 3

\* A client that was closed holds nothing and is not armed; it is closed when
\* the first adapter stops and never before.
ClosedIsQuiet ==
    /\ closed => socket = "none" /\ ~retry
    /\ leaving => closed
    /\ process \in {"starting", "ready"} => ~closed
    /\ process = "stopping" /\ (turn > 1 \/ stage = "closing") => closed

\* The attempts are the failures, and the client lives while they are few.
AttemptsAreFailures ==
    /\ attempt = failures
    /\ socket # "none" \/ retry => attempt <= MaxAttempts
    /\ process = "ready" \/ (process = "starting" /\ turn > 1) =>
           socket # "none" \/ retry \/ attempt > MaxAttempts
    /\ process = "starting" /\ turn = 1 =>
           /\ attempt = 0 /\ ~retry
           /\ stage # "dialling" => socket = "none"

\* The adapter that stops now has unsubscribed and listens no more; those
\* before it are gone.
StopsInOrder ==
    process = "stopping" =>
        /\ stage = "closing" => Own \cap listening = {} /\ StartOrder[turn] \notin subscribed
        /\ \A i \in 1 .. 3 : i < turn =>
               /\ TransportsOf(StartOrder[i]) \cap (registered \cup listening) = {}
               /\ StartOrder[i] \notin subscribed

TransportInv ==
    /\ TransportTypeOK
    /\ StageFollows
    /\ ClosedIsQuiet
    /\ AttemptsAreFailures
    /\ StopsInOrder

LEMMA OrderIs ==
    /\ Len(StartOrder) = 3
    /\ StartOrder[1] = "onebot11" /\ StartOrder[2] = "satori" /\ StartOrder[3] = "milky"
    /\ \A i \in 1 .. 3 : /\ StartOrder[i] \in Protocols
                         /\ TransportsOf(StartOrder[i]) \subseteq Endpoints
                         /\ "obWsClient" \in TransportsOf(StartOrder[i]) <=> i = 1
<1>1. StartOrder[1] = "onebot11" /\ StartOrder[2] = "satori" /\ StartOrder[3] = "milky"
  BY DEF StartOrder
<1>2. /\ TransportsOf("onebot11") = {"obWsServer", "obWsClient"}
      /\ TransportsOf("satori") = {"saWsServer"}
      /\ TransportsOf("milky") = {"miHttpServer"}
  BY DEF TransportsOf
<1>3. \A i \in 1 .. 3 : i = 1 \/ i = 2 \/ i = 3
  OBVIOUS
<1>4. ASSUME NEW i \in 1 .. 3
      PROVE  /\ StartOrder[i] \in Protocols
             /\ TransportsOf(StartOrder[i]) \subseteq Endpoints
             /\ "obWsClient" \in TransportsOf(StartOrder[i]) <=> i = 1
  <2>1. CASE i = 1
    BY <1>1, <1>2, <2>1 DEF Protocols, Endpoints
  <2>2. CASE i = 2
    BY <1>1, <1>2, <2>2 DEF Protocols, Endpoints
  <2>3. CASE i = 3
    BY <1>1, <1>2, <2>3 DEF Protocols, Endpoints
  <2> QED
    BY <1>3, <2>1, <2>2, <2>3
<1> QED
  BY <1>1, <1>4 DEF StartOrder

LEMMA TransportInitially == TransportInit => TransportInv
<1> SUFFICES ASSUME TransportInit PROVE TransportInv
  OBVIOUS
<1>1. TransportTypeOK
  <2>1. attempt \in 0 .. MaxAttempts + 1 /\ losses \in 0 .. MaxLosses /\ failures \in Nat
    BY TransportAssumption DEF TransportInit
  <2>2. /\ registered \subseteq Endpoints /\ subscribed \subseteq Protocols
        /\ listening \subseteq Servers /\ clients \subseteq Servers
    BY DEF TransportInit
  <2>3. leaving \in BOOLEAN /\ retry \in BOOLEAN /\ closed \in BOOLEAN
    BY DEF TransportInit
  <2>4. /\ process = "starting" /\ turn \in 1 .. 4 /\ stage = "idle" /\ socket = "none"
    BY DEF TransportInit
  <2> QED
    BY <2>1, <2>2, <2>3, <2>4 DEF TransportTypeOK
<1>2. StageFollows /\ ClosedIsQuiet /\ StopsInOrder
  BY DEF TransportInit, StageFollows, ClosedIsQuiet, StopsInOrder
<1>3. AttemptsAreFailures
  BY DEF TransportInit, AttemptsAreFailures
<1> QED
  BY <1>1, <1>2, <1>3 DEF TransportInv

LEMMA TransportNextKeeps == TransportInv /\ [TransportNext]_transportVars => TransportInv'
<1> SUFFICES ASSUME TransportInv, [TransportNext]_transportVars PROVE TransportInv'
  OBVIOUS
<1> USE OrderIs, TransportAssumption
    DEF TransportInv, clientVars, endpointVars, Own
<1>1. CASE BeginStart
  BY <1>1 DEF BeginStart, TransportTypeOK, StageFollows, ClosedIsQuiet, AttemptsAreFailures,
              StopsInOrder
<1>2. CASE ServersListen
  <2>1. process = "starting" /\ turn \in 1 .. 3
    BY <1>2 DEF ServersListen, TransportTypeOK, StageFollows
  <2>2. socket' = IF turn = 1 THEN "connecting" ELSE socket
    BY <1>2, <2>1 DEF ServersListen
  <2>3. TransportTypeOK'
    BY <1>2, <2>1, <2>2 DEF ServersListen, TransportTypeOK
  <2>4. ~closed
    BY <2>1 DEF ClosedIsQuiet
  <2>5. attempt' <= MaxAttempts \/ (socket' = "none" /\ ~retry')
    BY <1>2, <2>1, <2>2, <2>4 DEF ServersListen, TransportTypeOK, AttemptsAreFailures
  <2> QED
    BY <1>2, <2>1, <2>2, <2>3, <2>4, <2>5
    DEF ServersListen, TransportTypeOK, StageFollows, ClosedIsQuiet, AttemptsAreFailures, StopsInOrder
<1>3. CASE Started
  BY <1>3 DEF Started, TransportTypeOK, StageFollows, ClosedIsQuiet, AttemptsAreFailures,
              StopsInOrder
<1>4. CASE StartFails \/ Exit
  BY <1>4 DEF StartFails, Exit, Dies, TransportTypeOK, StageFollows, ClosedIsQuiet,
              AttemptsAreFailures, StopsInOrder
<1>5. CASE AllStarted
  BY <1>5 DEF AllStarted, TransportTypeOK, StageFollows, ClosedIsQuiet, AttemptsAreFailures,
              StopsInOrder
<1>6. CASE ClientOpens
  BY <1>6 DEF ClientOpens, TransportTypeOK, StageFollows, ClosedIsQuiet, AttemptsAreFailures,
              StopsInOrder
<1>7. CASE SocketEnds
  <2>1. ~closed /\ stage # "dialling" /\ attempt <= MaxAttempts /\ losses < MaxLosses
    BY <1>7 DEF SocketEnds, ClosedIsQuiet, AttemptsAreFailures
  <2>2. /\ socket' = "none" /\ failures' = failures + 1 /\ losses' = losses + 1
        /\ attempt' = attempt + 1 /\ retry' = (attempt' <= MaxAttempts)
        /\ UNCHANGED <<process, turn, stage, registered, subscribed, listening, clients,
                       leaving, closed>>
    BY <1>7, <2>1 DEF SocketEnds, OnClose
  <2>3. TransportTypeOK'
    BY <2>1, <2>2 DEF TransportTypeOK
  <2>4. StageFollows' /\ ClosedIsQuiet'
    BY <2>1, <2>2 DEF StageFollows, ClosedIsQuiet
  <2>5. AttemptsAreFailures'
    <3>1. socket # "none" /\ attempt' = failures'
      BY <1>7, <2>2 DEF SocketEnds, AttemptsAreFailures
    <3>2. retry' => attempt' <= MaxAttempts
      BY <2>2
    <3>3. retry' \/ attempt' > MaxAttempts
      <4>1. attempt' \in Nat /\ MaxAttempts \in Nat
        BY <2>3, TransportAssumption DEF TransportTypeOK
      <4>2. attempt' <= MaxAttempts \/ attempt' > MaxAttempts
        BY <4>1
      <4> QED
        BY <2>2, <4>2
    <3>4. ~(process' = "starting" /\ turn' = 1)
      BY <2>1, <2>2, <3>1 DEF AttemptsAreFailures
    <3> QED
      BY <2>2, <3>1, <3>2, <3>3, <3>4 DEF AttemptsAreFailures
  <2>6. StopsInOrder'
    BY <2>2 DEF StopsInOrder
  <2> QED
    BY <2>3, <2>4, <2>5, <2>6
<1>8. CASE RetryFires
  BY <1>8 DEF RetryFires, TransportTypeOK, StageFollows, ClosedIsQuiet, AttemptsAreFailures,
              StopsInOrder
<1>9. CASE LateClose
  BY <1>9 DEF LateClose, TransportTypeOK, StageFollows, ClosedIsQuiet, AttemptsAreFailures,
              StopsInOrder
<1>10. CASE RequestShutdown
  BY <1>10 DEF RequestShutdown, TransportTypeOK, StageFollows, ClosedIsQuiet,
               AttemptsAreFailures, StopsInOrder
<1>11. CASE BeginStop
  <2>1. /\ process = "stopping" /\ turn \in 1 .. 3 /\ stage' = "closing"
        /\ subscribed' = subscribed \ {StartOrder[turn]} /\ listening' = listening \ Own
        /\ UNCHANGED <<process, turn, registered, clients, attempt, failures, losses>>
    BY <1>11 DEF BeginStop, TransportTypeOK
  <2>2. IF turn = 1 THEN closed' = TRUE /\ retry' = FALSE /\ leaving' \in BOOLEAN /\ socket' = "none"
                    ELSE UNCHANGED <<socket, leaving, retry, closed>>
    BY <1>11, <2>1 DEF BeginStop, CloseClient
  <2>3. turn # 1 => closed /\ turn > 1
    BY <2>1 DEF ClosedIsQuiet
  <2>4. TransportTypeOK'
    BY <2>1, <2>2 DEF TransportTypeOK
  <2>5. StageFollows' /\ ClosedIsQuiet'
    BY <2>1, <2>2, <2>3 DEF StageFollows, ClosedIsQuiet
  <2>6. AttemptsAreFailures'
    BY <2>1, <2>2 DEF AttemptsAreFailures
  <2>7. StopsInOrder'
    BY <2>1 DEF StopsInOrder
  <2> QED
    BY <2>4, <2>5, <2>6, <2>7
<1>12. CASE Stopped
  BY <1>12 DEF Stopped, TransportTypeOK, StageFollows, ClosedIsQuiet, AttemptsAreFailures,
               StopsInOrder
<1>13. ASSUME NEW t \in Servers, ClientConnects(t) \/ ClientLeaves(t) \/ ClosingEnds(t)
       PROVE  TransportInv'
  BY <1>13 DEF ClientConnects, ClientLeaves, ClosingEnds, TransportTypeOK, StageFollows,
               ClosedIsQuiet, AttemptsAreFailures, StopsInOrder
<1>14. CASE UNCHANGED transportVars
  BY <1>14 DEF transportVars, TransportTypeOK, StageFollows, ClosedIsQuiet,
               AttemptsAreFailures, StopsInOrder
<1> QED
  BY <1>1, <1>2, <1>3, <1>4, <1>5, <1>6, <1>7, <1>8, <1>9, <1>10, <1>11, <1>12, <1>13, <1>14
  DEF TransportNext

LEMMA TransportInvariance == TransportSpec => []TransportInv
  BY TransportInitially, TransportNextKeeps, PTL DEF TransportSpec

\* For any limits: an adapter that was stopped leaves no transport registered or
\* listening, no subscription, no connection and no reconnect.
THEOREM StopLeavesNothing == TransportSpec => []StoppedIsQuiet
<1>1. TransportInv => StoppedIsQuiet
  BY OrderIs DEF TransportInv, ClosedIsQuiet, StopsInOrder, StoppedIsQuiet, TransportTypeOK
<1> QED
  BY <1>1, TransportInvariance, PTL

\* For every maxAttempts, the client holds a connection or will make one until
\* more than that many failed in a row.
THEOREM ClientPersists == TransportSpec => []ReconnectsUntilLimit
<1>1. TransportInv => ReconnectsUntilLimit
  BY TransportAssumption
  DEF TransportInv, AttemptsAreFailures, ReconnectsUntilLimit, TransportTypeOK
<1> QED
  BY <1>1, TransportInvariance, PTL

-----------------------------------------------------------------------------
(***************************************************************************)
(* Requests. A handler is a set of plans, and the operators that plans are *)
(* built with (++, \cup, Opt, Some) keep a few classes of plans. So the    *)
(* classes of the kernel's APIs follow from their steps, those of the      *)
(* actions from the APIs they call, and the table of a protocol from its   *)
(* actions. The invariant then says what a request of that class can have  *)
(* done by now, and which steps it still has to take.                      *)
(***************************************************************************)

\* The steps that change nothing; those that never throw; those after which
\* a handler knows that QQ took what it asked for, or has thrown; those that
\* may throw although they made their change.
QuietActs == {"check", "read", "lenient", "refuse", "unbound"}
SafeActs == {"lenient", "fire"}
SureActs == {"check", "read", "lenient", "refuse", "unbound", "write", "confirmed"}
SendActs == {"confirmed", "sent"}
AllActs == SureActs \cup {"unchecked", "loose", "fire", "sent"}

\* Every plan of A is a finite sequence of steps of these kinds.
Over(A, S) == \E X : A \subseteq Seq(X) /\ \A x \in X : x.act \in S
Quiet(A) == Over(A, QuietActs)
Safe(A) == Over(A, SafeActs)
Sure(A) == Over(A, SureActs)

\* The first change of the plan is also the last step that may throw, and no
\* change is a send.
CleanPlan(p) ==
    \A i \in 1..Len(p) :
        /\ p[i].act \notin SendActs
        /\ p[i].act \notin QuietActs => \A j \in 1..Len(p) : i < j => p[j].act \in SafeActs

Clean(A) == Over(A, AllActs) /\ \A p \in A : CleanPlan(p)

\* The handler fails in its first step, before anything was asked of QQ: the
\* method of OneBotApi it uses as its dependency is not bound to its object.
Doomed(A) ==
    Over(A, AllActs) /\ \A p \in A : p # <<>> /\ Head(p).act = "unbound"

\* A sequence over a set is one over a larger set.
LEMMA SeqOfMore ==
    ASSUME NEW X, NEW Y, X \subseteq Y
    PROVE  Seq(X) \subseteq Seq(Y)
OBVIOUS

\* A plan of A ++ B is one of A, then one of B.
LEMMA ThenIsBoth ==
    ASSUME NEW A, NEW B, NEW p \in A ++ B
    PROVE  \E a \in A, b \in B : p = a \o b
BY DEF ++

\* One step, two handlers in a row, a choice of handlers, and no step at all
\* stay within the kinds of step of their parts.
LEMMA OverStep == ASSUME NEW S, NEW a \in S, NEW c PROVE Over(Step(a, c), S)
<1>1. Step(a, c) \subseteq Seq({[act |-> a, call |-> c]})
  BY DEF Step
<1>2. QED
  BY <1>1 DEF Over

LEMMA OverThen ==
    ASSUME NEW S, NEW A, NEW B, Over(A, S), Over(B, S)
    PROVE  Over(A ++ B, S)
<1>1. PICK X : A \subseteq Seq(X) /\ \A x \in X : x.act \in S
  BY DEF Over
<1>2. PICK Y : B \subseteq Seq(Y) /\ \A y \in Y : y.act \in S
  BY DEF Over
<1>3. A \subseteq Seq(X \cup Y) /\ B \subseteq Seq(X \cup Y)
  BY <1>1, <1>2, SeqOfMore
<1>4. \A a \in A, b \in B : a \o b \in Seq(X \cup Y)
  BY <1>3
<1>5. ASSUME NEW p \in A ++ B PROVE p \in Seq(X \cup Y)
  <2>1. PICK a \in A, b \in B : p = a \o b
    BY ThenIsBoth
  <2>2. QED
    BY <1>4, <2>1
<1>6. A ++ B \subseteq Seq(X \cup Y)
  BY <1>5
<1>7. QED
  BY <1>1, <1>2, <1>6 DEF Over

LEMMA OverEither ==
    ASSUME NEW S, NEW A, NEW B, Over(A, S), Over(B, S)
    PROVE  Over(A \cup B, S)
<1>1. PICK X : A \subseteq Seq(X) /\ \A x \in X : x.act \in S
  BY DEF Over
<1>2. PICK Y : B \subseteq Seq(Y) /\ \A y \in Y : y.act \in S
  BY DEF Over
<1>3. A \cup B \subseteq Seq(X \cup Y)
  BY <1>1, <1>2, SeqOfMore
<1>6. QED
  BY <1>1, <1>2, <1>3 DEF Over

LEMMA OverNothing == ASSUME NEW S PROVE Over(Nothing, S)
<1>1. Nothing \subseteq Seq({})
  BY DEF Nothing
<1>2. QED
  BY <1>1 DEF Over

\* A set of numbers that is not empty has a least one: the induction over
\* numbers that the lemmas about rounds need, as a fact about sets.
LEMMA LessIsWellFounded == IsWellFoundedOn({ss \in Nat \X Nat : ss[1] < ss[2]}, Nat)
BY NatLessThanWellFounded DEF OpToRel

LEMMA LeastNatural ==
    ASSUME NEW T, T \subseteq Nat, T # {}
    PROVE  \E m \in T : \A k \in T : m <= k
<1> DEFINE R == {ss \in Nat \X Nat : ss[1] < ss[2]}
<1>1. IsWellFoundedOn(R, Nat)
  BY LessIsWellFounded
<1> HIDE DEF R
<1>2. PICK m \in T : \A k \in T : ~ (<<k, m>> \in R)
  BY <1>1, WFMin
<1>3. ASSUME NEW k \in T PROVE m <= k
  <2>1. k \in Nat /\ m \in Nat /\ ~ (<<k, m>> \in R)
    BY <1>2
  <2>2. k < m => <<k, m>> \in R
    BY <2>1 DEF R
  <2>3. QED
    BY <2>1, <2>2
<1>4. QED
  BY <1>3

\* The function that RoundsOf chooses exists, for any number of rounds: the
\* least number for which it did not would have a predecessor to extend.
LEMMA RoundsExist ==
    ASSUME NEW A, NEW n \in Nat \ {0}
    PROVE  \E r : r = [k \in 1..n |-> IF k = 1 THEN A ELSE r[k - 1] ++ A]
<1> DEFINE Holds(k) == \E r : r = [i \in 1..k |-> IF i = 1 THEN A ELSE r[i - 1] ++ A]
           Missing == {k \in Nat \ {0} : ~Holds(k)}
<1>1. SUFFICES ASSUME Missing # {} PROVE FALSE
  OBVIOUS
<1>2. PICK m \in Missing : \A k \in Missing : m <= k
  <2>1. Missing \subseteq Nat
    OBVIOUS
  <2> HIDE DEF Missing
  <2>2. QED
    BY <1>1, <2>1, LeastNatural
<1>3. CASE m = 1
  <2>1. [i \in 1..1 |-> A] = [i \in 1..1 |-> IF i = 1 THEN A ELSE [j \in 1..1 |-> A][i - 1] ++ A]
    OBVIOUS
  <2>2. QED
    BY <1>3, <2>1
<1>4. CASE m # 1
  <2>1. m - 1 \in Nat \ {0} /\ m - 1 \notin Missing
    <3>1. m \in Nat \ {0}
      OBVIOUS
    <3> HIDE DEF Missing
    <3>2. QED
      BY <1>2, <1>4, <3>1
  <2>2. PICK r : r = [i \in 1..(m - 1) |-> IF i = 1 THEN A ELSE r[i - 1] ++ A]
    BY <2>1
  <2> DEFINE longer == [i \in 1..m |-> IF i = m THEN r[m - 1] ++ A ELSE r[i]]
  <2>3. ASSUME NEW i \in 1..m PROVE longer[i] = IF i = 1 THEN A ELSE longer[i - 1] ++ A
    <3>1. CASE i = m
      BY <1>4, <2>1, <3>1
    <3>2. CASE i # m
      <4>1. i \in 1..(m - 1) /\ longer[i] = r[i]
        BY <2>1, <3>2
      <4>2. r[i] = IF i = 1 THEN A ELSE r[i - 1] ++ A
        BY <2>2, <4>1
      <4>3. i # 1 => longer[i - 1] = r[i - 1]
        BY <2>1, <4>1
      <4>4. QED
        BY <4>1, <4>2, <4>3
    <3>3. QED
      BY <3>1, <3>2
  <2> HIDE DEF Missing
  <2>4. longer = [i \in 1..m |-> IF i = 1 THEN A ELSE longer[i - 1] ++ A]
    BY <2>3
  <2>5. Holds(m)
    BY <2>4
  <2>6. QED
    BY <1>2, <2>5 DEF Missing
<1>5. QED
  BY <1>3, <1>4

\* The rounds of a loop, one by one.
LEMMA RoundsAre ==
    ASSUME NEW A, NEW n \in 1..MaxRounds
    PROVE  RoundsOf(A)[n] = IF n = 1 THEN A ELSE RoundsOf(A)[n - 1] ++ A
<1>1. \E r : r = [k \in 1..MaxRounds |-> IF k = 1 THEN A ELSE r[k - 1] ++ A]
  BY RoundsAssumption, RoundsExist
<1>2. RoundsOf(A) = [k \in 1..MaxRounds |-> IF k = 1 THEN A ELSE RoundsOf(A)[k - 1] ++ A]
  BY <1>1 DEF RoundsOf
<1>3. QED
  BY <1>2

\* A loop stays within the kinds of step of its body, however many rounds it
\* may take.
LEMMA OverSome ==
    ASSUME NEW S, NEW A, Over(A, S)
    PROVE  Over(Some(A), S)
<1> DEFINE Bad == {n \in Nat : n \in 1..MaxRounds /\ ~Over(RoundsOf(A)[n], S)}
<1>1. ASSUME Bad # {} PROVE FALSE
  <2>1. PICK m \in Bad : \A n \in Bad : m <= n
    <3>1. Bad \subseteq Nat
      OBVIOUS
    <3> HIDE DEF Bad
    <3>2. QED
      BY <1>1, <3>1, LeastNatural
  <2>2. m \in 1..MaxRounds /\ ~Over(RoundsOf(A)[m], S) /\ MaxRounds \in Nat
    BY <2>1, RoundsAssumption
  <2>3. RoundsOf(A)[m] = IF m = 1 THEN A ELSE RoundsOf(A)[m - 1] ++ A
    BY <2>2, RoundsAre
  <2>4. CASE m = 1
    BY <2>2, <2>3, <2>4
  <2>5. CASE m # 1
    <3>1. m - 1 \in 1..MaxRounds /\ m - 1 \in Nat /\ m - 1 \notin Bad
      BY <2>1, <2>2, <2>5
    <3>2. Over(RoundsOf(A)[m - 1], S)
      BY <3>1
    <3>3. QED
      BY <2>2, <2>3, <2>5, <3>2, OverThen
  <2>6. QED
    BY <2>4, <2>5
<1>2. \A n \in 1..MaxRounds : Over(RoundsOf(A)[n], S)
  BY <1>1, RoundsAssumption
<1> HIDE DEF Bad
<1> DEFINE All == [n \in 1..MaxRounds |-> CHOOSE X : RoundsOf(A)[n] \subseteq Seq(X) /\ \A x \in X : x.act \in S]
           Every == UNION {All[n] : n \in 1..MaxRounds}
<1>3. \A n \in 1..MaxRounds : RoundsOf(A)[n] \subseteq Seq(All[n]) /\ \A x \in All[n] : x.act \in S
  BY <1>2 DEF Over
<1> HIDE DEF All
<1>4. \A x \in Every : x.act \in S
  BY <1>3
<1>5. ASSUME NEW p \in Some(A) PROVE p \in Seq(Every)
  <2>1. PICK n \in 1..MaxRounds : p \in RoundsOf(A)[n]
    BY DEF Some
  <2>2. p \in Seq(All[n]) /\ All[n] \subseteq Every
    BY <1>3, <2>1
  <2>3. QED
    BY <2>2, SeqOfMore
<1>6. QED
  BY <1>4, <1>5 DEF Over

\* More kinds of step allow more plans.
LEMMA OverMore ==
    ASSUME NEW S, NEW T, S \subseteq T, NEW A, Over(A, S)
    PROVE  Over(A, T)
BY DEF Over

\* A single step is clean, unless it is a send.
LEMMA CleanStep ==
    ASSUME NEW a \in AllActs \ SendActs, NEW c
    PROVE  Clean(Step(a, c))
<1>1. Over(Step(a, c), AllActs)
  BY OverStep
<1>2. ASSUME NEW p \in Step(a, c) PROVE CleanPlan(p)
  <2>1. p = <<[act |-> a, call |-> c]>>
    BY DEF Step
  <2>2. Len(p) = 1 /\ p[1].act = a
    BY <2>1
  <2>3. QED
    BY <2>2 DEF CleanPlan
<1>3. QED
  BY <1>1, <1>2 DEF Clean

\* Queries are clean.
LEMMA QuietIsClean == ASSUME NEW A, Quiet(A) PROVE Clean(A)
<1>1. PICK X : A \subseteq Seq(X) /\ \A x \in X : x.act \in QuietActs
  BY DEF Quiet, Over
<1>2. Over(A, AllActs)
  BY OverMore DEF Quiet, QuietActs, SureActs, AllActs
<1>3. ASSUME NEW p \in A PROVE CleanPlan(p)
  <2>1. \A i \in 1..Len(p) : p[i].act \in QuietActs
    BY <1>1
  <2>2. QED
    BY <2>1 DEF CleanPlan, QuietActs, SendActs
<1>4. QED
  BY <1>2, <1>3 DEF Clean

\* Two clean handlers in a row are clean when the first changes nothing, or
\* the second cannot throw.
LEMMA CleanThen ==
    ASSUME NEW A, NEW B, Clean(A), Clean(B), Quiet(A) \/ Safe(B)
    PROVE  Clean(A ++ B)
<1>1. Over(A ++ B, AllActs)
  BY OverThen DEF Clean
<1>2. PICK X : A \subseteq Seq(X) /\ B \subseteq Seq(X)
  <2>1. PICK Y : A \subseteq Seq(Y)
    BY DEF Clean, Over
  <2>2. PICK Z : B \subseteq Seq(Z)
    BY DEF Clean, Over
  <2>3. A \subseteq Seq(Y \cup Z) /\ B \subseteq Seq(Y \cup Z)
    BY <2>1, <2>2, SeqOfMore
  <2>4. QED
    BY <2>3
<1>3. ASSUME NEW a \in A, NEW b \in B PROVE CleanPlan(a \o b)
  <2>1. a \in Seq(X) /\ b \in Seq(X) /\ CleanPlan(a) /\ CleanPlan(b)
    BY <1>2 DEF Clean
  <2>2. /\ \A i \in 1..Len(a) : a[i].act \in QuietActs
        \/ \A j \in 1..Len(b) : b[j].act \in SafeActs
    <3>1. CASE Quiet(A)
      BY <3>1 DEF Quiet, Over
    <3>2. CASE Safe(B)
      BY <3>2 DEF Safe, Over
    <3>3. QED
      BY <3>1, <3>2
  <2> DEFINE p == a \o b
  <2>3. /\ Len(p) = Len(a) + Len(b)
        /\ \A i \in 1..Len(a) : p[i] = a[i]
        /\ \A j \in 1..Len(b) : p[j + Len(a)] = b[j]
    BY <2>1
  <2>4. Len(a) \in Nat /\ Len(b) \in Nat
    BY <2>1
  <2>5. ASSUME NEW i \in 1..Len(p) PROVE
            \/ i \in 1..Len(a) /\ p[i] = a[i]
            \/ i - Len(a) \in 1..Len(b) /\ p[i] = b[i - Len(a)]
    BY <2>3, <2>4
  <2> HIDE DEF p
  <2>6. ASSUME NEW i \in 1..Len(p) PROVE p[i].act \notin SendActs
    BY <2>1, <2>5 DEF CleanPlan
  <2>7. ASSUME NEW i \in 1..Len(p), p[i].act \notin QuietActs, NEW j \in 1..Len(p), i < j
        PROVE  p[j].act \in SafeActs
    <3>1. CASE i \in 1..Len(a) /\ p[i] = a[i] /\ j \in 1..Len(a) /\ p[j] = a[j]
      BY <2>1, <2>7, <3>1 DEF CleanPlan
    <3>2. CASE i \in 1..Len(a) /\ p[i] = a[i] /\ j - Len(a) \in 1..Len(b) /\ p[j] = b[j - Len(a)]
      BY <2>2, <2>7, <3>2
    <3>3. CASE i - Len(a) \in 1..Len(b) /\ p[i] = b[i - Len(a)] /\ j - Len(a) \in 1..Len(b) /\ p[j] = b[j - Len(a)]
      <4>1. i - Len(a) < j - Len(a)
        BY <2>3, <2>4, <2>7
      <4>2. QED
        BY <2>1, <2>7, <3>3, <4>1 DEF CleanPlan
    <3>4. QED
      BY <2>3, <2>4, <2>5, <2>7, <3>1, <3>2, <3>3
  <2>8. QED
    BY <2>6, <2>7 DEF CleanPlan, p
<1>4. ASSUME NEW p \in A ++ B PROVE CleanPlan(p)
  <2>1. PICK a \in A, b \in B : p = a \o b
    BY ThenIsBoth
  <2>2. QED
    BY <1>3, <2>1
<1>5. QED
  BY <1>1, <1>4 DEF Clean

\* So is a choice of two.
LEMMA CleanEither ==
    ASSUME NEW A, NEW B, Clean(A), Clean(B)
    PROVE  Clean(A \cup B)
BY OverEither DEF Clean

\* The rules by which the classes of handlers below follow from their parts.
LEMMA QuietRules ==
    /\ Quiet(Nothing) /\ Quiet(Check)
    /\ \A c : Quiet(Read(c)) /\ Quiet(Lenient(c)) /\ Quiet(Unbound(c))
    /\ \A c : Quiet(Step("refuse", c))
    /\ \A A, B : Quiet(A) /\ Quiet(B) => Quiet(A ++ B) /\ Quiet(A \cup B)
    /\ \A A : Quiet(A) => Quiet(Opt(A)) /\ Quiet(Some(A))
<1>1. Quiet(Nothing)
  BY OverNothing DEF Quiet
<1>2. /\ Quiet(Check)
      /\ \A c : Quiet(Read(c)) /\ Quiet(Lenient(c)) /\ Quiet(Unbound(c))
      /\ \A c : Quiet(Step("refuse", c))
  BY OverStep DEF Quiet, QuietActs, Check, Read, Lenient, Unbound
<1>3. \A A, B : Quiet(A) /\ Quiet(B) => Quiet(A ++ B) /\ Quiet(A \cup B)
  BY OverThen, OverEither DEF Quiet
<1>4. \A A : Quiet(A) => Quiet(Some(A))
  BY OverSome DEF Quiet
<1>5. QED
  BY <1>1, <1>2, <1>3, <1>4 DEF Opt

LEMMA SureRules ==
    /\ \A A : Quiet(A) => Sure(A)
    /\ \A c : Sure(Change(c)) /\ Sure(Confirmed(c))
    /\ \A A, B : Sure(A) /\ Sure(B) => Sure(A ++ B) /\ Sure(A \cup B)
    /\ \A A : Sure(A) => Sure(Opt(A)) /\ Sure(Some(A))
<1>1. \A A : Quiet(A) => Sure(A)
  BY OverMore DEF Quiet, Sure, QuietActs, SureActs
<1>2. \A c : Sure(Change(c)) /\ Sure(Confirmed(c))
  BY OverStep DEF Sure, SureActs, Change, Confirmed
<1>3. \A A, B : Sure(A) /\ Sure(B) => Sure(A ++ B) /\ Sure(A \cup B)
  BY OverThen, OverEither DEF Sure
<1>4. Sure(Nothing)
  BY OverNothing DEF Sure
<1>5. \A A : Sure(A) => Sure(Some(A))
  BY OverSome DEF Sure
<1>6. QED
  BY <1>1, <1>2, <1>3, <1>4, <1>5 DEF Opt

LEMMA CleanRules ==
    /\ \A A : Quiet(A) => Clean(A)
    /\ \A c : Clean(Change(c)) /\ Clean(Loose(c)) /\ Clean(Unchecked(c)) /\ Clean(Fire(c))
    /\ \A c : Safe(Fire(c)) /\ Safe(Opt(Fire(c)))
    /\ \A A, B : Clean(A) /\ Clean(B) /\ Quiet(A) => Clean(A ++ B)
    /\ \A A, B : Clean(A) /\ Clean(B) /\ Safe(B) => Clean(A ++ B)
    /\ \A A, B : Clean(A) /\ Clean(B) => Clean(A \cup B)
    /\ \A A : Clean(A) => Clean(Opt(A))
<1>1. \A A : Quiet(A) => Clean(A)
  BY QuietIsClean
<1>2. \A c : Clean(Change(c)) /\ Clean(Loose(c)) /\ Clean(Unchecked(c)) /\ Clean(Fire(c))
  BY CleanStep DEF SureActs, AllActs, SendActs, Change, Loose, Unchecked, Fire
<1>3. \A c : Safe(Fire(c)) /\ Safe(Opt(Fire(c)))
  BY OverStep, OverNothing, OverEither DEF Safe, SafeActs, Fire, Opt
<1>4. \A A, B : Clean(A) /\ Clean(B) => Clean(A \cup B)
  BY CleanEither
<1>5. Clean(Nothing)
  BY <1>1, QuietRules
<1>6. QED
  BY <1>1, <1>2, <1>3, <1>4, <1>5, CleanThen DEF Opt

\* What begins with a method that is not bound is doomed.
LEMMA DoomedRule ==
    ASSUME NEW c, NEW B, Over(B, AllActs)
    PROVE  Doomed(Unbound(c) ++ B)
<1>1. Over(Unbound(c) ++ B, AllActs)
  BY OverStep, OverThen DEF Unbound, AllActs, SureActs
<1>2. ASSUME NEW p \in Unbound(c) ++ B PROVE p # <<>> /\ Head(p).act = "unbound"
  <2>1. PICK a \in Unbound(c), b \in B : p = a \o b
    BY ThenIsBoth
  <2>2. PICK X : b \in Seq(X)
    BY DEF Over
  <2> DEFINE Y == X \cup {[act |-> "unbound", call |-> c]}
  <2>3. a = <<[act |-> "unbound", call |-> c]>> /\ a \in Seq(Y) /\ b \in Seq(Y)
    <3>1. a = <<[act |-> "unbound", call |-> c]>>
      BY DEF Unbound, Step
    <3>2. b \in Seq(Y)
      BY <2>2, SeqOfMore
    <3>3. QED
      BY <3>1, <3>2
  <2>4. p \in Seq(Y) /\ Len(p) > 0 /\ p[1] = a[1]
    BY <2>1, <2>3
  <2>5. QED
    BY <2>3, <2>4
<1>3. QED
  BY <1>1, <1>2 DEF Doomed

\* The kernel's APIs that only ask.
LEMMA KernelQueries ==
    /\ Quiet(GetGroupListApi) /\ Quiet(GetGroupInfoApi) /\ Quiet(GetGroupMemberListApi)
    /\ Quiet(GetGroupMemberInfoApi) /\ Quiet(UinToUid) /\ Quiet(UidToUin)
    /\ Quiet(GetGroupAnnouncementsApi) /\ Quiet(GetGroupRemainAtTimes)
    /\ Quiet(GetSingleScreenNotifies) /\ Quiet(GetGroupShutUpMemberList)
    /\ Quiet(GetBuddyCategories) /\ Quiet(GetFriendListApi)
    /\ Quiet(GetFriendCategories) /\ Quiet(GetBuddyReqList)
    /\ Quiet(GetDoubtFriendRequest) /\ Quiet(GetStrangerInfoApi)
    /\ Quiet(GetPinnedContacts) /\ Quiet(TranslateWords) /\ Quiet(GetGroupFileList)
    /\ Quiet(GetGroupFileSystemInfo) /\ Quiet(GetGroupFileDownloadUrl)
    /\ Quiet(GetClientKey) /\ Quiet(GetCookiesApi) /\ Quiet(GetEssenceMsgList)
    /\ Quiet(GetGroupHonorInfoApi) /\ Quiet(PrepareSendElements) /\ Quiet(FetchMessages)
    /\ Quiet(FetchMsgsByMsgId) /\ Quiet(FetchPttText) /\ Quiet(PttElementOf)
    /\ Quiet(DownloadPtt) /\ Quiet(QueryFavEmojis) /\ Quiet(FetchForwardMessage)
    /\ Quiet(CachedMembers) /\ Quiet(CachedDetail) /\ Quiet(CachedMember)
    /\ Quiet(CachedGroups)
BY QuietRules
  DEF GetGroupListApi, GetGroupInfoApi, GetGroupMemberListApi, GetGroupMemberInfoApi,
      UinToUid, UidToUin, GetGroupAnnouncementsApi, GetGroupRemainAtTimes,
      GetSingleScreenNotifies, GetGroupShutUpMemberList, GetBuddyCategories,
      GetFriendListApi, GetFriendCategories, GetBuddyReqList, GetDoubtFriendRequest,
      GetStrangerInfoApi, GetPinnedContacts, TranslateWords, GetGroupFileList,
      GetGroupFileSystemInfo, GetGroupFileDownloadUrl, GetClientKey, GetCookiesApi,
      GetEssenceMsgList, GetGroupHonorInfoApi, PrepareSendElements, FetchMessages,
      FetchMsgsByMsgId, FetchPttText, PttElementOf, DownloadPtt, QueryFavEmojis,
      FetchForwardMessage, CachedMembers, CachedDetail, CachedMember, CachedGroups

\* The kernel's APIs that change something: each is one native call, preceded
\* by checks and look-ups only.
LEMMA KernelChanges ==
    /\ Sure(KickMember) /\ Sure(SetMemberShutUp) /\ Sure(SetGroupShutUp)
    /\ Sure(ModifyGroupName) /\ Sure(QuitGroupApi) /\ Sure(SetHeader) /\ Sure(SendLikeApi)
    /\ Sure(CreateGroupFolderApi) /\ Sure(DeleteGroupFileApi)
    /\ Sure(DeleteGroupFolderApi) /\ Sure(MoveGroupFileApi) /\ Sure(TransGroupFileApi)
    /\ Sure(SendMessageApi) /\ Sure(RecallMessage) /\ Sure(SetMsgEmojiLikeApi)
    /\ Sure(MarkRead) /\ Sure(SetOnlineStatusApi)
    /\ Clean(KickMember) /\ Clean(SetMemberShutUp) /\ Clean(SetGroupShutUp)
    /\ Clean(SetMemberRole) /\ Clean(SetMemberCardName) /\ Clean(ModifyGroupName)
    /\ Clean(QuitGroupApi) /\ Clean(SetEssence) /\ Clean(UploadBulletinPic)
    /\ Clean(DeleteGroupAnnouncementApi) /\ Clean(SetMemberSpecialTitle)
    /\ Clean(SetGroupAvatarApi) /\ Clean(HandleGroupRequest)
    /\ Clean(HandleFriendRequest) /\ Clean(SetFriendRemarkApi) /\ Clean(DeleteFriendApi)
    /\ Clean(HandleDoubtFriendRequest) /\ Clean(SetLongNick) /\ Clean(SetNickName)
    /\ Clean(SetHeader) /\ Clean(SendLikeApi) /\ Clean(CreateGroupFolderApi)
    /\ Clean(DeleteGroupFileApi) /\ Clean(DeleteGroupFolderApi)
    /\ Clean(RenameGroupFileApi) /\ Clean(MoveGroupFileApi)
    /\ Clean(RenameGroupFolderApi) /\ Clean(TransGroupFileApi) /\ Clean(RecallMessage)
    /\ Clean(SetMsgEmojiLikeApi) /\ Clean(MarkRead) /\ Clean(SetInputStatusApi)
    /\ Clean(SendNudge) /\ Clean(SetContactTop) /\ Clean(SetOnlineStatusApi)
BY KernelQueries, QuietRules, SureRules, CleanRules
  DEF KickMember, SetMemberShutUp, SetGroupShutUp, SetMemberRole, SetMemberCardName,
      ModifyGroupName, QuitGroupApi, SetEssence, UploadBulletinPic,
      DeleteGroupAnnouncementApi, SetMemberSpecialTitle,
      SetGroupAvatarApi, HandleGroupRequest, HandleFriendRequest, SetFriendRemarkApi,
      DeleteFriendApi, HandleDoubtFriendRequest, SetLongNick, SetNickName, SetHeader,
      SendLikeApi, CreateGroupFolderApi, DeleteGroupFileApi, DeleteGroupFolderApi,
      RenameGroupFileApi, MoveGroupFileApi, RenameGroupFolderApi, TransGroupFileApi,
      SendMessageApi, RecallMessage, SetMsgEmojiLikeApi, MarkRead, SetInputStatusApi,
      SendNudge, SetContactTop, SetOnlineStatusApi

\* The actions of OneBot 11 that only ask, and what they share.
LEMMA OneBotQueries ==
    /\ Quiet(ResolveMsgIdAndPeer) /\ Quiet(ResolveUid) /\ Quiet(ResolveUidUnbound)
    /\ Quiet(ResolveTargetPeer) /\ Quiet(FetchMsgById) /\ Quiet(UidsToUins)
    /\ Quiet(GroupMemberRole) /\ Quiet(GroupMemberRoles) /\ Quiet(EnsureVoiceSilk)
    /\ Quiet(GetMsg) /\ Quiet(FetchAndTranslateHistory) /\ Quiet(GetGroupMsgHistory)
    /\ Quiet(GetFriendMsgHistory) /\ Quiet(FetchPttTextAction)
    /\ Quiet(DownloadImageToCache) /\ Quiet(ResolveMedia) /\ Quiet(GetImage)
    /\ Quiet(GetRecord) /\ Quiet(GetForwardMsg) /\ Quiet(GetEssenceMsgListAction)
    /\ Quiet(GetGroupAddRequest) /\ Quiet(GetGroupIgnoredNotifies)
    /\ Quiet(GetGroupAtAllRemain) /\ Quiet(GetGroupHonorInfo) /\ Quiet(GetGroupInfo)
    /\ Quiet(GetGroupList) /\ Quiet(ResolveMember) /\ Quiet(GetGroupMemberInfo)
    /\ Quiet(GetGroupMemberList) /\ Quiet(GetGroupShutList) /\ Quiet(GetGroupSystemMsg)
    /\ Quiet(FindNotify) /\ Quiet(GetGroupRootFiles) /\ Quiet(GetGroupFilesByFolder)
    /\ Quiet(GetGroupFileSystemInfoAction) /\ Quiet(GetDoubtFriendsAddRequest)
    /\ Quiet(GetFriendList) /\ Quiet(GetFriendsWithCategory) /\ Quiet(GetStrangerInfo)
    /\ Quiet(CanSendImage) /\ Quiet(CanSendRecord) /\ Quiet(DownloadFileAction)
    /\ Quiet(GetClientkey) /\ Quiet(GetCookies) /\ Quiet(GetCsrfToken)
    /\ Quiet(GetCredentials) /\ Quiet(GetLoginInfo) /\ Quiet(GetRobotUinRange)
    /\ Quiet(GetStatus) /\ Quiet(GetVersionInfo) /\ Quiet(DownloadToCache)
    /\ Quiet(TranslateEn2Zh)
BY KernelQueries, QuietRules
  DEF ResolveMsgIdAndPeer, ResolveUid, ResolveUidUnbound, ResolveTargetPeer,
      FetchMsgById, UidsToUins, GroupMemberRole, GroupMemberRoles, EnsureVoiceSilk,
      GetMsg, FetchAndTranslateHistory, GetGroupMsgHistory, GetFriendMsgHistory,
      FetchPttTextAction, DownloadImageToCache, ResolveMedia, GetImage, GetRecord,
      GetForwardMsg, GetEssenceMsgListAction, GetGroupAddRequest,
      GetGroupIgnoredNotifies, GetGroupAtAllRemain, GetGroupHonorInfo, GetGroupInfo,
      GetGroupList, ResolveMember, GetGroupMemberInfo, GetGroupMemberList,
      GetGroupShutList, GetGroupSystemMsg, FindNotify, GetGroupRootFiles,
      GetGroupFilesByFolder, GetGroupFileSystemInfoAction, GetDoubtFriendsAddRequest,
      GetFriendList, GetFriendsWithCategory, GetStrangerInfo, CanSendImage,
      CanSendRecord, DownloadFileAction, GetClientkey, GetCookies, GetCsrfToken,
      GetCredentials, GetLoginInfo, GetRobotUinRange, GetStatus, GetVersionInfo,
      DownloadToCache, TranslateEn2Zh

\* A merged forward, which is neither sure nor clean, is made of known steps.
LEMMA ForwardIsOver == Over(SendForward, AllActs)
<1>1. \A c : Over(Sent(c), AllActs) /\ Over(Check, AllActs) /\ Over(Read(c), AllActs)
  BY OverStep DEF AllActs, SureActs, Sent, Check, Read
<1>2. QED
  BY <1>1, OverThen DEF SendForward, SendForwardMessage

\* Its actions on messages, on groups, on files and friends, and on the account.
LEMMA OneBotMessages ==
    /\ Sure(SendOb11Message) /\ Sure(SendMsg) /\ Sure(SendPrivateMsg)
    /\ Sure(SendGroupMsg) /\ Sure(DeleteMsg) /\ Sure(MarkMsgAsRead)
    /\ Sure(MarkPrivateMsgAsRead) /\ Sure(MarkGroupMsgAsRead) /\ Sure(SetMsgEmojiLike)
    /\ Clean(DeleteMsg) /\ Clean(MarkMsgAsRead) /\ Clean(MarkPrivateMsgAsRead)
    /\ Clean(MarkGroupMsgAsRead) /\ Clean(SetMsgEmojiLike) /\ Clean(SetInputStatus)
BY KernelQueries, KernelChanges, OneBotQueries, QuietRules, SureRules, CleanRules
  DEF SendOb11Message, SendMsg, SendPrivateMsg, SendGroupMsg, DeleteMsg, MarkMsgAsRead,
      MarkPrivateMsgAsRead, MarkGroupMsgAsRead, SetMsgEmojiLike, SetInputStatus

LEMMA OneBotGroups ==
    /\ Sure(SetGroupBan) /\ Sure(SetGroupKick) /\ Sure(SetGroupLeave)
    /\ Sure(SetGroupName) /\ Sure(SetGroupWholeBan)
    /\ Clean(OperateEssence) /\ Clean(SetEssenceMsg) /\ Clean(DeleteEssenceMsg)
    /\ Clean(SetGroupAddRequest) /\ Clean(SetGroupAdmin) /\ Clean(SetGroupBan)
    /\ Clean(SetGroupCard) /\ Clean(SetGroupKick) /\ Clean(SetGroupLeave)
    /\ Clean(SetGroupName) /\ Clean(SetGroupWholeBan)
BY KernelQueries, KernelChanges, OneBotQueries, QuietRules, SureRules, CleanRules
  DEF OperateEssence, SetEssenceMsg, DeleteEssenceMsg, SetGroupAddRequest,
      SetGroupAdmin, SetGroupBan, SetGroupCard, SetGroupKick, SetGroupLeave,
      SetGroupName, SetGroupWholeBan

LEMMA OneBotFilesAndFriends ==
    /\ Sure(CreateGroupFileFolder) /\ Sure(DeleteGroupFile) /\ Sure(DeleteGroupFolder)
    /\ Sure(MoveGroupFile) /\ Sure(TransGroupFile) /\ Sure(SendLike)
    /\ Clean(CreateGroupFileFolder) /\ Clean(DeleteGroupFile)
    /\ Clean(DeleteGroupFolder) /\ Clean(RenameGroupFile) /\ Clean(MoveGroupFile)
    /\ Clean(TransGroupFile) /\ Clean(DeleteFriend) /\ Clean(SendLike)
    /\ Clean(SetDoubtFriendsAddRequest) /\ Clean(SetFriendRemark)
BY KernelQueries, KernelChanges, OneBotQueries, QuietRules, SureRules, CleanRules
  DEF CreateGroupFileFolder, DeleteGroupFile, DeleteGroupFolder, RenameGroupFile,
      MoveGroupFile, TransGroupFile, DeleteFriend, SendLike, SetDoubtFriendsAddRequest,
      SetFriendRemark

LEMMA OneBotSystem ==
    /\ Sure(CleanCache) /\ Sure(BotExit) /\ Sure(SetRestart) /\ Sure(SetQQAvatar)
    /\ Sure(SetDiyOnlineStatus) /\ Sure(SetOnlineStatus)
    /\ Clean(CleanCache) /\ Clean(BotExit) /\ Clean(SetRestart)
    /\ Clean(SetSelfLongnick) /\ Clean(SetQQAvatar) /\ Clean(SetDiyOnlineStatus)
    /\ Clean(SetOnlineStatus)
BY KernelQueries, KernelChanges, OneBotQueries, QuietRules, SureRules, CleanRules
  DEF CleanCache, BotExit, SetRestart, SetSelfLongnick, SetQQAvatar,
      SetDiyOnlineStatus, SetOnlineStatus

\* The actions of Milky that only ask, and what they share.
LEMMA MilkyQueries ==
    /\ Quiet(ResolveUidFromUin) /\ Quiet(ResolvePeer) /\ Quiet(ResolveMsgIdBySeq)
    /\ Quiet(ResolveSentOutput) /\ Quiet(FindGroupNotify) /\ Quiet(FindBuddyReq)
    /\ Quiet(ResolveMediaUri) /\ Quiet(ResolveUriToPath) /\ Quiet(ResolveAtUins)
    /\ Quiet(ResolveElement) /\ Quiet(ResolveElements) /\ Quiet(NarrowForwardMessages)
    /\ Quiet(TranslateWithEntities) /\ Quiet(LoadGroupData) /\ Quiet(ResolveAnchor)
    /\ Quiet(SenderNameOf) /\ Quiet(GetMessage) /\ Quiet(GetHistoryMessages)
    /\ Quiet(GetForwardedMessages) /\ Quiet(GetCustomFaceUrlList)
    /\ Quiet(GetResourceTempUrl) /\ Quiet(MembersOf) /\ Quiet(MemberOf)
    /\ Quiet(RequireSelfUid) /\ Quiet(SenderUinOf) /\ Quiet(CollectUidToUin)
    /\ Quiet(MilkyGetGroupInfo) /\ Quiet(MilkyGetGroupMemberList)
    /\ Quiet(MilkyGetGroupMemberInfo) /\ Quiet(GetGroupEssenceMessages)
    /\ Quiet(GetGroupNotifications) /\ Quiet(GetGroupAnnouncements)
    /\ Quiet(GetGroupFiles) /\ Quiet(GetGroupFileDownload)
    /\ Quiet(PinnedFriendEntities) /\ Quiet(PinnedGroupEntities)
    /\ Quiet(MilkyGetFriendList) /\ Quiet(MilkyGetGroupList) /\ Quiet(GetFriendRequests)
    /\ Quiet(GetPeerPins) /\ Quiet(GetUserProfile) /\ Quiet(GetFriendInfo)
    /\ Quiet(MilkyGetCookies) /\ Quiet(GetCSRFToken) /\ Quiet(MilkyGetLoginInfo)
    /\ Quiet(GetImplInfo)
BY KernelQueries, QuietRules
  DEF ResolveUidFromUin, ResolvePeer, ResolveMsgIdBySeq, ResolveSentOutput,
      FindGroupNotify, FindBuddyReq, ResolveMediaUri, ResolveUriToPath, ResolveAtUins,
      ResolveElement, ResolveElements, NarrowForwardMessages, TranslateWithEntities,
      LoadGroupData, ResolveAnchor, SenderNameOf, GetMessage, GetHistoryMessages,
      GetForwardedMessages, GetCustomFaceUrlList, GetResourceTempUrl, MembersOf,
      MemberOf, RequireSelfUid, SenderUinOf, CollectUidToUin, MilkyGetGroupInfo,
      MilkyGetGroupMemberList, MilkyGetGroupMemberInfo, GetGroupEssenceMessages,
      GetGroupNotifications, GetGroupAnnouncements, GetGroupFiles, GetGroupFileDownload,
      PinnedFriendEntities, PinnedGroupEntities, MilkyGetFriendList, MilkyGetGroupList,
      GetFriendRequests, GetPeerPins, GetUserProfile, GetFriendInfo, MilkyGetCookies,
      GetCSRFToken, MilkyGetLoginInfo, GetImplInfo

\* The actions of Milky that change something.
LEMMA MilkyChanges ==
    /\ Sure(RecallBySeq) /\ Sure(SendFileMessage) /\ Sure(RecallPrivateMessage)
    /\ Sure(RecallGroupMessage) /\ Sure(MarkMessageAsRead) /\ Sure(UploadPrivateFile)
    /\ Sure(MilkySetGroupName) /\ Sure(SetGroupMemberMute) /\ Sure(SetGroupWholeMute)
    /\ Sure(KickGroupMember) /\ Sure(QuitGroup) /\ Sure(SendGroupMessageReaction)
    /\ Sure(MilkyMoveGroupFile) /\ Sure(MilkyDeleteGroupFile) /\ Sure(PersistGroupFile)
    /\ Sure(CreateGroupFolder) /\ Sure(MilkyDeleteGroupFolder) /\ Sure(UploadGroupFile)
    /\ Sure(SendProfileLike) /\ Sure(SetAvatar)
    /\ Clean(RecallTempMessages) /\ Clean(RecallBySeq) /\ Clean(RecallPrivateMessage)
    /\ Clean(RecallGroupMessage) /\ Clean(MarkMessageAsRead) /\ Clean(MilkySetGroupName)
    /\ Clean(SetGroupMemberCard) /\ Clean(SetGroupMemberAdmin)
    /\ Clean(SetGroupMemberMute) /\ Clean(SetGroupWholeMute) /\ Clean(KickGroupMember)
    /\ Clean(QuitGroup) /\ Clean(SetGroupEssenceMessage)
    /\ Clean(SendGroupMessageReaction) /\ Clean(RespondGroupNotify)
    /\ Clean(AcceptGroupRequest) /\ Clean(RejectGroupRequest)
    /\ Clean(AcceptGroupInvitation) /\ Clean(RejectGroupInvitation)
    /\ Clean(SendGroupNudge) /\ Clean(DeleteGroupAnnouncement) /\ Clean(SetGroupAvatar)
    /\ Clean(SetGroupMemberSpecialTitle) /\ Clean(MilkyMoveGroupFile)
    /\ Clean(MilkyRenameGroupFile) /\ Clean(MilkyDeleteGroupFile)
    /\ Clean(PersistGroupFile) /\ Clean(CreateGroupFolder)
    /\ Clean(MilkyDeleteGroupFolder) /\ Clean(RenameGroupFolder)
    /\ Clean(SendProfileLike) /\ Clean(MilkyDeleteFriend) /\ Clean(RespondFriendRequest)
    /\ Clean(SendFriendNudge) /\ Clean(SetPeerPin) /\ Clean(SetAvatar)
    /\ Clean(SetNickname) /\ Clean(SetBio)
BY KernelQueries, KernelChanges, MilkyQueries, QuietRules, SureRules, CleanRules
  DEF RecallTempMessages, RecallBySeq, SendFileMessage, RecallPrivateMessage,
      RecallGroupMessage, MarkMessageAsRead, UploadPrivateFile, MilkySetGroupName,
      SetGroupMemberCard, SetGroupMemberAdmin, SetGroupMemberMute, SetGroupWholeMute,
      KickGroupMember, QuitGroup, SetGroupEssenceMessage, SendGroupMessageReaction,
      RespondGroupNotify, AcceptGroupRequest, RejectGroupRequest, AcceptGroupInvitation,
      RejectGroupInvitation, SendGroupNudge,
      DeleteGroupAnnouncement, SetGroupAvatar, SetGroupMemberSpecialTitle,
      MilkyMoveGroupFile, MilkyRenameGroupFile, MilkyDeleteGroupFile, PersistGroupFile,
      CreateGroupFolder, MilkyDeleteGroupFolder, UploadGroupFile, RenameGroupFolder,
      SendProfileLike, MilkyDeleteFriend, RespondFriendRequest, SendFriendNudge,
      SetPeerPin, SetAvatar, SetNickname, SetBio

\* The actions of Satori that only ask, and what they share.
LEMMA SatoriQueries ==
    /\ Quiet(ToC2cPeer) /\ Quiet(SatoriResolvePeer) /\ Quiet(ParseContent)
    /\ Quiet(ToSatoriMessage) /\ Quiet(MessageGet) /\ Quiet(MessageList)
    /\ Quiet(ChannelGet) /\ Quiet(ChannelList) /\ Quiet(UserGet)
    /\ Quiet(UserChannelCreate) /\ Quiet(SatoriFindGroupNotify) /\ Quiet(GuildGet)
    /\ Quiet(GuildList) /\ Quiet(GuildMemberGet) /\ Quiet(GuildMemberList)
    /\ Quiet(SatoriFindBuddyReq) /\ Quiet(FriendList) /\ Quiet(LoginGet)
    /\ Quiet(NotImplemented)
BY KernelQueries, QuietRules
  DEF ToC2cPeer, SatoriResolvePeer, ParseContent, ToSatoriMessage, MessageGet,
      MessageList, ChannelGet, ChannelList, UserGet, UserChannelCreate,
      SatoriFindGroupNotify, GuildGet, GuildList, GuildMemberGet, GuildMemberList,
      SatoriFindBuddyReq, FriendList, LoginGet, NotImplemented

\* The actions of Satori that change something.
LEMMA SatoriChanges ==
    /\ Sure(MessageCreate) /\ Sure(MessageDelete) /\ Sure(GuildMemberKick)
    /\ Sure(GuildMemberMute) /\ Sure(ReactionCreate) /\ Sure(ReactionDelete)
    /\ Clean(MessageDelete) /\ Clean(GroupRequestApprove) /\ Clean(GuildApprove)
    /\ Clean(GuildMemberKick) /\ Clean(GuildMemberMute) /\ Clean(GuildMemberApprove)
    /\ Clean(FriendDelete) /\ Clean(FriendApprove) /\ Clean(ReactionCreate)
    /\ Clean(ReactionDelete)
BY KernelQueries, KernelChanges, SatoriQueries, QuietRules, SureRules, CleanRules
  DEF MessageCreate, MessageDelete, GroupRequestApprove, GuildApprove, GuildMemberKick,
      GuildMemberMute, GuildMemberApprove, FriendDelete, FriendApprove, ReactionCreate,
      ReactionDelete

\* The calls of the IPC mode that only ask, and what they share.
LEMMA IpcQueries ==
    /\ Quiet(ToPeer) /\ Quiet(MemberDisplay) /\ Quiet(NormalizeAtElement)
    /\ Quiet(ResolveAtElements) /\ Quiet(LoginGetSelf) /\ Quiet(MsgFetchMessages)
    /\ Quiet(GroupGetGroupList) /\ Quiet(FriendGetFriendList)
    /\ Quiet(EnumerateTmpPaths)
BY KernelQueries, QuietRules
  DEF ToPeer, MemberDisplay, NormalizeAtElement, ResolveAtElements, LoginGetSelf,
      MsgFetchMessages, GroupGetGroupList, FriendGetFriendList, EnumerateTmpPaths

\* The calls of the IPC mode that change something.
LEMMA IpcChanges ==
    /\ Sure(MsgSendMessage) /\ Sure(MsgRecallMessage) /\ Sure(MsgMarkRead)
    /\ Clean(MsgRecallMessage) /\ Clean(MsgMarkRead) /\ Clean(LoginRefreshQr)
    /\ Clean(CallDiagnosticMethod) /\ Clean(ProbeFlashSideEffects)
    /\ Clean(RunRichMediaDiag)
BY KernelQueries, KernelChanges, IpcQueries, QuietRules, SureRules, CleanRules
  DEF MsgSendMessage, MsgRecallMessage, MsgMarkRead, LoginRefreshQr,
      CallDiagnosticMethod, ProbeFlashSideEffects, RunRichMediaDiag

\* Every registered action, by protocol: outside HalfDone its plans are clean,
\* outside Unconfirmed they hear of every change, or they are doomed.
LEMMA OneBotTable ==
    ASSUME NEW n \in DOMAIN OneBotHandlers
    PROVE  /\ <<"onebot", n>> \notin HalfDone => Clean(OneBotHandlers[n]) \/ Doomed(OneBotHandlers[n])
           /\ <<"onebot", n>> \notin Unconfirmed => Sure(OneBotHandlers[n]) \/ Doomed(OneBotHandlers[n])
<1>1. \A B : Over(B, AllActs) => Doomed(ResolveUidUnbound ++ B)
  BY DoomedRule DEF ResolveUidUnbound
<1>2. /\ Doomed(SetInputStatus) /\ Doomed(SetFriendRemark) /\ Doomed(DeleteFriend)
      /\ Doomed(SendPrivateForwardMsg)
  BY <1>1, KernelChanges, ForwardIsOver
     DEF Clean, SetInputStatus, SetFriendRemark, DeleteFriend, SendPrivateForwardMsg
<1>3. <<"onebot", n>> \notin HalfDone => Clean(OneBotHandlers[n]) \/ Doomed(OneBotHandlers[n])
  BY <1>2, OneBotQueries, OneBotMessages, OneBotGroups, OneBotFilesAndFriends,
     OneBotSystem, CleanRules, SMTT(60)
     DEF OneBotHandlers, HalfDone
<1> DEFINE unconfirmed ==
        {"set_group_admin", "set_group_card", "set_group_add_request", "rename_group_file",
         "set_friend_add_request", "set_doubt_friends_add_request", "set_essence_msg",
         "delete_essence_msg", "set_self_longnick", "set_qq_profile",
         "send_group_forward_msg", "forward_group_single_msg",
         "forward_friend_single_msg"}
<1>4. n \in unconfirmed => <<"onebot", n>> \in Unconfirmed
  BY DEF Unconfirmed, Unheard, LooselyHeard, Forwarding
<1>5. \/ n \in unconfirmed
      \/ Sure(OneBotHandlers[n]) \/ Doomed(OneBotHandlers[n])
  BY <1>2, OneBotQueries, OneBotMessages, OneBotGroups, OneBotFilesAndFriends,
     OneBotSystem, SureRules, SMTT(60)
     DEF OneBotHandlers
<1>6. QED
  BY <1>3, <1>4, <1>5

LEMMA MilkyTable ==
    ASSUME NEW n \in DOMAIN MilkyHandlers
    PROVE  /\ <<"milky", n>> \notin HalfDone => Clean(MilkyHandlers[n])
           /\ <<"milky", n>> \notin Unconfirmed => Sure(MilkyHandlers[n])
BY MilkyQueries, MilkyChanges, CleanRules, SureRules, SMTT(60)
   DEF MilkyHandlers, HalfDone, Unconfirmed, Unheard, LooselyHeard, Forwarding

LEMMA SatoriTable ==
    ASSUME NEW n \in DOMAIN SatoriHandlers
    PROVE  /\ <<"satori", n>> \notin HalfDone => Clean(SatoriHandlers[n])
           /\ <<"satori", n>> \notin Unconfirmed => Sure(SatoriHandlers[n])
BY SatoriQueries, SatoriChanges, CleanRules, SureRules, SMTT(60)
   DEF SatoriHandlers, HalfDone, Unconfirmed, Unheard, LooselyHeard, Forwarding

LEMMA IpcTable ==
    ASSUME NEW n \in DOMAIN IpcHandlers
    PROVE  /\ <<"ipc", n>> \notin HalfDone => Clean(IpcHandlers[n])
           /\ <<"ipc", n>> \notin Unconfirmed => Sure(IpcHandlers[n])
<1>1. n \in DiagnosticNames => <<"ipc", n>> \in Unconfirmed
  BY DEF Unconfirmed, Unheard
<1>2. <<"ipc", n>> \notin HalfDone => Clean(IpcHandlers[n])
  BY IpcQueries, IpcChanges, CleanRules DEF IpcHandlers, HalfDone
<1>3. <<"ipc", n>> \notin Unconfirmed => Sure(IpcHandlers[n])
  BY <1>1, IpcQueries, IpcChanges, SureRules, SMTT(30) DEF IpcHandlers, IpcNames, Unconfirmed, Unheard
<1>4. QED
  BY <1>2, <1>3

\* A plan, or what is left of one, consists of steps of these kinds.
StepsOf(p, S) == \E X : p \in Seq(X) /\ \A x \in X : x.act \in S

\* The inductive invariant. Before an action is looked up nothing happened;
\* outside HalfDone, after the first change only steps that cannot throw are
\* left, or it fails before its first one; outside Unconfirmed, no step that is left can be dropped.
RequestShape ==
    /\ {changed, dropped} \subseteq BOOLEAN
    /\ asked = NoAction => rest = <<>> /\ ~changed /\ ~dropped

FailsClean ==
    asked # NoAction /\ asked \notin HalfDone =>
        /\ StepsOf(rest, AllActs)
        /\ \/ CleanPlan(rest) /\ (changed /\ reply = "none" => StepsOf(rest, SafeActs))
           \/ ~changed /\ rest # <<>> /\ Head(rest).act = "unbound"
        /\ reply = "failed" => ~changed

HearsOfDrops ==
    asked # NoAction /\ asked \notin Unconfirmed =>
        /\ ~dropped
        /\ \/ StepsOf(rest, SureActs)
           \/ StepsOf(rest, AllActs) /\ rest # <<>> /\ Head(rest).act = "unbound"

RequestInv == RequestShape /\ FailsClean /\ HearsOfDrops

\* What the kinds of step can come to.
LEMMA OutcomeRules ==
    ASSUME NEW a \in AllActs, NEW o \in Outcomes[a]
    PROVE  /\ o.changes => a \notin QuietActs
           /\ o.changes /\ o.throws => a \in SendActs
           /\ o.throws => a \notin SafeActs
           /\ o.drops => a \notin SureActs
           /\ a = "unbound" => o.throws
<1>1. /\ ~Fine.throws /\ ~Fine.changes /\ ~Fine.drops
      /\ Thrown.throws /\ ~Thrown.changes /\ ~Thrown.drops
      /\ ~Made.throws /\ Made.changes /\ ~Made.drops
      /\ MadeUnheard.throws /\ MadeUnheard.changes /\ ~MadeUnheard.drops
      /\ ~Missed.throws /\ ~Missed.changes /\ Missed.drops
  BY DEF Fine, Thrown, Made, MadeUnheard, Missed
<1>2. CASE a \in {"check", "read"}
  <2>1. o \in {Fine, Thrown}
    BY <1>2 DEF Outcomes
  <2>2. QED
    BY <1>1, <1>2, <2>1 DEF SureActs, SafeActs
<1>3. CASE a = "lenient"
  <2>1. o = Fine
    BY <1>3 DEF Outcomes
  <2>2. QED
    BY <1>1, <1>3, <2>1
<1>4. CASE a \in {"refuse", "unbound"}
  <2>1. o = Thrown
    BY <1>4 DEF Outcomes
  <2>2. QED
    BY <1>1, <1>4, <2>1 DEF SafeActs
<1>5. CASE a = "write"
  <2>1. o \in {Made, Thrown}
    BY <1>5 DEF Outcomes
  <2>2. QED
    BY <1>1, <1>5, <2>1 DEF QuietActs, SafeActs
<1>6. CASE a = "confirmed"
  <2>1. o \in {Made, Thrown, MadeUnheard}
    BY <1>6 DEF Outcomes
  <2>2. QED
    BY <1>1, <1>6, <2>1 DEF QuietActs, SafeActs, SendActs
<1>7. CASE a \in {"unchecked", "loose"}
  <2>1. o \in {Made, Thrown, Missed}
    BY <1>7 DEF Outcomes
  <2>2. QED
    BY <1>1, <1>7, <2>1 DEF QuietActs, SureActs, SafeActs
<1>8. CASE a = "fire"
  <2>1. o \in {Made, Missed}
    BY <1>8 DEF Outcomes
  <2>2. QED
    BY <1>1, <1>8, <2>1 DEF QuietActs, SureActs
<1>9. CASE a = "sent"
  <2>1. o \in {Made, Thrown, MadeUnheard, Missed}
    BY <1>9 DEF Outcomes
  <2>2. QED
    BY <1>1, <1>9, <2>1 DEF QuietActs, SafeActs, SendActs, SureActs
<1>10. QED
  BY <1>2, <1>3, <1>4, <1>5, <1>6, <1>7, <1>8, <1>9 DEF AllActs, SureActs

\* A handler that has thrown has no step left.
LEMMA EmptyPlan == CleanPlan(<<>>) /\ \A S : StepsOf(<<>>, S)
<1>1. <<>> \in Nothing
  BY DEF Nothing
<1>2. ASSUME NEW S PROVE StepsOf(<<>>, S)
  <2>1. PICK X : Nothing \subseteq Seq(X) /\ \A x \in X : x.act \in S
    BY OverNothing DEF Over
  <2>2. <<>> \in Seq(X)
    BY <1>1, <2>1
  <2>3. QED
    BY <2>1, <2>2 DEF StepsOf
<1>3. Len(<<>>) = 0
  OBVIOUS
<1>4. CleanPlan(<<>>)
  BY <1>3 DEF CleanPlan
<1>5. QED
  BY <1>2, <1>4

\* The next step of a plan and what it leaves.
LEMMA StepsTail ==
    ASSUME NEW p, NEW S, StepsOf(p, S), p # <<>>
    PROVE  Head(p).act \in S /\ StepsOf(Tail(p), S)
BY DEF StepsOf

LEMMA CleanTail ==
    ASSUME NEW p, StepsOf(p, AllActs), p # <<>>, CleanPlan(p)
    PROVE  /\ CleanPlan(Tail(p))
           /\ Head(p).act \notin SendActs
           /\ Head(p).act \notin QuietActs => StepsOf(Tail(p), SafeActs)
<1>1. PICK X : p \in Seq(X) /\ \A x \in X : x.act \in AllActs
  BY DEF StepsOf
<1>2. /\ Len(p) \in Nat /\ Len(p) > 0 /\ Len(Tail(p)) = Len(p) - 1
      /\ Head(p) = p[1]
      /\ \A i \in 1..Len(Tail(p)) : Tail(p)[i] = p[i + 1] /\ i + 1 \in 1..Len(p)
  BY <1>1
<1>3. Tail(p) \in Seq(X)
  BY <1>1
<1>4. CleanPlan(Tail(p))
  <2> DEFINE t == Tail(p)
  <2> HIDE DEF t
  <2>1. /\ Len(t) \in Nat
        /\ \A i \in 1..Len(t) : t[i] = p[i + 1] /\ i + 1 \in 1..Len(p)
    BY <1>2 DEF t
  <2>2. ASSUME NEW i \in 1..Len(t)
        PROVE  /\ t[i].act \notin SendActs
               /\ t[i].act \notin QuietActs =>
                     \A j \in 1..Len(t) : i < j => t[j].act \in SafeActs
    <3>1. i + 1 \in 1..Len(p) /\ t[i] = p[i + 1]
      BY <2>1
    <3>2. \A j \in 1..Len(t) : i < j => i + 1 < j + 1
      BY <2>1
    <3>3. QED
      BY <2>1, <3>1, <3>2 DEF CleanPlan
  <2>3. CleanPlan(t)
    BY <2>2 DEF CleanPlan
  <2>4. QED
    BY <2>3 DEF t
<1>5. Head(p).act \notin SendActs
  BY <1>2 DEF CleanPlan
<1>6. ASSUME Head(p).act \notin QuietActs PROVE StepsOf(Tail(p), SafeActs)
  <2> DEFINE t == Tail(p)
             Y == {x \in X : x.act \in SafeActs}
  <2>1. \A j \in 1..Len(p) : 1 < j => p[j].act \in SafeActs
    BY <1>2, <1>6 DEF CleanPlan
  <2>2. \A i \in 1..Len(t) : t[i].act \in SafeActs
    BY <1>2, <2>1
  <2>3. t \in Seq(Y)
    <3>1. t \in Seq(X) /\ \A i \in 1..Len(t) : t[i] \in Y
      BY <1>3, <2>2
    <3> HIDE DEF t, Y
    <3>2. QED
      BY <3>1
  <2>4. QED
    BY <2>2, <2>3 DEF StepsOf
<1>7. QED
  BY <1>4, <1>5, <1>6

\* The four tables as the registry a request is looked up in.
LEMMA PlansFit ==
    ASSUME NEW protocol \in DOMAIN Registry, NEW name \in DOMAIN Registry[protocol],
           NEW plan \in Registry[protocol][name]
    PROVE  /\ <<protocol, name>> # NoAction
           /\ <<protocol, name>> \notin HalfDone =>
                 /\ StepsOf(plan, AllActs)
                 /\ CleanPlan(plan) \/ (plan # <<>> /\ Head(plan).act = "unbound")
           /\ <<protocol, name>> \notin Unconfirmed =>
                 \/ StepsOf(plan, SureActs)
                 \/ StepsOf(plan, AllActs) /\ plan # <<>> /\ Head(plan).act = "unbound"
<1>1. protocol \in {"onebot", "milky", "satori", "ipc"}
  BY DEF Registry
<1>2. <<protocol, name>> # NoAction
  BY <1>1 DEF NoAction
<1>3. /\ <<protocol, name>> \notin HalfDone =>
            Clean(Registry[protocol][name]) \/ Doomed(Registry[protocol][name])
      /\ <<protocol, name>> \notin Unconfirmed =>
            Sure(Registry[protocol][name]) \/ Doomed(Registry[protocol][name])
  <2>1. CASE protocol = "onebot"
    BY <2>1, OneBotTable DEF Registry
  <2>2. CASE protocol = "milky"
    BY <2>2, MilkyTable DEF Registry
  <2>3. CASE protocol = "satori"
    BY <2>3, SatoriTable DEF Registry
  <2>4. CASE protocol = "ipc"
    BY <2>4, IpcTable DEF Registry
  <2>5. QED
    BY <1>1, <2>1, <2>2, <2>3, <2>4
<1>4. ASSUME NEW A, NEW S, plan \in A, Over(A, S) PROVE StepsOf(plan, S)
  BY <1>4 DEF Over, StepsOf
<1>5. \A A : plan \in A /\ Clean(A) => StepsOf(plan, AllActs) /\ CleanPlan(plan)
  BY <1>4 DEF Clean
<1>6. \A A : plan \in A /\ Sure(A) => StepsOf(plan, SureActs)
  BY <1>4 DEF Sure
<1>7. \A A : plan \in A /\ Doomed(A) =>
          StepsOf(plan, AllActs) /\ plan # <<>> /\ Head(plan).act = "unbound"
  BY <1>4 DEF Doomed
<1>8. QED
  BY <1>2, <1>3, <1>5, <1>6, <1>7

\* The invariant holds before a request and is kept by every step of one.
LEMMA RequestInvInit == RequestsInit => RequestInv
BY DEF RequestsInit, RequestInv, RequestShape, FailsClean, HearsOfDrops

LEMMA RequestInvNext == RequestInv /\ [RequestsNext]_requestVars => RequestInv'
<1> SUFFICES ASSUME RequestInv, [RequestsNext]_requestVars PROVE RequestInv'
  OBVIOUS
<1>1. CASE Handle
  <2>1. PICK protocol \in DOMAIN Registry :
            \E name \in DOMAIN Registry[protocol] :
                /\ asked' = <<protocol, name>>
                /\ rest' \in Registry[protocol][name]
    BY <1>1 DEF Handle
  <2>2. ~changed /\ ~dropped /\ reply = "none" /\ UNCHANGED <<changed, dropped, reply>>
    BY <1>1 DEF Handle, RequestInv, RequestShape
  <2>3. /\ asked' # NoAction
        /\ asked' \notin HalfDone =>
              /\ StepsOf(rest', AllActs)
              /\ CleanPlan(rest') \/ (rest' # <<>> /\ Head(rest').act = "unbound")
        /\ asked' \notin Unconfirmed =>
              \/ StepsOf(rest', SureActs)
              \/ StepsOf(rest', AllActs) /\ rest' # <<>> /\ Head(rest').act = "unbound"
    <3>1. PICK name \in DOMAIN Registry[protocol] :
              asked' = <<protocol, name>> /\ rest' \in Registry[protocol][name]
      BY <2>1
    <3>2. QED
      BY <3>1, PlansFit
  <2>4. RequestShape'
    BY <2>2, <2>3 DEF RequestInv, RequestShape
  <2>5. FailsClean'
    BY <2>2, <2>3 DEF FailsClean
  <2>6. HearsOfDrops'
    BY <2>2, <2>3 DEF HearsOfDrops
  <2>7. QED
    BY <2>4, <2>5, <2>6 DEF RequestInv
<1>2. CASE Refuse
  BY <1>2 DEF Refuse, RequestInv, RequestShape, FailsClean, HearsOfDrops
<1>3. CASE TakeStep
  <2>1. /\ Running /\ rest # <<>> /\ asked' = asked /\ asked # NoAction /\ reply = "none"
    BY <1>3 DEF TakeStep, Running
  <2>2. PICK o \in Outcomes[Head(rest).act] :
            /\ changed' = (changed \/ o.changes)
            /\ dropped' = (dropped \/ o.drops)
            /\ rest' = IF o.throws THEN <<>> ELSE Tail(rest)
            /\ reply' = IF ~o.throws THEN "none"
                        ELSE IF Head(rest).act = "unbound" THEN "error" ELSE "failed"
    BY <1>3 DEF TakeStep
  <2>3. RequestShape'
    BY <2>1, <2>2 DEF RequestInv, RequestShape
  <2>4. FailsClean'
    <3>1. SUFFICES ASSUME asked \notin HalfDone
                   PROVE  /\ StepsOf(rest', AllActs)
                          /\ CleanPlan(rest')
                          /\ changed' /\ reply' = "none" => StepsOf(rest', SafeActs)
                          /\ reply' = "failed" => ~changed'
      BY <2>1 DEF FailsClean
    <3>2. /\ StepsOf(rest, AllActs)
          /\ \/ CleanPlan(rest) /\ (changed => StepsOf(rest, SafeActs))
             \/ ~changed /\ Head(rest).act = "unbound"
      BY <2>1, <3>1 DEF RequestInv, FailsClean
    <3>3. Head(rest).act \in AllActs /\ StepsOf(Tail(rest), AllActs)
      BY <2>1, <3>2, StepsTail
    <3>4. StepsOf(<<>>, AllActs) /\ CleanPlan(<<>>)
      BY EmptyPlan
    <3>5. /\ o.changes => Head(rest).act \notin QuietActs
          /\ o.changes /\ o.throws => Head(rest).act \in SendActs
          /\ o.throws => Head(rest).act \notin SafeActs
          /\ Head(rest).act = "unbound" => o.throws /\ ~o.changes
      BY <3>3, OutcomeRules DEF QuietActs
    <3>6. CASE CleanPlan(rest) /\ (changed => StepsOf(rest, SafeActs))
      <4>1. changed => Head(rest).act \in SafeActs /\ StepsOf(Tail(rest), SafeActs)
        BY <2>1, <3>6, StepsTail
      <4>2. /\ CleanPlan(Tail(rest)) /\ Head(rest).act \notin SendActs
            /\ Head(rest).act \notin QuietActs => StepsOf(Tail(rest), SafeActs)
        BY <2>1, <3>2, <3>6, CleanTail
      <4>3. CASE o.throws
        BY <2>2, <3>4, <3>5, <4>1, <4>2, <4>3
      <4>4. CASE ~o.throws
        BY <2>2, <3>3, <3>5, <4>1, <4>2, <4>4
      <4>5. QED
        BY <4>3, <4>4
    <3>7. CASE ~changed /\ Head(rest).act = "unbound"
      BY <2>2, <3>4, <3>5, <3>7
    <3>8. QED
      BY <3>2, <3>6, <3>7
  <2>5. HearsOfDrops'
    <3>1. SUFFICES ASSUME asked \notin Unconfirmed
                   PROVE  /\ ~dropped'
                          /\ StepsOf(rest', SureActs)
      BY <2>1 DEF HearsOfDrops
    <3>2. /\ ~dropped
          /\ \/ StepsOf(rest, SureActs)
             \/ StepsOf(rest, AllActs) /\ Head(rest).act = "unbound"
      BY <2>1, <3>1 DEF RequestInv, HearsOfDrops
    <3>3. StepsOf(<<>>, SureActs)
      BY EmptyPlan
    <3>4. CASE StepsOf(rest, SureActs)
      <4>1. Head(rest).act \in SureActs /\ StepsOf(Tail(rest), SureActs)
        BY <2>1, <3>4, StepsTail
      <4>2. ~o.drops
        BY <4>1, OutcomeRules DEF AllActs
      <4>3. QED
        BY <2>2, <3>2, <3>3, <4>1, <4>2
    <3>5. CASE Head(rest).act = "unbound"
      <4>1. o.throws /\ ~o.drops
        BY <3>5, OutcomeRules DEF AllActs, SureActs
      <4>2. QED
        BY <2>2, <3>2, <3>3, <4>1
    <3>6. QED
      BY <3>2, <3>4, <3>5
  <2>6. QED
    BY <2>3, <2>4, <2>5 DEF RequestInv
<1>4. CASE Answer
  BY <1>4 DEF Answer, Running, RequestInv, RequestShape, FailsClean, HearsOfDrops
<1>5. CASE UNCHANGED requestVars
  BY <1>5 DEF requestVars, RequestInv, RequestShape, FailsClean, HearsOfDrops
<1>6. QED
  BY <1>1, <1>2, <1>3, <1>4, <1>5 DEF RequestsNext

\* An action answered as failed has changed nothing in QQ, so that a framework
\* may ask again, but for the ones of HalfDone: BaseAction.run and its like
\* turn a throw into the answer, and every handler checks and looks up before
\* its one change. For every number of rounds its loops may take.
THEOREM FailureIsClean == RequestsSpec => []FailedChangedNothing
<1>1. RequestInv => FailedChangedNothing
  BY DEF RequestInv, RequestShape, FailsClean, FailedChangedNothing
<1>2. QED
  BY <1>1, RequestInvInit, RequestInvNext, PTL DEF RequestsSpec

\* An action answered as ok was taken by QQ in every step of it, but for the
\* ones of Unconfirmed, whose native call's result nobody looks at.
THEOREM SuccessIsTaken == RequestsSpec => []OkMeansDone
<1>1. RequestInv => OkMeansDone
  BY DEF RequestInv, RequestShape, HearsOfDrops, OkMeansDone
<1>2. QED
  BY <1>1, RequestInvInit, RequestInvNext, PTL DEF RequestsSpec
=============================================================================
