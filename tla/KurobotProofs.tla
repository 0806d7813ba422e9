---------------------------- MODULE KurobotProofs ----------------------------
(***************************************************************************)
(* Proofs about the Kurobot adapter. About KurobotConnection, for any set  *)
(* of sockets and hello ids and any back-off cap: the invariants of the    *)
(* connection, by the inductive invariant IInv, and that it implements     *)
(* KurobotLink. About KurobotBridge, for any set of groups, commands and   *)
(* queries too: the invariants of the adapter over all lives of its        *)
(* connections, and that no command outlives its session.                  *)
(***************************************************************************)
EXTENDS KurobotBridge, TLAPS

LEMMA InitIInv == Init => IInv
<1> SUFFICES ASSUME Init PROVE IInv
  OBVIOUS
<1>1. TypeOK
  <2>1. accepted \in [Sockets -> BOOLEAN] /\ appSent \in [Sockets -> BOOLEAN]
    BY Zenon DEF Init
  <2>2. attempt \in 0..MaxAttempt /\ reports \in Nat
    BY KurobotAssumption DEF Init
  <2>3. sock \in [Sockets -> ReadyStates]
    BY DEF Init, ReadyStates
  <2>4. helloOf \in [Sockets -> HelloIds \cup {NoId}]
    BY DEF Init
  <2>5. /\ helloTimer \in BOOLEAN /\ pingTimer \in BOOLEAN /\ retryTimer \in BOOLEAN
        /\ userStopped \in BOOLEAN /\ rejected \in BOOLEAN
    BY DEF Init
  <2>6. /\ state \in States
        /\ ws \in Sockets \cup {NoSocket}
        /\ pendingHelloId \in HelloIds \cup {NoId}
    BY DEF Init, States
  <2> QED
    BY <2>1, <2>2, <2>3, <2>4, <2>5, <2>6, Zenon DEF TypeOK
<1>2. SingleSocket /\ WakeupPending /\ AckBeforeUse
  BY DEF Init, SingleSocket, WakeupPending, AckBeforeUse
<1>3. HelloIsPending /\ OneWayToEnd
  BY DEF Init, HelloIsPending, OneWayToEnd
<1> QED
  BY <1>1, <1>2, <1>3 DEF IInv

USE DEF States, ReadyStates, CloseCodes

(* One lemma per action: what it preserves.                                *)

LEMMA StartIInv ==
    ASSUME IInv, Start PROVE IInv'
<1> USE KurobotAssumption DEF IInv, Start, Connect, connVars, timerVars, sockVars
<1>1. TypeOK'
  BY DEF TypeOK, OneWayToEnd
<1>2. SingleSocket'
  BY DEF TypeOK, SingleSocket, WakeupPending, OneWayToEnd
<1>3. WakeupPending'
  BY DEF TypeOK, SingleSocket, WakeupPending, OneWayToEnd
<1>4. AckBeforeUse'
  BY DEF TypeOK, SingleSocket, WakeupPending, AckBeforeUse, HelloIsPending, OneWayToEnd
<1>5. HelloIsPending'
  BY DEF TypeOK, SingleSocket, WakeupPending, HelloIsPending, OneWayToEnd
<1>6. OneWayToEnd'
  BY DEF TypeOK, SingleSocket, WakeupPending, OneWayToEnd
<1> QED
  BY <1>1, <1>2, <1>3, <1>4, <1>5, <1>6

LEMMA StopIInv ==
    ASSUME IInv, Stop PROVE IInv'
<1> USE KurobotAssumption DEF IInv, Stop, ClearTimers, CloseHeld, connVars, timerVars, sockVars
<1>1. TypeOK'
  BY DEF TypeOK, OneWayToEnd
<1>2. SingleSocket'
  BY DEF TypeOK, SingleSocket, WakeupPending, OneWayToEnd
<1>3. WakeupPending'
  BY DEF TypeOK, SingleSocket, WakeupPending, OneWayToEnd
<1>4. AckBeforeUse'
  BY DEF TypeOK, SingleSocket, WakeupPending, AckBeforeUse, HelloIsPending, OneWayToEnd
<1>5. HelloIsPending'
  BY DEF TypeOK, SingleSocket, WakeupPending, HelloIsPending, OneWayToEnd
<1>6. OneWayToEnd'
  BY DEF TypeOK, SingleSocket, WakeupPending, OneWayToEnd
<1> QED
  BY <1>1, <1>2, <1>3, <1>4, <1>5, <1>6

LEMMA SendFrameIInv ==
    ASSUME IInv, SendFrame PROVE IInv'
<1> USE KurobotAssumption DEF IInv, SendFrame, CanSend, connVars, timerVars, sockVars
<1>1. TypeOK'
  BY DEF TypeOK, OneWayToEnd
<1>2. SingleSocket'
  BY DEF TypeOK, SingleSocket, WakeupPending, OneWayToEnd
<1>3. WakeupPending'
  BY DEF TypeOK, SingleSocket, WakeupPending, OneWayToEnd
<1>4. AckBeforeUse'
  BY DEF TypeOK, SingleSocket, WakeupPending, AckBeforeUse, HelloIsPending, OneWayToEnd
<1>5. HelloIsPending'
  BY DEF TypeOK, SingleSocket, WakeupPending, HelloIsPending, OneWayToEnd
<1>6. OneWayToEnd'
  BY DEF TypeOK, SingleSocket, WakeupPending, OneWayToEnd
<1> QED
  BY <1>1, <1>2, <1>3, <1>4, <1>5, <1>6

LEMMA OnOpenIInv ==
    ASSUME IInv, NEW s \in Sockets, OnOpen(s) PROVE IInv'
<1> USE KurobotAssumption DEF IInv, OnOpen, connVars, timerVars, sockVars
<1>1. TypeOK'
  BY DEF TypeOK, OneWayToEnd
<1>2. SingleSocket'
  BY DEF TypeOK, SingleSocket, WakeupPending, OneWayToEnd
<1>3. WakeupPending'
  BY DEF TypeOK, SingleSocket, WakeupPending, OneWayToEnd
<1>4. AckBeforeUse'
  BY DEF TypeOK, SingleSocket, WakeupPending, AckBeforeUse, HelloIsPending, OneWayToEnd
<1>5. HelloIsPending'
  BY DEF TypeOK, SingleSocket, WakeupPending, HelloIsPending, OneWayToEnd
<1>6. OneWayToEnd'
  BY DEF TypeOK, SingleSocket, WakeupPending, OneWayToEnd
<1> QED
  BY <1>1, <1>2, <1>3, <1>4, <1>5, <1>6

LEMMA OnHelloAckOkIInv ==
    ASSUME IInv, NEW s \in Sockets, NEW id \in HelloIds, OnHelloAckOk(s, id) PROVE IInv'
<1> USE KurobotAssumption DEF IInv, OnHelloAckOk, connVars, timerVars, sockVars
<1>1. TypeOK'
  <2>1. accepted' \in [Sockets -> BOOLEAN]
    BY Zenon DEF TypeOK
  <2>2. pingTimer' \in BOOLEAN /\ helloTimer' \in BOOLEAN
    BY Zenon
  <2> QED
    BY <2>1, <2>2 DEF TypeOK
<1>2. SingleSocket'
  BY DEF TypeOK, SingleSocket, WakeupPending, OneWayToEnd
<1>3. WakeupPending'
  BY DEF TypeOK, SingleSocket, WakeupPending, OneWayToEnd
<1>4. AckBeforeUse'
  BY DEF TypeOK, SingleSocket, WakeupPending, AckBeforeUse, HelloIsPending, OneWayToEnd
<1>5. HelloIsPending'
  BY DEF TypeOK, SingleSocket, WakeupPending, HelloIsPending, OneWayToEnd
<1>6. OneWayToEnd'
  BY DEF TypeOK, SingleSocket, WakeupPending, OneWayToEnd
<1> QED
  BY <1>1, <1>2, <1>3, <1>4, <1>5, <1>6

LEMMA OnHelloAckRefusedIInv ==
    ASSUME IInv, NEW s \in Sockets, NEW id \in HelloIds, OnHelloAckRefused(s, id) PROVE IInv'
<1> USE KurobotAssumption DEF IInv, OnHelloAckRefused, ClearTimers, CloseHeld, connVars, timerVars, sockVars
<1>1. TypeOK'
  <2>1. sock' \in [Sockets -> ReadyStates]
    BY DEF TypeOK
  <2>2. reports' \in Nat
    BY DEF TypeOK
  <2> QED
    BY <2>1, <2>2, Zenon DEF TypeOK
<1>2. SingleSocket'
  BY DEF TypeOK, SingleSocket, WakeupPending, OneWayToEnd
<1>3. WakeupPending'
  BY DEF TypeOK, SingleSocket, WakeupPending, OneWayToEnd
<1>4. AckBeforeUse'
  BY DEF TypeOK, SingleSocket, WakeupPending, AckBeforeUse, HelloIsPending, OneWayToEnd
<1>5. HelloIsPending'
  BY DEF TypeOK, SingleSocket, WakeupPending, HelloIsPending, OneWayToEnd
<1>6. OneWayToEnd'
  BY DEF TypeOK, SingleSocket, WakeupPending, OneWayToEnd
<1> QED
  BY <1>1, <1>2, <1>3, <1>4, <1>5, <1>6

LEMMA OnCloseIInv ==
    ASSUME IInv, NEW s \in Sockets, NEW code \in CloseCodes, OnClose(s, code) PROVE IInv'
<1> USE KurobotAssumption DEF IInv, OnClose, ScheduleRetry, NextAttempt, connVars, timerVars, sockVars
<1>1. TypeOK'
  <2>1. attempt' \in 0..MaxAttempt /\ reports' \in Nat
    BY DEF TypeOK
  <2>2. sock' \in [Sockets -> ReadyStates]
    BY DEF TypeOK
  <2>3. state' \in States /\ retryTimer' \in BOOLEAN /\ rejected' \in BOOLEAN
    BY DEF TypeOK
  <2> QED
    BY <2>1, <2>2, <2>3 DEF TypeOK
<1>2. SingleSocket'
  BY DEF TypeOK, SingleSocket, WakeupPending, OneWayToEnd
<1>3. WakeupPending'
  BY DEF TypeOK, SingleSocket, WakeupPending, OneWayToEnd
<1>4. AckBeforeUse'
  BY DEF TypeOK, SingleSocket, WakeupPending, AckBeforeUse, HelloIsPending, OneWayToEnd
<1>5. HelloIsPending'
  BY DEF TypeOK, SingleSocket, WakeupPending, HelloIsPending, OneWayToEnd
<1>6. OneWayToEnd'
  BY DEF TypeOK, SingleSocket, WakeupPending, OneWayToEnd
<1> QED
  BY <1>1, <1>2, <1>3, <1>4, <1>5, <1>6

LEMMA PeerClosesIInv ==
    ASSUME IInv, NEW s \in Sockets, PeerCloses(s) PROVE IInv'
<1> USE KurobotAssumption DEF IInv, PeerCloses, connVars, timerVars, sockVars
<1>1. TypeOK'
  BY DEF TypeOK, OneWayToEnd
<1>2. SingleSocket'
  BY DEF TypeOK, SingleSocket, WakeupPending, OneWayToEnd
<1>3. WakeupPending'
  BY DEF TypeOK, SingleSocket, WakeupPending, OneWayToEnd
<1>4. AckBeforeUse'
  BY DEF TypeOK, SingleSocket, WakeupPending, AckBeforeUse, HelloIsPending, OneWayToEnd
<1>5. HelloIsPending'
  BY DEF TypeOK, SingleSocket, WakeupPending, HelloIsPending, OneWayToEnd
<1>6. OneWayToEnd'
  BY DEF TypeOK, SingleSocket, WakeupPending, OneWayToEnd
<1> QED
  BY <1>1, <1>2, <1>3, <1>4, <1>5, <1>6

LEMMA HelloTimeoutIInv ==
    ASSUME IInv, HelloTimeout PROVE IInv'
<1> USE KurobotAssumption DEF IInv, HelloTimeout, CloseHeld, connVars, timerVars, sockVars
<1>1. TypeOK'
  BY DEF TypeOK, OneWayToEnd
<1>2. SingleSocket'
  BY DEF TypeOK, SingleSocket, WakeupPending, OneWayToEnd
<1>3. WakeupPending'
  BY DEF TypeOK, SingleSocket, WakeupPending, OneWayToEnd
<1>4. AckBeforeUse'
  BY DEF TypeOK, SingleSocket, WakeupPending, AckBeforeUse, HelloIsPending, OneWayToEnd
<1>5. HelloIsPending'
  BY DEF TypeOK, SingleSocket, WakeupPending, HelloIsPending, OneWayToEnd
<1>6. OneWayToEnd'
  BY DEF TypeOK, SingleSocket, WakeupPending, OneWayToEnd
<1> QED
  BY <1>1, <1>2, <1>3, <1>4, <1>5, <1>6

LEMMA RetryFiresIInv ==
    ASSUME IInv, RetryFires PROVE IInv'
<1> USE KurobotAssumption DEF IInv, RetryFires, Connect, connVars, timerVars, sockVars
<1>1. TypeOK'
  BY DEF TypeOK, OneWayToEnd
<1>2. SingleSocket'
  BY DEF TypeOK, SingleSocket, WakeupPending, OneWayToEnd
<1>3. WakeupPending'
  BY DEF TypeOK, SingleSocket, WakeupPending, OneWayToEnd
<1>4. AckBeforeUse'
  BY DEF TypeOK, SingleSocket, WakeupPending, AckBeforeUse, HelloIsPending, OneWayToEnd
<1>5. HelloIsPending'
  BY DEF TypeOK, SingleSocket, WakeupPending, HelloIsPending, OneWayToEnd
<1>6. OneWayToEnd'
  BY DEF TypeOK, SingleSocket, WakeupPending, OneWayToEnd
<1> QED
  BY <1>1, <1>2, <1>3, <1>4, <1>5, <1>6

LEMMA NextIInv == IInv /\ [Next]_vars => IInv'
<1> SUFFICES ASSUME IInv, [Next]_vars PROVE IInv'
  OBVIOUS
<1>1. CASE Start
  BY <1>1, StartIInv
<1>2. CASE Stop
  BY <1>2, StopIInv
<1>3. CASE Send \/ PingTick
  BY <1>3, SendFrameIInv DEF Send, PingTick
<1>4. CASE HelloTimeout
  BY <1>4, HelloTimeoutIInv
<1>5. CASE RetryFires
  BY <1>5, RetryFiresIInv
<1>6. CASE \E s \in Sockets : OnOpen(s) \/ OnUnknownRequest(s) \/ PeerCloses(s)
  BY <1>6, OnOpenIInv, SendFrameIInv, PeerClosesIInv DEF OnUnknownRequest
<1>7. CASE \E s \in Sockets, id \in HelloIds : OnHelloAckOk(s, id) \/ OnHelloAckRefused(s, id)
  BY <1>7, OnHelloAckOkIInv, OnHelloAckRefusedIInv
<1>8. CASE \E s \in Sockets, code \in CloseCodes : OnClose(s, code)
  BY <1>8, OnCloseIInv
<1>9. CASE UNCHANGED vars
  BY <1>9 DEF IInv, TypeOK, SingleSocket, WakeupPending, AckBeforeUse, HelloIsPending,
              OneWayToEnd, vars, connVars, timerVars, sockVars
<1> QED
  BY <1>1, <1>2, <1>3, <1>4, <1>5, <1>6, <1>7, <1>8, <1>9 DEF Next

LEMMA Invariance == Spec => []IInv
<1>1. Init => IInv
  BY InitIInv
<1>2. IInv /\ [Next]_vars => IInv'
  BY NextIInv
<1> QED
  BY <1>1, <1>2, PTL DEF Spec

\* Every variable keeps its type, for every set of sockets and ids.
THEOREM TypeCorrect == Spec => []TypeOK
<1>1. IInv => TypeOK
  BY DEF IInv
<1> QED
  BY <1>1, Invariance, PTL

\* connect() never leaves a second live WebSocket behind.
THEOREM OneSocket == Spec => []SingleSocket
<1>1. IInv => SingleSocket
  BY DEF IInv
<1> QED
  BY <1>1, Invariance, PTL

\* Every non-final state of the connection has a pending event or armed timer.
THEOREM NeverStuck == Spec => []WakeupPending
<1>1. IInv => WakeupPending
  BY DEF IInv
<1> QED
  BY <1>1, Invariance, PTL

\* Established, and every frame but the hello, come after this connection's ack.
THEOREM AckFirst == Spec => []AckBeforeUse
<1>1. IInv => AckBeforeUse
  BY DEF IInv
<1> QED
  BY <1>1, Invariance, PTL

-----------------------------------------------------------------------------
(* Refinement: each step of the connection is a step of the link or leaves *)
(* it unchanged.                                                           *)

LEMMA StepImplementsLink == IInv /\ [Next]_vars => [Link!LinkNext]_(Link!linkVars)
<1> SUFFICES ASSUME IInv, [Next]_vars
             PROVE  Link!LinkNext \/ (LinkPhase' = LinkPhase /\ reports' = reports)
  BY DEF Link!linkVars, LinkPhase
<1> USE DEF IInv, LinkPhase, Link!LinkNext
<1>1. CASE Start
  BY <1>1 DEF Start, Connect, OneWayToEnd, Link!GoTrying
<1>2. CASE Stop
  BY <1>2 DEF Stop, TypeOK, OneWayToEnd, Link!GoStopped
<1>3. CASE Send \/ PingTick
  <2>1. UNCHANGED <<state, rejected, reports>>
    BY <1>3, Zenon DEF Send, PingTick, SendFrame, connVars
  <2> QED
    BY <2>1
<1>4. CASE HelloTimeout
  BY <1>4 DEF HelloTimeout, connVars
<1>5. CASE RetryFires
  BY <1>5 DEF RetryFires, Connect, WakeupPending
<1>6. ASSUME NEW s \in Sockets, OnOpen(s) PROVE Link!LinkNext \/ (LinkPhase' = LinkPhase /\ reports' = reports)
  BY <1>6 DEF OnOpen, TypeOK, SingleSocket, WakeupPending, OneWayToEnd
<1>7. ASSUME NEW s \in Sockets, OnUnknownRequest(s) \/ PeerCloses(s)
      PROVE  LinkPhase' = LinkPhase /\ reports' = reports
  <2>1. UNCHANGED <<state, rejected, reports>>
    BY <1>7, Zenon DEF OnUnknownRequest, PeerCloses, SendFrame, connVars
  <2> QED
    BY <2>1
<1>8. ASSUME NEW s \in Sockets, NEW id \in HelloIds, OnHelloAckOk(s, id)
      PROVE  Link!LinkNext \/ (LinkPhase' = LinkPhase /\ reports' = reports)
  <2>1. state \in {"establishing", "established"}
    BY <1>8, KurobotAssumption DEF OnHelloAckOk, TypeOK, SingleSocket, WakeupPending, OneWayToEnd
  <2> QED
    BY <1>8, <2>1 DEF OnHelloAckOk, Link!GoUp
<1>9. ASSUME NEW s \in Sockets, NEW id \in HelloIds, OnHelloAckRefused(s, id)
      PROVE  Link!LinkNext
  <2>1. state \in {"establishing", "established"}
    BY <1>9, KurobotAssumption DEF OnHelloAckRefused, TypeOK, SingleSocket, WakeupPending, OneWayToEnd
  <2> QED
    BY <1>9, <2>1 DEF OnHelloAckRefused, Link!GoEnded
<1>10. ASSUME NEW s \in Sockets, NEW code \in CloseCodes, OnClose(s, code)
       PROVE  Link!LinkNext \/ (LinkPhase' = LinkPhase /\ reports' = reports)
  <2>1. CASE state = "stopped"
    BY <1>10, <2>1 DEF OnClose, OneWayToEnd
  <2>2. CASE state # "stopped"
    <3>1. state \in {"connecting", "establishing", "established"}
      BY <1>10, <2>2, KurobotAssumption DEF OnClose, TypeOK, SingleSocket, WakeupPending, OneWayToEnd
    <3> QED
      BY <1>10, <2>2, <3>1 DEF OnClose, ScheduleRetry, WakeupPending, OneWayToEnd,
                              Link!GoEnded, Link!GoDown
  <2> QED
    BY <2>1, <2>2
<1>11. CASE UNCHANGED vars
  BY <1>11 DEF vars, connVars
<1> QED
  BY <1>1, <1>2, <1>3, <1>4, <1>5, <1>6, <1>7, <1>8, <1>9, <1>10, <1>11 DEF Next

\* The connection implements the link its owner sees: stopped is final, the end
\* is reported exactly once, by the server's rejection and never after a stop.
THEOREM ConnectionImplementsLink == Spec => ImplementsLink
<1>1. Init => Link!LinkInit
  BY DEF Init, Link!LinkInit, LinkPhase
<1>2. IInv /\ [Next]_vars => [Link!LinkNext]_(Link!linkVars)
  BY StepImplementsLink
<1> QED
  BY <1>1, <1>2, Invariance, PTL DEF Spec, ImplementsLink, Link!LinkSpec

-----------------------------------------------------------------------------
(***************************************************************************)
(* The adapter. The connection's own invariant does not carry over as it   *)
(* stands: of a discarded object only its closing sockets remain, in       *)
(* orphans, and they share the variables with the present one.             *)
(***************************************************************************)

\* The states of the present connection object: its final state has a cause,
\* it holds a socket only while one is coming up or in use, and a stopped
\* adapter has no connection that lives.
ObjectLife ==
    /\ state = "stopped" <=> userStopped \/ rejected
    /\ state \in {"idle", "stopped", "backoff"} => ws = NoSocket
    /\ retryTimer => state = "backoff"
    /\ ~Lively => state \in {"idle", "stopped"}

\* A socket that still exists is the held one, one of a discarded object, or
\* what a rejected object has still to see closed.
SocketsAccounted ==
    \A s \in Sockets :
        /\ s \in orphans => sock[s] = "closing" /\ s # ws
        /\ s \notin orphans /\ sock[s] # "none" => s = ws \/ state = "stopped"

\* What the command table holds is unanswered and of this session.
CommandsAccounted ==
    \A c \in Commands :
        /\ pendingCommands[c] # NoChannel =>
               pendingCommands[c] = issuer[c] /\ replies[c] = << >> /\ c \notin stale
        /\ issuer[c] = NoChannel => replies[c] = << >> /\ c \notin stale

\* What a call under way has found or done: the flag its first line tested, and
\* the connection that stopAll() took down.
CallsAccounted ==
    \A k \in Owners :
        /\ call[k] \in {"start", "started"} => ~started
        /\ call[k] \in {"reload", "rebuild", "stopped"} => started
        /\ call[k] \in {"rebuild", "stopped"} => state = "stopped"

BridgeInv ==
    /\ TypeOK
    /\ BridgeTypeOK
    /\ OneLiveConnection
    /\ ObjectLife
    /\ SocketsAccounted
    /\ BindingsFresh
    /\ FilterReleased
    /\ CommandsAccounted
    /\ AnsweredOnce

-----------------------------------------------------------------------------

LEMMA BridgeInitially == BridgeInit => BridgeInv
<1> SUFFICES ASSUME BridgeInit PROVE BridgeInv
  OBVIOUS
<1>1. TypeOK
  <2>1. accepted \in [Sockets -> BOOLEAN] /\ appSent \in [Sockets -> BOOLEAN]
    BY Zenon DEF BridgeInit, Init
  <2>2. attempt \in 0..MaxAttempt /\ reports \in Nat
    BY KurobotAssumption DEF BridgeInit, Init
  <2>3. sock \in [Sockets -> ReadyStates] /\ helloOf \in [Sockets -> HelloIds \cup {NoId}]
    BY DEF BridgeInit, Init
  <2>4. /\ helloTimer \in BOOLEAN /\ pingTimer \in BOOLEAN /\ retryTimer \in BOOLEAN
        /\ userStopped \in BOOLEAN /\ rejected \in BOOLEAN
    BY DEF BridgeInit, Init
  <2>5. /\ state \in States
        /\ ws \in Sockets \cup {NoSocket}
        /\ pendingHelloId \in HelloIds \cup {NoId}
    BY DEF BridgeInit, Init
  <2> QED
    BY <2>1, <2>2, <2>3, <2>4, <2>5, Zenon DEF TypeOK
<1>2. BridgeTypeOK
  <2>1. replies \in [Commands -> Seq(Channels)]
    BY DEF BridgeInit
  <2> QED
    BY <2>1 DEF BridgeInit, BridgeTypeOK, Tables, Kinds, Stands
<1>3. OneLiveConnection /\ ObjectLife /\ SocketsAccounted
  BY DEF BridgeInit, Init, OneLiveConnection, ObjectLife, SocketsAccounted
<1>4. BindingsFresh /\ FilterReleased /\ CommandsAccounted /\ AnsweredOnce
  BY DEF BridgeInit, Init, BindingsFresh, FilterReleased, CommandsAccounted, AnsweredOnce
<1> QED
  BY <1>1, <1>2, <1>3, <1>4 DEF BridgeInv

(* One lemma per action: what it preserves.                                *)

\* A connection is built only where none is held.
LEMMA StartKurobotKeeps ==
    ASSUME BridgeInv, StartKurobot, state \in {"idle", "stopped"}, ~filterOn, Lively',
           started' \in BOOLEAN, call' \in [Owners -> Stands], halted' \in BOOLEAN
    PROVE  BridgeInv'
<1> USE KurobotAssumption, BridgeAssumption DEF BridgeInv, StartKurobot,
       FreshConnection, ClearPending, NoCommands, NoQueries, MarkStale, Used,
       Orphaned
<1>1. TypeOK'
  <2>1. PICK s \in Sockets :
          /\ state' = "connecting" /\ ws' = s
          /\ sock' = [sock EXCEPT ![s] = "connecting"]
          /\ helloOf' = [helloOf EXCEPT ![s] = NoId]
          /\ accepted' = [accepted EXCEPT ![s] = FALSE]
          /\ appSent' = [appSent EXCEPT ![s] = FALSE]
    BY Zenon
  <2>2. accepted' \in [Sockets -> BOOLEAN] /\ appSent' \in [Sockets -> BOOLEAN]
    BY <2>1, Zenon DEF TypeOK
  <2>3. sock' \in [Sockets -> ReadyStates] /\ helloOf' \in [Sockets -> HelloIds \cup {NoId}]
    BY <2>1 DEF TypeOK
  <2>4. attempt' \in 0..MaxAttempt /\ reports' \in Nat
    OBVIOUS
  <2>5. /\ userStopped' \in BOOLEAN /\ rejected' \in BOOLEAN /\ helloTimer' \in BOOLEAN
        /\ pingTimer' \in BOOLEAN /\ retryTimer' \in BOOLEAN
        /\ pendingHelloId' \in HelloIds \cup {NoId}
    BY Zenon
  <2>6. state' \in States /\ ws' \in Sockets \cup {NoSocket}
    BY <2>1
  <2> QED
    BY <2>2, <2>3, <2>4, <2>5, <2>6, Zenon DEF TypeOK
<1>2. BridgeTypeOK'
  BY DEF TypeOK, BridgeTypeOK, Tables, Kinds
<1>3. OneLiveConnection'
  BY DEF TypeOK, OneLiveConnection, ObjectLife, SocketsAccounted
<1>4. ObjectLife'
  BY DEF TypeOK, OneLiveConnection, ObjectLife, SocketsAccounted
<1>5. SocketsAccounted'
  BY DEF TypeOK, OneLiveConnection, ObjectLife, SocketsAccounted
<1>6. BindingsFresh'
  BY DEF TypeOK, BridgeTypeOK, OneLiveConnection, ObjectLife, SocketsAccounted,
         BindingsFresh
<1>7. FilterReleased'
  BY DEF TypeOK, OneLiveConnection, ObjectLife, SocketsAccounted, FilterReleased
<1>8. CommandsAccounted'
  BY DEF BridgeTypeOK, CommandsAccounted
<1>9. AnsweredOnce'
  BY DEF BridgeTypeOK, CommandsAccounted, AnsweredOnce
<1> QED
  BY <1>1, <1>2, <1>3, <1>4, <1>5, <1>6, <1>7, <1>8, <1>9

\* stopAll() leaves a connection that holds nothing.
LEMMA StopAllKeeps ==
    ASSUME BridgeInv, StopAll,
           started' \in BOOLEAN, call' \in [Owners -> Stands], halted' \in BOOLEAN
    PROVE  BridgeInv' /\ state' = "stopped"
<1> USE KurobotAssumption, BridgeAssumption DEF BridgeInv, StopAll, Stop,
       CloseHeld, ClearTimers, ClearPending, NoCommands, NoQueries, MarkStale, Used,
       Orphaned, vars, connVars, timerVars, sockVars
<1>1. TypeOK'
  BY DEF TypeOK, SocketsAccounted
<1>2. BridgeTypeOK'
  BY DEF TypeOK, BridgeTypeOK, Tables, Kinds
<1>3. OneLiveConnection'
  BY DEF TypeOK, OneLiveConnection, ObjectLife, SocketsAccounted
<1>4. ObjectLife'
  BY DEF TypeOK, OneLiveConnection, ObjectLife, SocketsAccounted
<1>5. SocketsAccounted'
  BY DEF TypeOK, OneLiveConnection, ObjectLife, SocketsAccounted
<1>6. BindingsFresh'
  BY DEF TypeOK, BridgeTypeOK, OneLiveConnection, ObjectLife, SocketsAccounted,
         BindingsFresh
<1>7. FilterReleased'
  BY DEF TypeOK, OneLiveConnection, ObjectLife, SocketsAccounted, FilterReleased
<1>8. CommandsAccounted'
  BY DEF BridgeTypeOK, CommandsAccounted
<1>9. AnsweredOnce'
  BY DEF BridgeTypeOK, CommandsAccounted, AnsweredOnce
<1> QED
  BY <1>1, <1>2, <1>3, <1>4, <1>5, <1>6, <1>7, <1>8, <1>9

\* Between hooks only the flag and the calls change: the flag goes up over a
\* connection, or down where none is left.
LEMMA FlagKeeps ==
    ASSUME BridgeInv, UNCHANGED <<vars, tableVars, historyVars, subscribed, orphans>>,
           started' \in BOOLEAN, call' \in [Owners -> Stands], halted' \in BOOLEAN,
           ((Lively => Lively') /\ (started => started')) \/ state = "stopped"
    PROVE  BridgeInv'
<1> USE KurobotAssumption, BridgeAssumption DEF BridgeInv, vars, connVars, timerVars,
       sockVars, tableVars, historyVars
<1>1. TypeOK'
  BY DEF TypeOK
<1>2. BridgeTypeOK'
  BY DEF TypeOK, BridgeTypeOK, Tables, Kinds
<1>3. OneLiveConnection'
  BY DEF TypeOK, OneLiveConnection, ObjectLife, SocketsAccounted
<1>4. ObjectLife'
  BY DEF TypeOK, OneLiveConnection, ObjectLife, SocketsAccounted
<1>5. SocketsAccounted'
  BY DEF TypeOK, OneLiveConnection, ObjectLife, SocketsAccounted
<1>6. BindingsFresh'
  BY DEF TypeOK, BridgeTypeOK, OneLiveConnection, ObjectLife, SocketsAccounted,
         BindingsFresh
<1>7. FilterReleased'
  BY DEF TypeOK, OneLiveConnection, ObjectLife, SocketsAccounted, FilterReleased
<1>8. CommandsAccounted'
  BY DEF BridgeTypeOK, CommandsAccounted
<1>9. AnsweredOnce'
  BY DEF BridgeTypeOK, CommandsAccounted, AnsweredOnce
<1> QED
  BY <1>1, <1>2, <1>3, <1>4, <1>5, <1>6, <1>7, <1>8, <1>9

LEMMA LifeStepKeeps ==
    ASSUME Orderly, BridgeInv, CallsAccounted, NEW k \in Owners, LifeStep(k)
    PROVE  BridgeInv' /\ CallsAccounted'
<1> USE DEF Goes
<1>1. /\ \A j \in Owners : j = k
      /\ ~ReloadsIdle
      /\ call \in [Owners -> Stands] /\ started \in BOOLEAN /\ halted \in BOOLEAN
      /\ Lively <=> started \/ call[k] = "started"
      /\ Lively' <=> started' \/ call'[k] = "started"
  BY DEF Orderly, Lively, BridgeInv, BridgeTypeOK
<1>2. /\ ~Lively => state \in {"idle", "stopped"}
      /\ ~started \/ state = "stopped" => ~filterOn
  BY DEF BridgeInv, ObjectLife, FilterReleased
<1>3. CASE StartLoaded(k) \/ ReloadRebuilds(k)
  <2>1. /\ StartKurobot /\ started' = started /\ halted' = halted
        /\ call' \in [Owners -> Stands]
    BY <1>1, <1>3 DEF StartLoaded, ReloadRebuilds, Stands
  <2>2. state \in {"idle", "stopped"} /\ ~filterOn /\ Lively'
    BY <1>1, <1>2, <1>3 DEF StartLoaded, ReloadRebuilds, CallsAccounted
  <2>3. CallsAccounted'
    BY <1>1, <1>3 DEF StartLoaded, ReloadRebuilds, CallsAccounted
  <2> QED
    BY <1>1, <2>1, <2>2, <2>3, StartKurobotKeeps
<1>4. CASE StopCalled(k) \/ ReloadLoaded(k)
  <2>1. /\ StopAll /\ started' = started /\ halted' = halted
        /\ call' \in [Owners -> Stands]
    BY <1>1, <1>4 DEF StopCalled, ReloadLoaded, Stands
  <2>2. BridgeInv' /\ state' = "stopped"
    BY <1>1, <2>1, StopAllKeeps
  <2>3. CallsAccounted'
    BY <1>1, <1>4, <2>2 DEF StopCalled, ReloadLoaded, CallsAccounted
  <2> QED
    BY <2>2, <2>3
<1>5. CASE \/ StartCalled(k) \/ StartReturns(k) \/ LoadFails(k) \/ StopReturns(k)
           \/ StopSkipped(k) \/ ReloadCalled(k)
  <2>1. /\ UNCHANGED <<vars, tableVars, historyVars, subscribed, orphans>>
        /\ started' \in BOOLEAN /\ halted' \in BOOLEAN
        /\ call' \in [Owners -> Stands]
    BY <1>1, <1>5 DEF StartCalled, StartReturns, LoadFails, StopReturns, StopSkipped,
       ReloadCalled, Stands
  <2>2. ((Lively => Lively') /\ (started => started')) \/ state = "stopped"
    BY <1>1, <1>5 DEF StartCalled, StartReturns, LoadFails, StopReturns, StopSkipped,
       ReloadCalled, CallsAccounted
  <2>3. state' = state
    BY <2>1 DEF vars, connVars
  <2>4. CallsAccounted'
    BY <1>1, <1>5, <2>3 DEF StartCalled, StartReturns, LoadFails, StopReturns,
       StopSkipped, ReloadCalled, CallsAccounted
  <2> QED
    BY <2>1, <2>2, <2>4, FlagKeeps
<1> QED
  BY <1>3, <1>4, <1>5 DEF LifeStep

(* The events. They come when no continuation is due, and leave the calls   *)
(* alone: what is alive is started.                                        *)

LEMMA EstablishedKeeps ==
    ASSUME BridgeInv, Lively' = Lively, Lively => started,
           NEW s \in Sockets, NEW id \in HelloIds, NEW table \in Tables,
           Established(s, id, table)
    PROVE  BridgeInv'
<1> USE KurobotAssumption, BridgeAssumption DEF BridgeInv, Established,
       OnHelloAckOk, ClearPending, NoCommands, NoQueries, MarkStale, Used,
       SetBindings, lifeVars
<1>1. TypeOK'
  <2>1. accepted' \in [Sockets -> BOOLEAN]
    BY Zenon DEF TypeOK
  <2>2. pingTimer' \in BOOLEAN /\ helloTimer' \in BOOLEAN
    BY Zenon
  <2>3. state' \in States /\ attempt' \in 0..MaxAttempt
    OBVIOUS
  <2>4. UNCHANGED <<ws, userStopped, rejected, pendingHelloId, retryTimer, sock, helloOf,
                    appSent, reports>>
    OBVIOUS
  <2> QED
    BY <2>1, <2>2, <2>3, <2>4, Zenon DEF TypeOK
<1>2. BridgeTypeOK'
  BY DEF TypeOK, BridgeTypeOK, Tables, Kinds
<1>3. OneLiveConnection'
  BY DEF TypeOK, OneLiveConnection, ObjectLife, SocketsAccounted
<1>4. ObjectLife'
  BY DEF TypeOK, OneLiveConnection, ObjectLife, SocketsAccounted
<1>5. SocketsAccounted'
  BY DEF TypeOK, OneLiveConnection, ObjectLife, SocketsAccounted
<1>6. BindingsFresh'
  BY DEF TypeOK, BridgeTypeOK, OneLiveConnection, ObjectLife, SocketsAccounted,
         BindingsFresh
<1>7. FilterReleased'
  BY DEF TypeOK, OneLiveConnection, ObjectLife, SocketsAccounted, FilterReleased
<1>8. CommandsAccounted'
  BY DEF BridgeTypeOK, CommandsAccounted
<1>9. AnsweredOnce'
  BY DEF BridgeTypeOK, CommandsAccounted, AnsweredOnce
<1> QED
  BY <1>1, <1>2, <1>3, <1>4, <1>5, <1>6, <1>7, <1>8, <1>9

LEMMA RefusedKeeps ==
    ASSUME BridgeInv, Lively' = Lively, Lively => started,
           NEW s \in Sockets, NEW id \in HelloIds, Refused(s, id)
    PROVE  BridgeInv'
<1> USE KurobotAssumption, BridgeAssumption DEF BridgeInv, Refused,
       OnHelloAckRefused, OnEnded, CloseHeld, ClearTimers, ClearPending, NoCommands,
       NoQueries, MarkStale, Used, lifeVars, tableVars
<1>1. TypeOK'
  <2>1. sock' \in [Sockets -> ReadyStates]
    BY DEF TypeOK
  <2>2. reports' \in Nat
    BY DEF TypeOK
  <2>3. /\ state' \in States /\ ws' \in Sockets \cup {NoSocket}
        /\ pendingHelloId' \in HelloIds \cup {NoId}
    OBVIOUS
  <2>4. /\ rejected' \in BOOLEAN /\ helloTimer' \in BOOLEAN /\ pingTimer' \in BOOLEAN
        /\ retryTimer' \in BOOLEAN
    BY Zenon
  <2>5. UNCHANGED <<userStopped, attempt, helloOf, accepted, appSent>>
    OBVIOUS
  <2> QED
    BY <2>1, <2>2, <2>3, <2>4, <2>5, Zenon DEF TypeOK
<1>2. BridgeTypeOK'
  BY DEF TypeOK, BridgeTypeOK, Tables, Kinds
<1>3. OneLiveConnection'
  BY DEF TypeOK, OneLiveConnection, ObjectLife, SocketsAccounted
<1>4. ObjectLife'
  BY DEF TypeOK, OneLiveConnection, ObjectLife, SocketsAccounted
<1>5. SocketsAccounted'
  BY DEF TypeOK, OneLiveConnection, ObjectLife, SocketsAccounted
<1>6. BindingsFresh'
  BY DEF TypeOK, BridgeTypeOK, OneLiveConnection, ObjectLife, SocketsAccounted,
         BindingsFresh
<1>7. FilterReleased'
  BY DEF TypeOK, OneLiveConnection, ObjectLife, SocketsAccounted, FilterReleased
<1>8. CommandsAccounted'
  BY DEF BridgeTypeOK, CommandsAccounted
<1>9. AnsweredOnce'
  BY DEF BridgeTypeOK, CommandsAccounted, AnsweredOnce
<1> QED
  BY <1>1, <1>2, <1>3, <1>4, <1>5, <1>6, <1>7, <1>8, <1>9

LEMMA ClosedKeeps ==
    ASSUME BridgeInv, Lively' = Lively, Lively => started,
           NEW s \in Sockets, NEW code \in CloseCodes, Closed(s, code)
    PROVE  BridgeInv'
<1> USE KurobotAssumption, BridgeAssumption DEF BridgeInv, Closed, OnClose, OnEnded,
       ScheduleRetry, NextAttempt, ClearPending, NoCommands, NoQueries, MarkStale,
       Used, lifeVars, tableVars
<1>1. TypeOK'
  <2>1. attempt' \in 0..MaxAttempt /\ reports' \in Nat
    BY DEF TypeOK
  <2>2. sock' \in [Sockets -> ReadyStates]
    BY DEF TypeOK
  <2>3. state' \in States /\ retryTimer' \in BOOLEAN /\ rejected' \in BOOLEAN
    BY DEF TypeOK
  <2>4. ws' \in Sockets \cup {NoSocket}
    OBVIOUS
  <2>5. helloTimer' \in BOOLEAN /\ pingTimer' \in BOOLEAN
    BY Zenon
  <2>6. UNCHANGED <<userStopped, pendingHelloId, helloOf, accepted, appSent>>
    OBVIOUS
  <2> QED
    BY <2>1, <2>2, <2>3, <2>4, <2>5, <2>6, Zenon DEF TypeOK
<1>2. BridgeTypeOK'
  BY DEF TypeOK, BridgeTypeOK, Tables, Kinds
<1>3. OneLiveConnection'
  BY DEF TypeOK, OneLiveConnection, ObjectLife, SocketsAccounted
<1>4. ObjectLife'
  BY DEF TypeOK, OneLiveConnection, ObjectLife, SocketsAccounted
<1>5. SocketsAccounted'
  BY DEF TypeOK, OneLiveConnection, ObjectLife, SocketsAccounted
<1>6. BindingsFresh'
  BY DEF TypeOK, BridgeTypeOK, OneLiveConnection, ObjectLife, SocketsAccounted,
         BindingsFresh
<1>7. FilterReleased'
  BY DEF TypeOK, OneLiveConnection, ObjectLife, SocketsAccounted, FilterReleased
<1>8. CommandsAccounted'
  BY DEF BridgeTypeOK, CommandsAccounted
<1>9. AnsweredOnce'
  BY DEF BridgeTypeOK, CommandsAccounted, AnsweredOnce
<1> QED
  BY <1>1, <1>2, <1>3, <1>4, <1>5, <1>6, <1>7, <1>8, <1>9

LEMMA OrphanClosedKeeps ==
    ASSUME BridgeInv, Lively' = Lively, Lively => started,
           NEW s \in Sockets, OrphanClosed(s)
    PROVE  BridgeInv'
<1> USE KurobotAssumption, BridgeAssumption DEF BridgeInv, OrphanClosed, connVars,
       timerVars, tableVars, historyVars
<1>1. TypeOK'
  BY DEF TypeOK, SocketsAccounted
<1>2. OneLiveConnection' /\ ObjectLife' /\ SocketsAccounted'
  BY DEF TypeOK, OneLiveConnection, ObjectLife, SocketsAccounted
<1>3. BindingsFresh' /\ FilterReleased'
  BY DEF TypeOK, OneLiveConnection, ObjectLife, SocketsAccounted, BindingsFresh,
         FilterReleased
<1>4. BridgeTypeOK' /\ CommandsAccounted' /\ AnsweredOnce'
  BY DEF BridgeTypeOK, CommandsAccounted, AnsweredOnce
<1> QED
  BY <1>1, <1>2, <1>3, <1>4

LEMMA BindingsUpdatedKeeps ==
    ASSUME BridgeInv, Lively' = Lively, Lively => started,
           NEW s \in Sockets, NEW table \in Tables, BindingsUpdated(s, table)
    PROVE  BridgeInv'
<1> USE KurobotAssumption, BridgeAssumption DEF BridgeInv, BindingsUpdated,
       SetBindings, lifeVars, vars, connVars, timerVars, sockVars
<1>1. TypeOK' /\ OneLiveConnection' /\ ObjectLife' /\ SocketsAccounted'
  BY DEF TypeOK, OneLiveConnection, ObjectLife, SocketsAccounted
<1>2. BridgeTypeOK'
  BY DEF TypeOK, BridgeTypeOK, Tables, Kinds
<1>3. BindingsFresh'
  BY DEF TypeOK, BridgeTypeOK, OneLiveConnection, ObjectLife, SocketsAccounted,
         BindingsFresh
<1>4. FilterReleased'
  BY DEF TypeOK, OneLiveConnection, ObjectLife, SocketsAccounted, FilterReleased
<1>5. CommandsAccounted'
  BY DEF BridgeTypeOK, CommandsAccounted
<1>6. AnsweredOnce'
  BY DEF BridgeTypeOK, CommandsAccounted, AnsweredOnce
<1> QED
  BY <1>1, <1>2, <1>3, <1>4, <1>5, <1>6

LEMMA CommandResultKeeps ==
    ASSUME BridgeInv, Lively' = Lively, Lively => started,
           NEW s \in Sockets, NEW c \in Commands, CommandResult(s, c)
    PROVE  BridgeInv'
<1> USE KurobotAssumption, BridgeAssumption DEF BridgeInv, CommandResult, lifeVars,
       vars, connVars, timerVars, sockVars
<1>1. TypeOK' /\ OneLiveConnection' /\ ObjectLife' /\ SocketsAccounted'
  BY DEF TypeOK, OneLiveConnection, ObjectLife, SocketsAccounted
<1>2. BridgeTypeOK'
  BY DEF TypeOK, BridgeTypeOK, Tables, Kinds
<1>3. BindingsFresh'
  BY DEF TypeOK, BridgeTypeOK, OneLiveConnection, ObjectLife, SocketsAccounted,
         BindingsFresh
<1>4. FilterReleased'
  BY DEF TypeOK, OneLiveConnection, ObjectLife, SocketsAccounted, FilterReleased
<1>5. CommandsAccounted'
  BY DEF BridgeTypeOK, CommandsAccounted
<1>6. AnsweredOnce'
  <2>1. replies[c] = << >> /\ pendingCommands[c] = issuer[c]
    BY DEF CommandsAccounted
  <2>2. replies'[c] = <<issuer[c]>> /\ issuer' = issuer
    BY <2>1 DEF BridgeTypeOK
  <2>3. \A d \in Commands \ {c} : replies'[d] = replies[d]
    BY DEF BridgeTypeOK
  <2> QED
    BY <2>2, <2>3 DEF AnsweredOnce
<1> QED
  BY <1>1, <1>2, <1>3, <1>4, <1>5, <1>6

LEMMA QueryResultKeeps ==
    ASSUME BridgeInv, Lively' = Lively, Lively => started,
           NEW s \in Sockets, NEW q \in Queries, NEW ok \in BOOLEAN,
           NEW table \in Tables, QueryResult(s, q, ok, table)
    PROVE  BridgeInv'
<1> USE KurobotAssumption, BridgeAssumption DEF BridgeInv, QueryResult, SetBindings,
       lifeVars, vars, connVars, timerVars, sockVars
<1>1. TypeOK' /\ OneLiveConnection' /\ ObjectLife' /\ SocketsAccounted'
  BY DEF TypeOK, OneLiveConnection, ObjectLife, SocketsAccounted
<1>2. BridgeTypeOK'
  BY DEF TypeOK, BridgeTypeOK, Tables, Kinds
<1>3. BindingsFresh'
  <2>1. state' = state
    BY Zenon
  <2>2. CASE ok /\ pendingQueries[q] = "bindings"
    BY <2>2, Zenon DEF BindingsFresh
  <2>3. CASE ~(ok /\ pendingQueries[q] = "bindings")
    BY <2>1, <2>3, Zenon DEF BindingsFresh
  <2> QED
    BY <2>2, <2>3
<1>4. FilterReleased'
  BY DEF TypeOK, OneLiveConnection, ObjectLife, SocketsAccounted, FilterReleased
<1>5. CommandsAccounted'
  BY DEF BridgeTypeOK, CommandsAccounted
<1>6. AnsweredOnce'
  BY DEF BridgeTypeOK, CommandsAccounted, AnsweredOnce
<1> QED
  BY <1>1, <1>2, <1>3, <1>4, <1>5, <1>6

LEMMA GroupCommandKeeps ==
    ASSUME BridgeInv, Lively' = Lively, Lively => started,
           NEW ch \in Channels, NEW c \in Commands, GroupCommand(ch, c)
    PROVE  BridgeInv'
<1> USE KurobotAssumption, BridgeAssumption DEF BridgeInv, GroupCommand, Used,
       SendFrame, CanSend, lifeVars, connVars, timerVars
<1>1. TypeOK'
  BY DEF TypeOK, SocketsAccounted
<1>2. BridgeTypeOK'
  BY DEF TypeOK, BridgeTypeOK, Tables, Kinds
<1>3. OneLiveConnection'
  BY DEF TypeOK, OneLiveConnection, ObjectLife, SocketsAccounted
<1>4. ObjectLife'
  BY DEF TypeOK, OneLiveConnection, ObjectLife, SocketsAccounted
<1>5. SocketsAccounted'
  BY DEF TypeOK, OneLiveConnection, ObjectLife, SocketsAccounted
<1>6. BindingsFresh'
  BY DEF TypeOK, BridgeTypeOK, OneLiveConnection, ObjectLife, SocketsAccounted,
         BindingsFresh
<1>7. FilterReleased'
  BY DEF TypeOK, OneLiveConnection, ObjectLife, SocketsAccounted, FilterReleased
<1>8. CommandsAccounted'
  BY DEF BridgeTypeOK, CommandsAccounted
<1>9. AnsweredOnce'
  BY DEF BridgeTypeOK, CommandsAccounted, AnsweredOnce
<1> QED
  BY <1>1, <1>2, <1>3, <1>4, <1>5, <1>6, <1>7, <1>8, <1>9

LEMMA GroupChatKeeps ==
    ASSUME BridgeInv, Lively' = Lively, Lively => started,
           NEW ch \in Channels, GroupChat(ch)
    PROVE  BridgeInv'
<1> USE KurobotAssumption, BridgeAssumption DEF BridgeInv, GroupChat, SendFrame,
       CanSend, bridgeVars, lifeVars, tableVars, historyVars, connVars, timerVars
<1>1. TypeOK'
  BY DEF TypeOK, SocketsAccounted
<1>2. OneLiveConnection' /\ ObjectLife' /\ SocketsAccounted'
  BY DEF TypeOK, OneLiveConnection, ObjectLife, SocketsAccounted
<1>3. BindingsFresh' /\ FilterReleased'
  BY DEF TypeOK, OneLiveConnection, ObjectLife, SocketsAccounted, BindingsFresh,
         FilterReleased
<1>4. BridgeTypeOK' /\ CommandsAccounted' /\ AnsweredOnce'
  BY DEF BridgeTypeOK, CommandsAccounted, AnsweredOnce
<1> QED
  BY <1>1, <1>2, <1>3, <1>4

LEMMA QueryKeeps ==
    ASSUME BridgeInv, Lively' = Lively, Lively => started,
           NEW q \in Queries, NEW kind \in Kinds, Query(q, kind)
    PROVE  BridgeInv'
<1> USE KurobotAssumption, BridgeAssumption DEF BridgeInv, Query, SendFrame,
       CanSend, lifeVars, vars, connVars, timerVars, sockVars
<1>1. TypeOK'
  BY DEF TypeOK, SocketsAccounted
<1>2. BridgeTypeOK'
  BY DEF TypeOK, BridgeTypeOK, Tables, Kinds
<1>3. OneLiveConnection'
  BY DEF TypeOK, OneLiveConnection, ObjectLife, SocketsAccounted
<1>4. ObjectLife'
  BY DEF TypeOK, OneLiveConnection, ObjectLife, SocketsAccounted
<1>5. SocketsAccounted'
  BY DEF TypeOK, OneLiveConnection, ObjectLife, SocketsAccounted
<1>6. BindingsFresh'
  BY DEF TypeOK, BridgeTypeOK, OneLiveConnection, ObjectLife, SocketsAccounted,
         BindingsFresh
<1>7. FilterReleased'
  BY DEF TypeOK, OneLiveConnection, ObjectLife, SocketsAccounted, FilterReleased
<1>8. CommandsAccounted'
  BY DEF BridgeTypeOK, CommandsAccounted
<1>9. AnsweredOnce'
  BY DEF BridgeTypeOK, CommandsAccounted, AnsweredOnce
<1> QED
  BY <1>1, <1>2, <1>3, <1>4, <1>5, <1>6, <1>7, <1>8, <1>9

LEMMA OnOpenKeeps ==
    ASSUME BridgeInv, Lively' = Lively, Lively => started,
           NEW s \in Sockets, UNCHANGED bridgeVars, OnOpen(s)
    PROVE  BridgeInv'
<1> USE KurobotAssumption, BridgeAssumption DEF BridgeInv, OnOpen, bridgeVars,
       lifeVars, tableVars, historyVars
<1>1. TypeOK'
  BY DEF TypeOK, SocketsAccounted
<1>2. OneLiveConnection' /\ ObjectLife' /\ SocketsAccounted'
  BY DEF TypeOK, OneLiveConnection, ObjectLife, SocketsAccounted
<1>3. BindingsFresh' /\ FilterReleased'
  BY DEF TypeOK, OneLiveConnection, ObjectLife, SocketsAccounted, BindingsFresh,
         FilterReleased
<1>4. BridgeTypeOK' /\ CommandsAccounted' /\ AnsweredOnce'
  BY DEF BridgeTypeOK, CommandsAccounted, AnsweredOnce
<1> QED
  BY <1>1, <1>2, <1>3, <1>4

LEMMA PeerClosesKeeps ==
    ASSUME BridgeInv, Lively' = Lively, Lively => started,
           NEW s \in Sockets, UNCHANGED bridgeVars, PeerCloses(s)
    PROVE  BridgeInv'
<1> USE KurobotAssumption, BridgeAssumption DEF BridgeInv, PeerCloses, bridgeVars,
       lifeVars, tableVars, historyVars, connVars, timerVars
<1>1. TypeOK'
  BY DEF TypeOK, SocketsAccounted
<1>2. OneLiveConnection' /\ ObjectLife' /\ SocketsAccounted'
  BY DEF TypeOK, OneLiveConnection, ObjectLife, SocketsAccounted
<1>3. BindingsFresh' /\ FilterReleased'
  BY DEF TypeOK, OneLiveConnection, ObjectLife, SocketsAccounted, BindingsFresh,
         FilterReleased
<1>4. BridgeTypeOK' /\ CommandsAccounted' /\ AnsweredOnce'
  BY DEF BridgeTypeOK, CommandsAccounted, AnsweredOnce
<1> QED
  BY <1>1, <1>2, <1>3, <1>4

LEMMA HelloTimeoutKeeps ==
    ASSUME BridgeInv, Lively' = Lively, Lively => started,
           UNCHANGED bridgeVars, HelloTimeout
    PROVE  BridgeInv'
<1> USE KurobotAssumption, BridgeAssumption DEF BridgeInv, HelloTimeout, CloseHeld,
       bridgeVars, lifeVars, tableVars, historyVars, connVars
<1>1. TypeOK'
  BY DEF TypeOK, SocketsAccounted
<1>2. OneLiveConnection' /\ ObjectLife' /\ SocketsAccounted'
  BY DEF TypeOK, OneLiveConnection, ObjectLife, SocketsAccounted
<1>3. BindingsFresh' /\ FilterReleased'
  BY DEF TypeOK, OneLiveConnection, ObjectLife, SocketsAccounted, BindingsFresh,
         FilterReleased
<1>4. BridgeTypeOK' /\ CommandsAccounted' /\ AnsweredOnce'
  BY DEF BridgeTypeOK, CommandsAccounted, AnsweredOnce
<1> QED
  BY <1>1, <1>2, <1>3, <1>4

LEMMA RetryFiresKeeps ==
    ASSUME BridgeInv, Lively' = Lively, Lively => started,
           UNCHANGED bridgeVars, RetryFires
    PROVE  BridgeInv'
<1> USE KurobotAssumption, BridgeAssumption DEF BridgeInv, RetryFires, Connect,
       bridgeVars, lifeVars, tableVars, historyVars, connVars, timerVars, sockVars
<1>1. TypeOK'
  BY DEF TypeOK, SocketsAccounted
<1>2. OneLiveConnection' /\ ObjectLife' /\ SocketsAccounted'
  BY DEF TypeOK, OneLiveConnection, ObjectLife, SocketsAccounted
<1>3. BindingsFresh' /\ FilterReleased'
  BY DEF TypeOK, OneLiveConnection, ObjectLife, SocketsAccounted, BindingsFresh,
         FilterReleased
<1>4. BridgeTypeOK' /\ CommandsAccounted' /\ AnsweredOnce'
  BY DEF BridgeTypeOK, CommandsAccounted, AnsweredOnce
<1> QED
  BY <1>1, <1>2, <1>3, <1>4

LEMMA SendFrameKeeps ==
    ASSUME BridgeInv, Lively' = Lively, Lively => started,
           UNCHANGED bridgeVars, SendFrame
    PROVE  BridgeInv'
<1> USE KurobotAssumption, BridgeAssumption DEF BridgeInv, SendFrame, CanSend,
       bridgeVars, lifeVars, tableVars, historyVars, connVars, timerVars
<1>1. TypeOK'
  BY DEF TypeOK, SocketsAccounted
<1>2. OneLiveConnection' /\ ObjectLife' /\ SocketsAccounted'
  BY DEF TypeOK, OneLiveConnection, ObjectLife, SocketsAccounted
<1>3. BindingsFresh' /\ FilterReleased'
  BY DEF TypeOK, OneLiveConnection, ObjectLife, SocketsAccounted, BindingsFresh,
         FilterReleased
<1>4. BridgeTypeOK' /\ CommandsAccounted' /\ AnsweredOnce'
  BY DEF BridgeTypeOK, CommandsAccounted, AnsweredOnce
<1> QED
  BY <1>1, <1>2, <1>3, <1>4

LEMMA BridgeNextKeeps ==
    ASSUME Orderly
    PROVE  BridgeInv /\ CallsAccounted /\ [BridgeNext]_allVars => BridgeInv' /\ CallsAccounted'
<1> SUFFICES ASSUME BridgeInv, CallsAccounted, [BridgeNext]_allVars
             PROVE  BridgeInv' /\ CallsAccounted'
  OBVIOUS
<1>1. ASSUME NEW k \in Owners, LifeStep(k) PROVE BridgeInv' /\ CallsAccounted'
  BY <1>1, LifeStepKeeps
<1>2. CASE Settled /\ BridgeEvent
  <2>1. UNCHANGED <<started, call>>
    BY <1>2, Zenon DEF BridgeEvent, ConnectionStep, Established, Refused, Closed,
       OrphanClosed, BindingsUpdated, QueryResult, CommandResult, GroupCommand, GroupChat,
       Query, bridgeVars, lifeVars
  <2>2. Lively' = Lively /\ (Lively => started)
    BY <1>2, <2>1 DEF Lively, Settled
  <2>3. CallsAccounted'
    BY <1>2, <2>1 DEF CallsAccounted, Settled
  <2>4. CASE ConnectionStep
    <3>1. UNCHANGED bridgeVars
      BY <2>4 DEF ConnectionStep
    <3>2. CASE HelloTimeout
      BY <2>2, <2>3, <3>1, <3>2, HelloTimeoutKeeps
    <3>3. CASE PingTick
      BY <2>2, <2>3, <3>1, <3>3, SendFrameKeeps DEF PingTick
    <3>4. CASE RetryFires
      BY <2>2, <2>3, <3>1, <3>4, RetryFiresKeeps
    <3>5. CASE \E s \in Sockets : OnOpen(s) \/ OnUnknownRequest(s) \/ PeerCloses(s)
      BY <2>2, <2>3, <3>1, <3>5, OnOpenKeeps, SendFrameKeeps, PeerClosesKeeps
         DEF OnUnknownRequest
    <3> QED
      BY <2>4, <3>2, <3>3, <3>4, <3>5 DEF ConnectionStep
  <2>5. ASSUME NEW s \in Sockets, NEW id \in HelloIds,
               Refused(s, id) \/ \E table \in Tables : Established(s, id, table)
        PROVE  BridgeInv'
    BY <2>2, <2>5, EstablishedKeeps, RefusedKeeps
  <2>6. ASSUME NEW s \in Sockets, OrphanClosed(s) \/ \E code \in CloseCodes : Closed(s, code)
        PROVE  BridgeInv'
    BY <2>2, <2>6, ClosedKeeps, OrphanClosedKeeps
  <2>7. ASSUME NEW s \in Sockets, NEW table \in Tables,
               \/ BindingsUpdated(s, table)
               \/ \E q \in Queries, ok \in BOOLEAN : QueryResult(s, q, ok, table)
        PROVE  BridgeInv'
    BY <2>2, <2>7, BindingsUpdatedKeeps, QueryResultKeeps
  <2>8. ASSUME NEW s \in Sockets, NEW c \in Commands, CommandResult(s, c) PROVE BridgeInv'
    BY <2>2, <2>8, CommandResultKeeps
  <2>9. ASSUME NEW ch \in Channels, GroupChat(ch) \/ \E c \in Commands : GroupCommand(ch, c)
        PROVE  BridgeInv'
    BY <2>2, <2>9, GroupChatKeeps, GroupCommandKeeps
  <2>10. ASSUME NEW q \in Queries, NEW kind \in Kinds, Query(q, kind) PROVE BridgeInv'
    BY <2>2, <2>10, QueryKeeps
  <2> QED
    BY <1>2, <2>3, <2>4, <2>5, <2>6, <2>7, <2>8, <2>9, <2>10, Zenon DEF BridgeEvent
<1>3. CASE UNCHANGED allVars
  <2>1. /\ UNCHANGED <<vars, tableVars, historyVars, subscribed, orphans>>
        /\ UNCHANGED <<started, call, halted, state>>
    BY <1>3 DEF allVars, bridgeVars, lifeVars, vars, connVars
  <2>2. /\ started' \in BOOLEAN /\ halted' \in BOOLEAN /\ call' \in [Owners -> Stands]
        /\ Lively => Lively'
    BY <2>1 DEF BridgeInv, BridgeTypeOK, Lively
  <2>3. CallsAccounted'
    BY <2>1 DEF CallsAccounted
  <2> QED
    BY <2>1, <2>2, <2>3, FlagKeeps
<1> QED
  BY <1>1, <1>2, <1>3 DEF BridgeNext

LEMMA BridgeInvariance ==
    ASSUME Orderly
    PROVE  BridgeSpec => []BridgeInv
<1>1. BridgeInit => BridgeInv /\ CallsAccounted
  BY BridgeInitially DEF BridgeInit, CallsAccounted
<1> QED
  BY <1>1, BridgeNextKeeps, PTL DEF BridgeSpec

-----------------------------------------------------------------------------
(* The theorems.                                                           *)

\* Over every stop, start and reload of an adapter whose owner awaits its calls
\* and reloads only what it started, a socket that is coming up or open is the
\* held one of a started adapter, wherever the call under way stands.
THEOREM NeverTwoConnections ==
    ASSUME Orderly
    PROVE  BridgeSpec => []OneLiveConnection
<1>1. BridgeInv => OneLiveConnection
  BY DEF BridgeInv
<1> QED
  BY <1>1, BridgeInvariance, PTL

\* While established, chat leaves only the groups the server announced last.
THEOREM BindingsFollowServer ==
    ASSUME Orderly
    PROVE  BridgeSpec => []BindingsFresh
<1>1. BridgeInv => BindingsFresh
  BY DEF BridgeInv
<1> QED
  BY <1>1, BridgeInvariance, PTL

\* No receive filter outlives the connection it was installed for.
THEOREM FilterGoesWithConnection ==
    ASSUME Orderly
    PROVE  BridgeSpec => []FilterReleased
<1>1. BridgeInv => FilterReleased
  BY DEF BridgeInv
<1> QED
  BY <1>1, BridgeInvariance, PTL

\* A command is answered at most once, and to the group that issued it.
THEOREM AnswerGoesHome ==
    ASSUME Orderly
    PROVE  BridgeSpec => []AnsweredOnce
<1>1. BridgeInv => AnsweredOnce
  BY DEF BridgeInv
<1> QED
  BY <1>1, BridgeInvariance, PTL

\* A command of an earlier session is never answered: it has left the table,
\* and what is not in the table gets no reply.
THEOREM NoLateAnswer ==
    ASSUME Orderly
    PROVE  BridgeSpec => NoStaleAnswer
<1> DEFINE Silent == \A c \in stale : replies'[c] = replies[c]
<1>1. BridgeInv /\ [BridgeNext]_allVars => [Silent]_allVars
  <2> SUFFICES ASSUME BridgeInv, BridgeNext, NEW c \in stale PROVE replies'[c] = replies[c]
    OBVIOUS
  <2>1. c \in Commands /\ pendingCommands[c] = NoChannel
    BY DEF BridgeInv, BridgeTypeOK, CommandsAccounted
  <2>2. ASSUME NEW s \in Sockets, NEW d \in Commands, CommandResult(s, d)
        PROVE  replies'[c] = replies[c]
    BY <2>1, <2>2 DEF CommandResult, BridgeInv, BridgeTypeOK
  <2>3. ASSUME \A s \in Sockets, d \in Commands : ~CommandResult(s, d)
        PROVE  replies' = replies
    BY <2>3, Zenon DEF BridgeNext, BridgeEvent, LifeStep, StartCalled, StartLoaded,
           StartReturns, LoadFails, StopCalled, StopReturns, StopSkipped, ReloadCalled,
           ReloadLoaded, ReloadRebuilds, StartKurobot, StopAll, ConnectionStep,
           Established, Refused, Closed, OrphanClosed, BindingsUpdated,
           QueryResult, GroupCommand, GroupChat, Query, bridgeVars, historyVars
  <2> QED
    BY <2>2, <2>3
<1> QED
  BY <1>1, BridgeInvariance, PTL DEF BridgeSpec, NoStaleAnswer
==============================================================================
