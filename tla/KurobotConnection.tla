------------------------- MODULE KurobotConnection -------------------------
(***************************************************************************)
(* The kurobridge-ws client connection of packages/adapter/src/kurobot/    *)
(* connection.ts (class KurobotConnection): hello handshake, application   *)
(* ping, back-off reconnection, user stop and permanent rejection.         *)
(*                                                                         *)
(* Every callback of the class (a WebSocket event, a timer, a method call) *)
(* runs to completion on the JavaScript thread, so each is one action.     *)
(* The WebSocket itself (Node's built-in client) and the server are        *)
(* external: a socket delivers open at most once, messages only while      *)
(* open, and one close event, after which it is free to stand for the next *)
(* connection.                                                             *)
(***************************************************************************)
EXTENDS Naturals, FiniteSets

CONSTANTS
    Sockets,     \* identities of the WebSocket objects
    NoSocket,    \* ws = null
    HelloIds,    \* the randomUUID of a hello
    NoId,        \* pendingHelloId = null
    PingOn,      \* pingIntervalMs > 0
    MaxAttempt   \* first attempt whose delay reaches retryMaxDelayMs

ASSUME KurobotAssumption ==
    /\ NoSocket \notin Sockets
    /\ NoId \notin HelloIds
    /\ PingOn \in BOOLEAN
    /\ MaxAttempt \in Nat \ {0}

VARIABLES
    state,           \* ConnectionState
    ws,              \* the socket the object holds, or NoSocket
    userStopped,
    rejected,
    pendingHelloId,
    helloTimer,      \* TRUE: the timer is armed
    pingTimer,
    retryTimer,
    attempt,         \* consecutive failures
    sock,            \* readyState of each WebSocket; "none": not in use
    helloOf,         \* id of the hello written to the socket
    accepted,        \* the server accepted the hello of this socket
    appSent,         \* a frame other than hello was written to the socket
    reports          \* number of onEnded callbacks

connVars == <<state, ws, userStopped, rejected, pendingHelloId, attempt>>
timerVars == <<helloTimer, pingTimer, retryTimer>>
sockVars == <<sock, helloOf, accepted, appSent>>
vars == <<connVars, timerVars, sockVars, reports>>

States == {"idle", "connecting", "establishing", "established", "backoff", "stopped"}
ReadyStates == {"none", "connecting", "open", "closing"}
CloseCodes == {"retryable", "fatal"}    \* fatal: 1002 or 1008

TypeOK ==
    /\ state \in States
    /\ ws \in Sockets \cup {NoSocket}
    /\ userStopped \in BOOLEAN
    /\ rejected \in BOOLEAN
    /\ pendingHelloId \in HelloIds \cup {NoId}
    /\ helloTimer \in BOOLEAN
    /\ pingTimer \in BOOLEAN
    /\ retryTimer \in BOOLEAN
    /\ attempt \in 0..MaxAttempt
    /\ sock \in [Sockets -> ReadyStates]
    /\ helloOf \in [Sockets -> HelloIds \cup {NoId}]
    /\ accepted \in [Sockets -> BOOLEAN]
    /\ appSent \in [Sockets -> BOOLEAN]
    /\ reports \in Nat

Init ==
    /\ state = "idle"
    /\ ws = NoSocket
    /\ userStopped = FALSE
    /\ rejected = FALSE
    /\ pendingHelloId = NoId
    /\ helloTimer = FALSE
    /\ pingTimer = FALSE
    /\ retryTimer = FALSE
    /\ attempt = 0
    /\ sock = [s \in Sockets |-> "none"]
    /\ helloOf = [s \in Sockets |-> NoId]
    /\ accepted = [s \in Sockets |-> FALSE]
    /\ appSent = [s \in Sockets |-> FALSE]
    /\ reports = 0

-----------------------------------------------------------------------------
(* Private methods.                                                        *)

ClearTimers ==
    /\ helloTimer' = FALSE
    /\ pingTimer' = FALSE
    /\ retryTimer' = FALSE
    /\ pendingHelloId' = NoId

\* Fault-seeded form of CloseHeld: the field is dropped, the socket is not closed.
FaultyCloseHeld == UNCHANGED sock

\* ws?.close(): the close event follows later; a socket already closing, and
\* no socket at all, are left as they are.
CloseHeld ==
    sock' = [s \in Sockets |-> IF s = ws /\ sock[s] # "none" THEN "closing" ELSE sock[s]]

\* connect(): one fresh WebSocket, unless the object was stopped or rejected.
Connect ==
    IF userStopped \/ rejected
      THEN UNCHANGED <<state, ws, sockVars>>
      ELSE \E s \in Sockets :
             /\ sock[s] = "none"
             /\ state' = "connecting"
             /\ ws' = s
             /\ sock' = [sock EXCEPT ![s] = "connecting"]
             /\ helloOf' = [helloOf EXCEPT ![s] = NoId]
             /\ accepted' = [accepted EXCEPT ![s] = FALSE]
             /\ appSent' = [appSent EXCEPT ![s] = FALSE]

\* The delay is min(base * 2^attempt, max): past MaxAttempt it is constant, so
\* the counter may saturate there.
NextAttempt == IF attempt < MaxAttempt THEN attempt + 1 ELSE attempt

\* Fault-seeded form of ScheduleRetry: gives up once the delay stops growing.
FaultyScheduleRetry ==
    /\ state' = "backoff"
    /\ attempt' = NextAttempt
    /\ retryTimer' = (attempt < MaxAttempt)

\* scheduleRetry(), called with the flags already tested by onClose.
ScheduleRetry ==
    IF retryTimer
      THEN /\ state' = "idle"
           /\ UNCHANGED <<attempt, retryTimer>>
      ELSE /\ state' = "backoff"
           /\ attempt' = NextAttempt
           /\ retryTimer' = TRUE

\* Fault-seeded form of CanSend: only the readyState is tested.
FaultyCanSend == ws # NoSocket /\ sock[ws] = "open"

\* send() reaches the wire only on an established, OPEN connection.
CanSend == state = "established" /\ ws # NoSocket /\ sock[ws] = "open"

SendFrame ==
    /\ CanSend
    /\ appSent' = [appSent EXCEPT ![ws] = TRUE]
    /\ UNCHANGED <<connVars, timerVars, sock, helloOf, accepted, reports>>

-----------------------------------------------------------------------------
(* Calls of the owner.                                                     *)

\* Fault-seeded form of Start: not idempotent.
FaultyStart ==
    /\ state # "stopped"
    /\ Connect
    /\ UNCHANGED <<userStopped, rejected, pendingHelloId, attempt, timerVars, reports>>

Start ==
    /\ state = "idle"
    /\ Connect
    /\ UNCHANGED <<userStopped, rejected, pendingHelloId, attempt, timerVars, reports>>

Stop ==
    /\ state # "stopped"
    /\ userStopped' = TRUE
    /\ ClearTimers
    /\ state' = "stopped"
    /\ ws' = NoSocket
    /\ CloseHeld
    /\ UNCHANGED <<rejected, attempt, helloOf, accepted, appSent, reports>>

\* A chat, command or query of the adapter.
Send == SendFrame

-----------------------------------------------------------------------------
(* WebSocket events.                                                       *)

\* open: the hello goes out at once and its timeout is armed.
OnOpen(s) ==
    /\ sock[s] = "connecting"
    /\ IF ws = NoSocket \/ userStopped \/ rejected
         THEN /\ sock' = [sock EXCEPT ![s] = "open"]
              /\ UNCHANGED <<state, pendingHelloId, helloOf, helloTimer>>
         ELSE \E id \in HelloIds \ {helloOf[t] : t \in Sockets} :
              /\ state' = "establishing"
              /\ pendingHelloId' = id
              /\ sock' = [sock EXCEPT ![s] = "open"]
              /\ helloOf' = [helloOf EXCEPT ![ws] = id]
              /\ helloTimer' = TRUE
    /\ UNCHANGED <<ws, userStopped, rejected, attempt, pingTimer, retryTimer,
                   accepted, appSent, reports>>

\* hello_ack ok. The state is not tested, only the id: a second ack of the
\* same hello establishes again.
OnHelloAckOk(s, id) ==
    /\ sock[s] = "open"
    /\ id = pendingHelloId
    /\ accepted' = [accepted EXCEPT ![s] = (id = helloOf[s])]
    /\ helloTimer' = FALSE
    /\ attempt' = 0
    /\ state' = "established"
    /\ pingTimer' = PingOn
    /\ UNCHANGED <<ws, userStopped, rejected, pendingHelloId, retryTimer, sock,
                   helloOf, appSent, reports>>

\* hello_ack ok:false: reject().
OnHelloAckRefused(s, id) ==
    /\ sock[s] = "open"
    /\ id = pendingHelloId
    /\ rejected' = TRUE
    /\ ClearTimers
    /\ state' = "stopped"
    /\ ws' = NoSocket
    /\ CloseHeld
    /\ reports' = reports + 1
    /\ UNCHANGED <<userStopped, attempt, helloOf, accepted, appSent>>

\* A frame of unknown type that carries an id is answered through send().
OnUnknownRequest(s) ==
    /\ sock[s] = "open"
    /\ SendFrame

\* Fault-seeded form of OnClose: the stop and reject flags are not tested.
FaultyOnClose(s, code) ==
    /\ sock[s] # "none"
    /\ sock[s] = "connecting" => code = "retryable"
    /\ sock' = [sock EXCEPT ![s] = "none"]
    /\ helloTimer' = FALSE
    /\ pingTimer' = FALSE
    /\ ws' = NoSocket
    /\ \/ /\ code = "fatal"
          /\ rejected' = TRUE
          /\ state' = "stopped"
          /\ reports' = reports + 1
          /\ UNCHANGED <<attempt, retryTimer>>
       \/ /\ code = "retryable"
          /\ ScheduleRetry
          /\ UNCHANGED <<rejected, reports>>
    /\ UNCHANGED <<userStopped, pendingHelloId, helloOf, accepted, appSent>>

\* close: stopped or rejected objects stay stopped; codes 1002 and 1008 end the
\* connection for good; anything else is retried.
OnClose(s, code) ==
    /\ sock[s] # "none"
    /\ sock[s] = "connecting" => code = "retryable"
    /\ sock' = [sock EXCEPT ![s] = "none"]
    /\ helloTimer' = FALSE
    /\ pingTimer' = FALSE
    /\ ws' = NoSocket
    /\ \/ /\ userStopped \/ rejected
          /\ state' = "stopped"
          /\ UNCHANGED <<rejected, attempt, retryTimer, reports>>
       \/ /\ ~(userStopped \/ rejected)
          /\ code = "fatal"
          /\ rejected' = TRUE
          /\ state' = "stopped"
          /\ reports' = reports + 1
          /\ UNCHANGED <<attempt, retryTimer>>
       \/ /\ ~(userStopped \/ rejected)
          /\ code = "retryable"
          /\ ScheduleRetry
          /\ UNCHANGED <<rejected, reports>>
    /\ UNCHANGED <<userStopped, pendingHelloId, helloOf, accepted, appSent>>

\* The peer's close frame arrived, or the transport is failing: the socket
\* reads CLOSING while its close event is still to come.
PeerCloses(s) ==
    /\ sock[s] = "open"
    /\ sock' = [sock EXCEPT ![s] = "closing"]
    /\ UNCHANGED <<connVars, timerVars, helloOf, accepted, appSent, reports>>

-----------------------------------------------------------------------------
(* Timers.                                                                 *)

\* Fault-seeded form of HelloTimeout: the socket is left open.
FaultyHelloTimeout ==
    /\ helloTimer
    /\ helloTimer' = FALSE
    /\ UNCHANGED <<connVars, pingTimer, retryTimer, sockVars, reports>>

HelloTimeout ==
    /\ helloTimer
    /\ helloTimer' = FALSE
    /\ IF state = "establishing" THEN CloseHeld ELSE UNCHANGED sock
    /\ UNCHANGED <<connVars, pingTimer, retryTimer, helloOf, accepted, appSent, reports>>

PingTick ==
    /\ pingTimer
    /\ SendFrame

RetryFires ==
    /\ retryTimer
    /\ retryTimer' = FALSE
    /\ Connect
    /\ UNCHANGED <<userStopped, rejected, pendingHelloId, attempt, helloTimer,
                   pingTimer, reports>>

-----------------------------------------------------------------------------

Next ==
    \/ Start
    \/ Stop
    \/ Send
    \/ HelloTimeout
    \/ PingTick
    \/ RetryFires
    \/ \E s \in Sockets :
         \/ OnOpen(s)
         \/ OnUnknownRequest(s)
         \/ PeerCloses(s)
         \/ \E id \in HelloIds : OnHelloAckOk(s, id) \/ OnHelloAckRefused(s, id)
         \/ \E code \in CloseCodes : OnClose(s, code)

Spec == Init /\ [][Next]_vars

\* Timers fire, a connection attempt ends one way or the other, and a closing
\* socket delivers its close event. Nothing is asked of the server.
ConnectEnds(s) == sock[s] = "connecting" /\ (OnOpen(s) \/ OnClose(s, "retryable"))
CloseArrives(s) == sock[s] = "closing" /\ \E code \in CloseCodes : OnClose(s, code)

Fairness ==
    /\ WF_vars(HelloTimeout)
    /\ WF_vars(RetryFires)
    /\ \A s \in Sockets : WF_vars(ConnectEnds(s)) /\ WF_vars(CloseArrives(s))

FairSpec == Spec /\ Fairness

\* A server that keeps giving connections a chance: a connection that is
\* attempted again and again opens again and again, and its hello is answered
\* ok before the timeout at least once in a while.
HealthyServer ==
    \A s \in Sockets :
        /\ SF_vars(OnOpen(s))
        /\ SF_vars(\E id \in HelloIds : OnHelloAckOk(s, id))

-----------------------------------------------------------------------------
(* Properties.                                                             *)

\* No connection leaks: a socket that is coming up or open is the one the
\* object holds, and while the object lives even a closing one is. Two
\* connections of one peer at the server are thereby excluded.
SingleSocket ==
    \A s \in Sockets :
        /\ sock[s] \in {"connecting", "open"} => s = ws
        /\ state # "stopped" /\ sock[s] # "none" => s = ws

\* The object is never stuck: in every state that is not final something is
\* pending that will move it (a socket event or an armed timer), and no timer
\* is armed that belongs to another state.
WakeupPending ==
    /\ state = "connecting" => ws # NoSocket /\ sock[ws] = "connecting"
    /\ state = "establishing" =>
         ws # NoSocket /\ (sock[ws] = "closing" \/ (sock[ws] = "open" /\ helloTimer))
    /\ state = "established" => ws # NoSocket /\ sock[ws] \in {"open", "closing"}
    /\ state = "backoff" => retryTimer /\ ws = NoSocket
    /\ helloTimer => state = "establishing"
    /\ pingTimer <=> state = "established" /\ PingOn
    /\ retryTimer => state = "backoff"

\* Established means that the server accepted the hello sent on this very
\* connection, and nothing but the hello is written to a connection before that.
AckBeforeUse ==
    /\ state = "established" => accepted[ws]
    /\ \A s \in Sockets : appSent[s] => accepted[s]

\* The link the owner sees: idle, trying to establish, established, and the two
\* ways to end.
LinkPhase ==
    CASE state = "idle" -> "off"
      [] state \in {"connecting", "establishing", "backoff"} -> "trying"
      [] state = "established" -> "up"
      [] state = "stopped" -> IF rejected THEN "ended" ELSE "stopped"

Link == INSTANCE KurobotLink WITH phase <- LinkPhase, endReports <- reports

\* The connection implements the link: it never leaves stopped, it reports its
\* end exactly once and only when the server ended it, and never after a user
\* stop, whatever events of old sockets are still to come.
ImplementsLink == Link!LinkSpec

\* The strengthening the proofs use: while a handshake is under way or done,
\* pendingHelloId is the id written to the held socket; the final state is
\* reached by exactly one of the two ways, and counts its report.
HelloIsPending ==
    state \in {"establishing", "established"} => helloOf[ws] = pendingHelloId

OneWayToEnd ==
    /\ state = "stopped" <=> userStopped \/ rejected
    /\ ~(userStopped /\ rejected)
    /\ reports = IF rejected THEN 1 ELSE 0
    /\ state \in {"idle", "stopped"} => ws = NoSocket

IInv ==
    /\ TypeOK
    /\ SingleSocket
    /\ WakeupPending
    /\ AckBeforeUse
    /\ HelloIsPending
    /\ OneWayToEnd

\* A connection attempt is always decided, even by a server that never answers:
\* the hello timeout closes the socket and its close event is retried.
HandshakeResolves ==
    state \in {"connecting", "establishing"} ~> state \in {"established", "backoff", "stopped"}

\* With a server that keeps giving chances, a started connection comes up
\* unless it is stopped or ended: there is no give-up and no lost retry.
ComesUp ==
    HealthyServer =>
        (state \in {"connecting", "establishing", "backoff"}
            ~> state \in {"established", "stopped"})

\* Once stopped, every socket is eventually gone for good.
SocketsReleased ==
    state = "stopped" ~> [](\A s \in Sockets : sock[s] = "none")
=============================================================================
