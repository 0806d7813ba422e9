----------------------------- MODULE Transports -----------------------------
(***************************************************************************)
(* The network side of a self-host: the protocol adapters that are started *)
(* one after another and stopped in the same order (packages/loader/src/   *)
(* host/core/assemble-protocols.ts, shutdown.ts; packages/adapter/src:     *)
(* base-protocol-adapter.ts and the adapter.ts and transport.ts of         *)
(* onebot11, satori and milky), the one broadcaster they share, and the    *)
(* transports themselves (packages/network/src), among them the WebSocket  *)
(* client that reconnects.                                                 *)
(*                                                                         *)
(* Each adapter has one transport of each kind that matters here; an       *)
(* HttpServer of onebot11 or satori and a webhook of milky hold no state   *)
(* and receive no events. The kurobot adapter has modules of its own.      *)
(***************************************************************************)
EXTENDS Naturals, Sequences

CONSTANTS
    MaxAttempts,  \* reconnect.maxAttempts
    MaxLosses     \* bound on the connections the network breaks

ASSUME TransportAssumption == MaxAttempts \in Nat /\ MaxLosses \in Nat

VARIABLES
    process,      \* of the self-host
    turn,         \* the adapter that starts or stops now, in the order of StartOrder
    stage,        \* what that adapter is doing
    registered,   \* EventBroadcaster.adapters
    subscribed,   \* adapters that listen to kernel events
    listening,    \* servers that accept connections
    clients,      \* servers a client of the protocol is connected to
    socket,       \* WsClient.ws: the connection it holds
    leaving,      \* sockets it let go whose close event is still to come
    retry,        \* WsClient.reconnectTimer is armed
    closed,       \* WsClient.closed
    attempt,      \* WsClient.attempt
    failures,     \* connections that ended since the last one that opened
    losses

clientVars == <<socket, leaving, retry, closed, attempt, failures, losses>>
endpointVars == <<listening, clients>>
transportVars == <<process, turn, stage, registered, subscribed, endpointVars,
                   clientVars>>

StartOrder == <<"onebot11", "satori", "milky">>
Protocols == {"onebot11", "satori", "milky"}
Servers == {"obWsServer", "saWsServer", "miHttpServer"}
Endpoints == {"obWsServer", "obWsClient", "saWsServer", "miHttpServer"}

\* Transports an adapter assembles; the Milky event hub stands behind its
\* HTTP server.
TransportsOf(p) ==
    CASE p = "onebot11" -> {"obWsServer", "obWsClient"}
      [] p = "satori" -> {"saWsServer"}
      [] p = "milky" -> {"miHttpServer"}

TransportTypeOK ==
    /\ process \in {"starting", "ready", "stopping", "exited"}
    /\ turn \in 1 .. 4
    /\ stage \in {"idle", "opening", "dialling", "closing", "hub"}
    /\ registered \subseteq Endpoints
    /\ subscribed \subseteq Protocols
    /\ listening \subseteq Servers
    /\ clients \subseteq Servers
    /\ socket \in {"none", "connecting", "open"}
    /\ leaving \in BOOLEAN /\ retry \in BOOLEAN /\ closed \in BOOLEAN
    /\ attempt \in 0 .. MaxAttempts + 1
    /\ failures \in Nat
    /\ losses \in 0 .. MaxLosses

TransportInit ==
    /\ process = "starting" /\ turn = 1 /\ stage = "idle"
    /\ registered = {} /\ subscribed = {}
    /\ listening = {} /\ clients = {}
    /\ socket = "none" /\ leaving = FALSE /\ retry = FALSE /\ closed = FALSE
    /\ attempt = 0 /\ failures = 0 /\ losses = 0

Own == TransportsOf(StartOrder[turn])

----------------------------------------------------------------------------
(* Starting: assemble, register, open the servers, then the clients, then  *)
(* subscribe and announce. An open that fails makes start() throw, and the *)
(* process ends: the adapters are what it runs for.                        *)

BeginStart ==
    /\ process = "starting" /\ turn <= Len(StartOrder) /\ stage = "idle"
    /\ registered' = registered \cup Own
    /\ stage' = "opening"
    /\ UNCHANGED <<process, turn, subscribed, endpointVars, clientVars>>

ServersListen ==
    /\ stage = "opening"
    /\ listening' = listening \cup (Own \cap Servers)
    /\ stage' = "dialling"
    /\ socket' = IF "obWsClient" \in Own THEN "connecting" ELSE socket
    /\ UNCHANGED <<process, turn, registered, subscribed, clients, leaving, retry, closed,
                   attempt, failures, losses>>

Started ==
    /\ stage = "dialling"
    /\ "obWsClient" \in Own => socket = "open"
    /\ subscribed' = subscribed \cup {StartOrder[turn]}
    /\ stage' = "idle" /\ turn' = turn + 1
    /\ UNCHANGED <<process, registered, endpointVars, clientVars>>

\* The process ends, and all it holds with it.
Dies ==
    /\ process' = "exited"
    /\ stage' = "idle"
    /\ registered' = {} /\ subscribed' = {} /\ listening' = {} /\ clients' = {}
    /\ socket' = "none" /\ leaving' = FALSE /\ retry' = FALSE
    /\ UNCHANGED <<turn, closed, attempt, failures, losses>>

\* A port that is taken, or the first connection of the client refused. The
\* WebSocket servers and the client reject, and start() throws; the error event of
\* an HTTP server has no listener, and the process dies of it.
StartFails ==
    /\ \/ stage = "opening" /\ Own \cap Servers # {}
       \/ stage = "dialling" /\ "obWsClient" \in Own /\ socket = "connecting"
    /\ Dies

AllStarted ==
    /\ process = "starting" /\ turn = Len(StartOrder) + 1
    /\ process' = "ready"
    /\ UNCHANGED <<turn, stage, registered, subscribed, endpointVars, clientVars>>

----------------------------------------------------------------------------
(* The WebSocket client.                                                   *)

\* Open resets the attempts, both in open() and after a reconnect.
ClientOpens ==
    /\ socket = "connecting"
    /\ socket' = "open"
    /\ attempt' = 0 /\ failures' = 0
    /\ UNCHANGED <<process, turn, stage, registered, subscribed, endpointVars, leaving, retry,
                   closed, losses>>

\* Fault-seeded form of OnClose: the attempts are counted before the limit is.
FaultyOnClose ==
    /\ socket' = "none"
    /\ attempt' = attempt + 1
    /\ retry' = (~closed /\ attempt' < MaxAttempts)

\* onClose of the socket that is held: one more attempt, unless there were
\* enough or close() was called.
OnClose ==
    /\ socket' = "none"
    /\ IF closed THEN UNCHANGED <<attempt, retry>>
       ELSE attempt' = attempt + 1 /\ retry' = (attempt' <= MaxAttempts)

\* The connection breaks, or a reconnect is refused; the refusal of the first
\* connection makes start() throw.
SocketEnds ==
    /\ socket # "none"
    /\ stage # "dialling"
    /\ losses < MaxLosses
    /\ losses' = losses + 1
    /\ failures' = failures + 1
    /\ OnClose
    /\ UNCHANGED <<process, turn, stage, registered, subscribed, endpointVars, leaving, closed>>

RetryFires ==
    /\ retry
    /\ retry' = FALSE
    /\ socket' = IF closed THEN socket ELSE "connecting"
    /\ UNCHANGED <<process, turn, stage, registered, subscribed, endpointVars, leaving, closed,
                   attempt, failures, losses>>

\* A close event of a socket that was let go is ignored: this.ws is another.
\* The one exception is a client that was not told to forget it.
LateClose ==
    /\ leaving
    /\ leaving' = FALSE
    /\ IF socket = "none" THEN UNCHANGED <<socket, attempt, retry>> ELSE OnClose
    /\ UNCHANGED <<process, turn, stage, registered, subscribed, endpointVars, closed,
                   failures, losses>>

\* Fault-seeded form of CloseClient: closes the connection, nothing else.
FaultyCloseClient ==
    /\ leaving' = (socket # "none")
    /\ UNCHANGED <<socket, retry, closed>>

CloseClient ==
    /\ closed' = TRUE
    /\ retry' = FALSE
    /\ leaving' = (socket # "none")
    /\ socket' = "none"

----------------------------------------------------------------------------
(* Clients of the servers come and go.                                     *)

ClientConnects(t) ==
    /\ t \in listening \ clients
    /\ clients' = clients \cup {t}
    /\ UNCHANGED <<process, turn, stage, registered, subscribed, listening, clientVars>>

ClientLeaves(t) ==
    /\ t \in clients
    /\ clients' = clients \ {t}
    /\ UNCHANGED <<process, turn, stage, registered, subscribed, listening, clientVars>>

----------------------------------------------------------------------------
(* Shutdown: requestShutdown runs the hook that stops the adapters, one    *)
(* after another, then the others, and exits.                              *)

RequestShutdown ==
    /\ process = "ready"
    /\ process' = "stopping" /\ turn' = 1
    /\ UNCHANGED <<stage, registered, subscribed, endpointVars, clientVars>>

\* stopAll: unsubscribe, then close. A WebSocket server closes the connections
\* of its clients; an HttpServer only stops listening, and the hub behind it is
\* closed after it.
BeginStop ==
    /\ process = "stopping" /\ turn <= Len(StartOrder) /\ stage = "idle"
    /\ subscribed' = subscribed \ {StartOrder[turn]}
    /\ listening' = listening \ Own
    /\ IF "obWsClient" \in Own THEN CloseClient ELSE UNCHANGED <<socket, leaving, retry, closed>>
    /\ stage' = "closing"
    /\ UNCHANGED <<process, turn, registered, clients, attempt, failures, losses>>

\* A client answers the closing handshake of a WebSocket server.
ClosingEnds(t) ==
    /\ stage = "closing" /\ t \in (clients \cap Own) \ {"miHttpServer"}
    /\ clients' = clients \ {t}
    /\ UNCHANGED <<process, turn, stage, registered, subscribed, listening, clientVars>>

\* The servers have no connection left: unregister. Satori announces that it is
\* offline after that.
Stopped ==
    /\ stage = "closing"
    /\ clients \cap Own = {}
    /\ registered' = registered \ Own
    /\ stage' = "idle"
    /\ turn' = turn + 1
    /\ UNCHANGED <<process, subscribed, endpointVars, clientVars>>

Exit ==
    /\ process = "stopping" /\ turn = Len(StartOrder) + 1
    /\ Dies

TransportNext ==
    \/ BeginStart \/ ServersListen \/ Started \/ StartFails \/ AllStarted
    \/ ClientOpens \/ SocketEnds \/ RetryFires \/ LateClose
    \/ RequestShutdown \/ BeginStop \/ Stopped \/ Exit
    \/ \E t \in Servers : ClientConnects(t) \/ ClientLeaves(t) \/ ClosingEnds(t)

TransportSpec == TransportInit /\ [][TransportNext]_transportVars

----------------------------------------------------------------------------
\* An adapter that was stopped leaves nothing behind: no transport of it is
\* registered or listens, its client holds no connection and will make none
\* (transports.close(), WsClient.close()).
StoppedIsQuiet ==
    \A i \in 1 .. Len(StartOrder) :
        process = "stopping" /\ i < turn =>
            /\ TransportsOf(StartOrder[i]) \cap (registered \cup listening) = {}
            /\ StartOrder[i] \notin subscribed
            /\ "obWsClient" \in TransportsOf(StartOrder[i]) => socket = "none" /\ ~retry

\* The client that was connected once does not give up before maxAttempts
\* connections in a row failed: until then it holds a connection or will make
\* one (WsClient.onClose).
ReconnectsUntilLimit ==
    process = "ready" /\ failures <= MaxAttempts => socket # "none" \/ retry
=============================================================================
