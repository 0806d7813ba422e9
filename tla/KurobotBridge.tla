--------------------------- MODULE KurobotBridge ---------------------------
(***************************************************************************)
(* The kurobot protocol adapter (packages/adapter/src/kurobot/adapter.ts,  *)
(* class NapukettoKurobotAdapter on the BaseProtocolAdapter skeleton)      *)
(* composed with its connection: the binding table, the receive filter it  *)
(* shares with the message log, and the tables that relate a result frame  *)
(* to the request it answers.                                              *)
(*                                                                         *)
(* Each action of the adapter that runs inside a callback of the           *)
(* connection is the conjunction of the connection's action and the        *)
(* adapter's. start() after stop() makes a new KurobotConnection; sockets  *)
(* of the discarded one are kept in orphans until their close event.       *)
(*                                                                         *)
(* start() and reload() await the configuration, and what follows a hook   *)
(* (the flag, the second half of a reload) is a continuation of its own:   *)
(* only other continuations come before it, no event of the connection.    *)
(* An owner awaits each of its calls; several owners may overlap.  What a  *)
(* connection object that was overwritten without being stopped does       *)
(* afterwards is left out: its socket stays, and that is the violation.    *)
(***************************************************************************)
EXTENDS KurobotConnection, Sequences

CONSTANTS
    Channels,    \* QQ groups
    NoChannel,
    Commands,    \* command request ids; each is used once
    Queries,     \* query request ids; free again after the table drops them
    Owners,      \* callers of start, stop and reload
    ReloadsIdle  \* they also reload an adapter that is not started

ASSUME BridgeAssumption == NoChannel \notin Channels /\ ReloadsIdle \in BOOLEAN

VARIABLES
    started,         \* BaseProtocolAdapter.started
    call,            \* [Owners -> where the owner's call stands]
    subscribed,      \* unsubscribe # null
    bindings,        \* the outbound binding set
    filterOn,        \* receiveFilter.current # null
    pendingCommands, \* [Commands -> channel to answer to, or NoChannel]
    pendingQueries,  \* [Queries -> kind of the query, or "none"]
    orphans,         \* sockets of discarded connection objects
    issuer,          \* history: the group that issued the command
    stale,           \* history: commands issued before the latest handshake
    replies,         \* history: groups a command's result was sent to, in order
    asked,           \* history: queries written to the held connection, unanswered
    announced,       \* history: last table the held connection announced
    halted           \* history: no start or reload was called since a stop ended

tableVars == <<bindings, filterOn, pendingCommands, pendingQueries>>
lifeVars == <<started, call, subscribed, orphans, halted>>
historyVars == <<issuer, stale, replies, asked, announced>>
bridgeVars == <<tableVars, lifeVars, historyVars>>
allVars == <<vars, bridgeVars>>

Kinds == {"status", "bindings"}
Tables == SUBSET Channels
Stands == {"idle", "start", "started", "reload", "rebuild", "stopped"}
Used == {c \in Commands : issuer[c] # NoChannel}

BridgeTypeOK ==
    /\ started \in BOOLEAN
    /\ call \in [Owners -> Stands]
    /\ halted \in BOOLEAN
    /\ subscribed \in BOOLEAN
    /\ bindings \in Tables
    /\ filterOn \in BOOLEAN
    /\ pendingCommands \in [Commands -> Channels \cup {NoChannel}]
    /\ pendingQueries \in [Queries -> Kinds \cup {"none"}]
    /\ orphans \subseteq Sockets
    /\ issuer \in [Commands -> Channels \cup {NoChannel}]
    /\ stale \subseteq Commands
    /\ replies \in [Commands -> Seq(Channels)]
    /\ asked \subseteq Queries
    /\ announced \in Tables

BridgeInit ==
    /\ Init
    /\ started = FALSE
    /\ call = [k \in Owners |-> "idle"]
    /\ halted = FALSE
    /\ subscribed = FALSE
    /\ bindings = {}
    /\ filterOn = FALSE
    /\ pendingCommands = [c \in Commands |-> NoChannel]
    /\ pendingQueries = [q \in Queries |-> "none"]
    /\ orphans = {}
    /\ issuer = [c \in Commands |-> NoChannel]
    /\ stale = {}
    /\ replies = [c \in Commands |-> << >>]
    /\ asked = {}
    /\ announced = {}

-----------------------------------------------------------------------------
(* Shared pieces of the handlers.                                          *)

NoCommands == [c \in Commands |-> NoChannel]
NoQueries == [q \in Queries |-> "none"]

\* Every command issued so far belongs to a connection that is over.
MarkStale == stale' = Used

\* Fault-seeded form of ClearPending: the command table is forgotten.
FaultyClearPending ==
    /\ pendingQueries' = NoQueries
    /\ UNCHANGED pendingCommands

ClearPending ==
    /\ pendingCommands' = NoCommands
    /\ pendingQueries' = NoQueries

\* bindings := the announced table, and the receive filter is (re)installed.
SetBindings(table) ==
    /\ bindings' = table
    /\ filterOn' = TRUE
    /\ announced' = table

\* What is left of the discarded connection object: sockets already closing.
Orphaned == {s \in Sockets : sock'[s] = "closing"}

-----------------------------------------------------------------------------
(* Life cycle: start(), stop() and reload() of BaseProtocolAdapter.        *)

\* new KurobotConnection(...).start(), in one turn.
FreshConnection ==
    \E s \in Sockets :
        /\ sock[s] = "none"
        /\ state' = "connecting"
        /\ ws' = s
        /\ sock' = [sock EXCEPT ![s] = "connecting"]
        /\ helloOf' = [helloOf EXCEPT ![s] = NoId]
        /\ accepted' = [accepted EXCEPT ![s] = FALSE]
        /\ appSent' = [appSent EXCEPT ![s] = FALSE]
        /\ userStopped' = FALSE
        /\ rejected' = FALSE
        /\ pendingHelloId' = NoId
        /\ helloTimer' = FALSE
        /\ pingTimer' = FALSE
        /\ retryTimer' = FALSE
        /\ attempt' = 0
        /\ reports' = 0

\* startKurobot(): tables reset, fresh connection in the place of whatever was
\* held, kernel subscription.
StartKurobot ==
    /\ FreshConnection
    /\ subscribed' = TRUE
    /\ bindings' = {}
    /\ ClearPending
    /\ orphans' = Orphaned
    /\ MarkStale
    /\ asked' = {}
    /\ announced' = {}
    /\ UNCHANGED <<filterOn, issuer, replies>>

\* Fault-seeded form of StopAll: the connection is forgotten, not stopped.
FaultyStopAll ==
    /\ state' = "stopped"
    /\ userStopped' = TRUE
    /\ ws' = NoSocket
    /\ ClearTimers
    /\ UNCHANGED <<rejected, attempt, sockVars, reports>>
    /\ subscribed' = FALSE
    /\ ClearPending
    /\ filterOn' = FALSE
    /\ orphans' = Orphaned
    /\ MarkStale
    /\ asked' = {}
    /\ UNCHANGED <<bindings, issuer, replies, announced>>

\* stopAll(): the connection is dropped (its stop() is a no-op once it ended).
StopAll ==
    /\ IF state = "stopped" THEN UNCHANGED vars ELSE Stop
    /\ subscribed' = FALSE
    /\ ClearPending
    /\ filterOn' = FALSE
    /\ orphans' = Orphaned
    /\ MarkStale
    /\ asked' = {}
    /\ UNCHANGED <<bindings, issuer, replies, announced>>

\* The call of owner k goes on from one await to the next, or returns.
Goes(k, from, to) ==
    /\ call[k] = from
    /\ call' = [call EXCEPT ![k] = to]

\* start() returns at once when the flag is set; else it loads.
StartCalled(k) ==
    /\ Goes(k, "idle", "start")
    /\ ~started
    /\ halted' = FALSE
    /\ UNCHANGED <<vars, tableVars, historyVars, started, subscribed, orphans>>

\* The configuration is there: onStart. The flag was tested before the await.
StartLoaded(k) ==
    /\ Goes(k, "start", "started")
    /\ StartKurobot
    /\ UNCHANGED <<started, halted>>

StartReturns(k) ==
    /\ Goes(k, "started", "idle")
    /\ started' = TRUE
    /\ UNCHANGED <<vars, tableVars, historyVars, subscribed, orphans, halted>>

\* load() throws on a configuration it cannot use, and so does its caller.
LoadFails(k) ==
    /\ Goes(k, "start", "idle") \/ Goes(k, "reload", "idle")
    /\ UNCHANGED <<vars, tableVars, historyVars, started, subscribed, orphans, halted>>

StopCalled(k) ==
    /\ Goes(k, "idle", "stopped")
    /\ started
    /\ StopAll
    /\ UNCHANGED <<started, halted>>

StopReturns(k) ==
    /\ Goes(k, "stopped", "idle")
    /\ started' = FALSE
    /\ halted' = TRUE
    /\ UNCHANGED <<vars, tableVars, historyVars, subscribed, orphans>>

\* stop() of an adapter whose flag is not set returns at once.
StopSkipped(k) ==
    /\ call[k] = "idle"
    /\ ~started
    /\ halted' = TRUE
    /\ UNCHANGED <<vars, tableVars, historyVars, started, call, subscribed, orphans>>

\* reload() tests nothing. Its owner may.
ReloadCalled(k) ==
    /\ Goes(k, "idle", "reload")
    /\ started \/ ReloadsIdle
    /\ halted' = FALSE
    /\ UNCHANGED <<vars, tableVars, historyVars, started, subscribed, orphans>>

\* onReload: stopAll() is awaited, then startKurobot().
ReloadLoaded(k) ==
    /\ Goes(k, "reload", "rebuild")
    /\ StopAll
    /\ UNCHANGED <<started, halted>>

ReloadRebuilds(k) ==
    /\ Goes(k, "rebuild", "idle")
    /\ StartKurobot
    /\ UNCHANGED <<started, halted>>

\* No continuation is due, so events are delivered.
Settled == \A k \in Owners : call[k] \in {"idle", "start", "reload"}

-----------------------------------------------------------------------------
(* Callbacks of the connection.                                            *)

\* Fault-seeded form of Established: the table of the last session is kept.
FaultyEstablished(s, id, table) ==
    /\ OnHelloAckOk(s, id)
    /\ ClearPending
    /\ filterOn' = TRUE
    /\ announced' = table
    /\ MarkStale
    /\ UNCHANGED <<lifeVars, bindings, issuer, replies, asked>>

\* onEstablished: the snapshot of the ack replaces the bindings, the requests
\* of the previous connection are forgotten.
Established(s, id, table) ==
    /\ OnHelloAckOk(s, id)
    /\ ClearPending
    /\ SetBindings(table)
    /\ MarkStale
    /\ UNCHANGED <<lifeVars, issuer, replies, asked>>

\* Fault-seeded form of OnEnded: the filter stays installed.
FaultyOnEnded ==
    IF reports' # reports
      THEN /\ ClearPending
           /\ MarkStale
           /\ UNCHANGED <<bindings, filterOn>>
      ELSE UNCHANGED <<tableVars, stale>>

\* onEnded, when the handler of the connection called it.
OnEnded ==
    IF reports' # reports
      THEN /\ ClearPending
           /\ filterOn' = FALSE
           /\ MarkStale
           /\ UNCHANGED bindings
      ELSE UNCHANGED <<tableVars, stale>>

Refused(s, id) ==
    /\ OnHelloAckRefused(s, id)
    /\ OnEnded
    /\ UNCHANGED <<lifeVars, issuer, replies, asked, announced>>

Closed(s, code) ==
    /\ s \notin orphans
    /\ OnClose(s, code)
    /\ OnEnded
    /\ asked' = {}
    /\ UNCHANGED <<lifeVars, issuer, replies, announced>>

\* The close event of a discarded connection reaches only the discarded object.
OrphanClosed(s) ==
    /\ s \in orphans
    /\ sock' = [sock EXCEPT ![s] = "none"]
    /\ orphans' = orphans \ {s}
    /\ UNCHANGED <<connVars, timerVars, helloOf, accepted, appSent, reports,
                   tableVars, historyVars, started, call, subscribed, halted>>

\* bindings_updated.
BindingsUpdated(s, table) ==
    /\ sock[s] = "open"
    /\ SetBindings(table)
    /\ UNCHANGED <<vars, lifeVars, pendingCommands, pendingQueries, issuer, stale,
                   replies, asked>>

\* Fault-seeded form of CommandResult: the entry is not deleted.
FaultyCommandResult(s, c) ==
    /\ sock[s] = "open"
    /\ pendingCommands[c] # NoChannel
    /\ replies' = [replies EXCEPT ![c] = Append(@, pendingCommands[c])]
    /\ UNCHANGED <<vars, lifeVars, tableVars, issuer, stale, asked, announced>>

\* command_result: answered to the group that is waiting for this id, once.
CommandResult(s, c) ==
    /\ sock[s] = "open"
    /\ pendingCommands[c] # NoChannel
    /\ pendingCommands' = [pendingCommands EXCEPT ![c] = NoChannel]
    /\ replies' = [replies EXCEPT ![c] = Append(@, pendingCommands[c])]
    /\ UNCHANGED <<vars, lifeVars, bindings, filterOn, pendingQueries, issuer, stale,
                   asked, announced>>

\* query_result for a query of this connection. Only a successful result of a
\* bindings query carries a table; announced follows the server, the bindings
\* follow what the adapter still knows of the query.
QueryResult(s, q, ok, table) ==
    /\ sock[s] = "open"
    /\ q \in asked
    /\ asked' = asked \ {q}
    /\ pendingQueries' = [pendingQueries EXCEPT ![q] = "none"]
    /\ IF ok /\ pendingQueries[q] = "bindings"
         THEN SetBindings(table)
         ELSE UNCHANGED <<bindings, filterOn, announced>>
    /\ UNCHANGED <<vars, lifeVars, pendingCommands, issuer, stale, replies>>

-----------------------------------------------------------------------------
(* Outbound.                                                               *)

\* A group message with the command prefix: registered first, taken back when
\* the frame could not be sent.
GroupCommand(ch, c) ==
    /\ subscribed
    /\ c \notin Used
    /\ SendFrame
    /\ pendingCommands' = [pendingCommands EXCEPT ![c] = ch]
    /\ issuer' = [issuer EXCEPT ![c] = ch]
    /\ UNCHANGED <<lifeVars, bindings, filterOn, pendingQueries, stale, replies, asked,
                   announced>>

\* Any other group message: only from bound groups.
GroupChat(ch) ==
    /\ subscribed
    /\ ch \in bindings
    /\ SendFrame
    /\ UNCHANGED bridgeVars

\* query(): the table keeps the id even when the socket is closing and the
\* frame is dropped.
Query(q, kind) ==
    /\ state = "established"
    /\ pendingQueries[q] = "none"
    /\ pendingQueries' = [pendingQueries EXCEPT ![q] = kind]
    /\ IF CanSend
         THEN SendFrame /\ asked' = asked \cup {q}
         ELSE UNCHANGED <<vars, asked>>
    /\ UNCHANGED <<lifeVars, bindings, filterOn, pendingCommands, issuer, stale, replies,
                   announced>>

-----------------------------------------------------------------------------

\* Steps of the connection the adapter takes no part in.
ConnectionStep ==
    /\ \/ HelloTimeout
       \/ PingTick
       \/ RetryFires
       \/ \E s \in Sockets : OnOpen(s) \/ OnUnknownRequest(s) \/ PeerCloses(s)
    /\ UNCHANGED bridgeVars

LifeStep(k) ==
    \/ StartCalled(k) \/ StartLoaded(k) \/ StartReturns(k)
    \/ ReloadCalled(k) \/ ReloadLoaded(k) \/ ReloadRebuilds(k)
    \/ StopCalled(k) \/ StopReturns(k) \/ StopSkipped(k)
    \/ LoadFails(k)

BridgeEvent ==
    \/ ConnectionStep
    \/ \E s \in Sockets :
         \/ \E id \in HelloIds :
              \/ ~accepted[s] /\ \E table \in Tables : Established(s, id, table)
              \/ Refused(s, id)
         \/ \E code \in CloseCodes : Closed(s, code)
         \/ OrphanClosed(s)
         \/ \E table \in Tables :
              \/ BindingsUpdated(s, table)
              \/ \E q \in Queries, ok \in BOOLEAN : QueryResult(s, q, ok, table)
         \/ \E c \in Commands : CommandResult(s, c)
    \/ \E ch \in Channels : GroupChat(ch) \/ \E c \in Commands : GroupCommand(ch, c)
    \/ \E q \in Queries, kind \in Kinds : Query(q, kind)

BridgeNext ==
    \/ \E k \in Owners : LifeStep(k)
    \/ Settled /\ BridgeEvent

BridgeSpec == BridgeInit /\ [][BridgeNext]_allVars

-----------------------------------------------------------------------------
(* Properties.                                                             *)

\* Calls of start, stop and reload follow one another, and what is reloaded is
\* started: the way the loader of this repository uses an adapter.
Orderly == (\A j, k \in Owners : j = k) /\ ~ReloadsIdle

\* The adapter is started, or the hook of its start is done.
Lively == started \/ \E k \in Owners : call[k] = "started"

\* The adapter holds one connection: every socket that is not already closing
\* belongs to it, across stop, start and reload and their awaits.
OneLiveConnection ==
    \A s \in Sockets :
        sock[s] \in {"connecting", "open"} =>
            s = ws /\ Lively

\* stop() "closes the connection": once it has returned and nobody called start
\* or reload after it, no socket is left but those that are closing.
StopCloses ==
    halted /\ (\A k \in Owners : call[k] = "idle") =>
        \A s \in Sockets : sock[s] \notin {"connecting", "open"}

\* While established, the outbound binding set is what this server announced
\* last, so no group's chat goes to a server that did not bind it.
BindingsFresh ==
    state = "established" => bindings = announced /\ filterOn

\* The receive filter the message log consults lives no longer than the
\* connection: after a stop or a permanent end nothing is filtered.
FilterReleased ==
    ~started \/ state = "stopped" => ~filterOn

\* A command is answered at most once, to the group that issued it.
AnsweredOnce ==
    \A c \in Commands : replies[c] \in {<< >>, <<issuer[c]>>}

\* A command that predates the latest handshake, stop or end is never answered:
\* its result cannot surface in a later session.
NoStaleAnswer ==
    [][\A c \in stale : replies'[c] = replies[c]]_allVars
=============================================================================
