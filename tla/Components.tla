----------------------------- MODULE Components -----------------------------
(***************************************************************************)
(* The parts of a session that share no state with each other, next to     *)
(* each other: the files a start needs and the lock of its data directory, *)
(* the QR code of a login, the caches of the kernel, sending a message,    *)
(* the table of message ids, the requests of a bot framework, and the      *)
(* three ways in which a protocol comes by its events, over transports     *)
(* that start and stop.  A behaviour is about one part; the others stay in *)
(* their initial state, so that one run explores every part with its       *)
(* bounds and nothing is lost: no property relates two of them.            *)
(***************************************************************************)
EXTENDS QrLogin, KernelCache, MessageSend, MessageUnique, Requests,
        EssenceEvents, Notices, ProtocolEvents, Transports, Provision, InstanceLock

VARIABLE part       \* the part the behaviour is about

Parts ==
    {"login", "cache", "send", "ids", "requests", "essence", "notices", "events",
     "transports", "files", "lock"}

componentVars ==
    <<part, qrVars, cacheVars, sendVars, idVars, requestVars, essenceVars, noticeVars,
      eventVars, transportVars, provisionVars, lockVars>>

(* What the initial states of two parts leave open is fixed in the others.  *)
ComponentsInit ==
    /\ part \in Parts
    /\ QrInit /\ CacheInit /\ SendInit /\ IdsInit /\ RequestsInit
    /\ EssenceInit /\ NoticeInit /\ EventInit /\ TransportInit
    /\ ProvisionInit /\ Init
    /\ part # "essence" => who = "milky" /\ digest = {}
    /\ part # "events" => adapter = "milky"

OthersStay ==
    /\ UNCHANGED part
    /\ part # "login" => UNCHANGED qrVars
    /\ part # "cache" => UNCHANGED cacheVars
    /\ part # "send" => UNCHANGED sendVars
    /\ part # "ids" => UNCHANGED idVars
    /\ part # "requests" => UNCHANGED requestVars
    /\ part # "essence" => UNCHANGED essenceVars
    /\ part # "notices" => UNCHANGED noticeVars
    /\ part # "events" => UNCHANGED eventVars
    /\ part # "transports" => UNCHANGED transportVars
    /\ part # "files" => UNCHANGED provisionVars
    /\ part # "lock" => UNCHANGED lockVars

ComponentsNext ==
    \/ part = "login" /\ QrNext /\ OthersStay
    \/ part = "cache" /\ CacheNext /\ OthersStay
    \/ part = "send" /\ SendNext /\ OthersStay
    \/ part = "ids" /\ IdsNext /\ OthersStay
    \/ part = "requests" /\ RequestsNext /\ OthersStay
    \/ part = "essence" /\ EssenceNext /\ OthersStay
    \/ part = "notices" /\ NoticeNext /\ OthersStay
    \/ part = "events" /\ EventNext /\ OthersStay
    \/ part = "transports" /\ TransportNext /\ OthersStay
    \/ part = "files" /\ ProvisionNext /\ OthersStay
    \/ part = "lock" /\ Next /\ OthersStay

ComponentsSpec ==
    ComponentsInit /\ [][ComponentsNext]_componentVars /\ QrFairness /\ SendFairness
=============================================================================
