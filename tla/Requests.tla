------------------------------ MODULE Requests ------------------------------
(***************************************************************************)
(* A request of a bot framework, from the payload to the answer             *)
(* (BaseAction.run, MilkyBaseAction.handle, BaseSatoriAction.run), or of a  *)
(* parent process over IPC (callIpcAction, which has no schema): the        *)
(* schema is checked, the handler of the action makes its calls one after   *)
(* the other, and what it throws becomes the answer.  A handler is one of   *)
(* its plans; every native call of a plan may be refused, rejected or, when *)
(* an event has to confirm it, done and never confirmed.                    *)
(***************************************************************************)
EXTENDS OneBotActions, MilkyActions, SatoriActions, IpcActions

(* ActionRegistry: the handlers by protocol and name. *)
Registry ==
    [onebot |-> OneBotHandlers, milky |-> MilkyHandlers,
     satori |-> SatoriHandlers, ipc |-> IpcHandlers]

VARIABLES
    asked,      \* the action that is handled, as <<protocol, name>>
    rest,       \* the steps of its plan that are left
    changed,    \* it has changed something in QQ
    dropped,    \* QQ refused one of its changes and it went on
    reply       \* "none", "ok", "failed", or "error" for an error of the program

requestVars == <<asked, rest, changed, dropped, reply>>

NoAction == <<"none", "none">>

RequestsTypeOK ==
    /\ asked[1] \in DOMAIN Registry \cup {"none"}
    /\ asked # NoAction => asked[2] \in DOMAIN Registry[asked[1]]
    /\ rest \in Seq([act : STRING, call : STRING])
    /\ {changed, dropped} \subseteq BOOLEAN
    /\ reply \in {"none", "ok", "failed", "error"}

RequestsInit ==
    /\ asked = NoAction
    /\ rest = <<>>
    /\ changed = FALSE
    /\ dropped = FALSE
    /\ reply = "none"

-----------------------------------------------------------------------------
Fine == [throws |-> FALSE, changes |-> FALSE, drops |-> FALSE]
Thrown == [Fine EXCEPT !.throws = TRUE]
Made == [Fine EXCEPT !.changes = TRUE]
MadeUnheard == [Made EXCEPT !.throws = TRUE]
Missed == [Fine EXCEPT !.drops = TRUE]

(* What a step can come to.  Of a native call that is refused or rejected   *)
(* the model takes it that QQ did nothing, except for the sends.            *)
Outcomes ==
    [check |-> {Fine, Thrown}, read |-> {Fine, Thrown}, lenient |-> {Fine},
     write |-> {Made, Thrown}, loose |-> {Made, Thrown, Missed},
     unchecked |-> {Made, Thrown, Missed}, fire |-> {Made, Missed},
     confirmed |-> {Made, Thrown, MadeUnheard},
     sent |-> {Made, Thrown, MadeUnheard, Missed},
     refuse |-> {Thrown}, unbound |-> {Thrown}]

Running == asked # NoAction /\ reply = "none"

(* An action is looked up by its name and its payload has passed the schema. *)
Handle ==
    /\ asked = NoAction
    /\ reply = "none"
    /\ \E protocol \in DOMAIN Registry :
        \E name \in DOMAIN Registry[protocol] :
            /\ asked' = <<protocol, name>>
            /\ rest' \in Registry[protocol][name]
    /\ UNCHANGED <<changed, dropped, reply>>

(* An unknown action or a payload the schema refuses never reaches a handler. *)
Refuse ==
    /\ asked = NoAction
    /\ reply = "none"
    /\ reply' = "failed"
    /\ UNCHANGED <<asked, rest, changed, dropped>>

(* mapError *)
TakeStep ==
    /\ Running
    /\ rest # <<>>
    /\ LET step == Head(rest) IN
        \E o \in Outcomes[step.act] :
            /\ changed' = (changed \/ o.changes)
            /\ dropped' = (dropped \/ o.drops)
            /\ rest' = IF o.throws THEN <<>> ELSE Tail(rest)
            /\ reply' = IF ~o.throws THEN "none"
                        ELSE IF step.act = "unbound" THEN "error" ELSE "failed"
    /\ UNCHANGED asked

Answer ==
    /\ Running
    /\ rest = <<>>
    /\ reply' = "ok"
    /\ UNCHANGED <<asked, rest, changed, dropped>>

RequestsNext == Handle \/ Refuse \/ TakeStep \/ Answer

RequestsSpec == RequestsInit /\ [][RequestsNext]_requestVars

-----------------------------------------------------------------------------
(* The actions that can be answered as failed although QQ has done a part   *)
(* of them: a message or a forward that went out without its confirmation,  *)
(* or whose sequence number cannot be looked up afterwards; the messages a  *)
(* merged forward is built from; a friend accepted before the remark        *)
(* throws; a nickname set before a signature that is refused; the picture   *)
(* uploaded for an announcement that is refused.                            *)
HalfDone ==
    {<<"onebot", "send_msg">>, <<"onebot", "send_private_msg">>,
     <<"onebot", "send_group_msg">>, <<"onebot", "send_group_forward_msg">>,
     <<"onebot", "forward_group_single_msg">>, <<"onebot", "forward_friend_single_msg">>,
     <<"onebot", "set_friend_add_request">>, <<"onebot", "set_qq_profile">>,
     <<"milky", "send_private_message">>, <<"milky", "send_group_message">>,
     <<"milky", "upload_private_file">>, <<"milky", "upload_group_file">>,
     <<"milky", "send_group_announcement">>, <<"satori", "message.create">>,
     <<"ipc", "msg.sendMessage">>}

(* The actions of which a call's answer is dropped, or that make a void one. *)
Unheard ==
    {<<"onebot", "set_group_admin">>, <<"onebot", "set_group_card">>,
     <<"onebot", "set_group_add_request">>, <<"onebot", "rename_group_file">>,
     <<"onebot", "set_friend_add_request">>,
     <<"onebot", "set_doubt_friends_add_request">>,
     <<"milky", "set_group_member_card">>, <<"milky", "set_group_member_admin">>,
     <<"milky", "accept_group_request">>, <<"milky", "reject_group_request">>,
     <<"milky", "accept_group_invitation">>, <<"milky", "reject_group_invitation">>,
     <<"milky", "accept_friend_request">>, <<"milky", "reject_friend_request">>,
     <<"milky", "rename_group_file">>, <<"milky", "rename_group_folder">>,
     <<"satori", "guild.approve">>, <<"satori", "guild.member.approve">>,
     <<"satori", "friend.approve">>, <<"ipc", "login.refreshQr">>,
     <<"ipc", "diag.richMediaTmpPaths">>}
    \cup {<<"ipc", name>> : name \in DiagnosticNames}

(* The actions of which an answer without a result code passes for success. *)
LooselyHeard ==
    {<<"onebot", "set_essence_msg">>, <<"onebot", "delete_essence_msg">>,
     <<"onebot", "set_self_longnick">>, <<"onebot", "set_qq_profile">>,
     <<"milky", "set_group_essence_message">>, <<"milky", "delete_friend">>,
     <<"milky", "set_nickname">>, <<"milky", "set_bio">>,
     <<"milky", "send_group_nudge">>, <<"milky", "send_friend_nudge">>,
     <<"milky", "send_group_announcement">>, <<"milky", "delete_group_announcement">>,
     <<"milky", "set_group_avatar">>, <<"milky", "set_group_member_special_title">>,
     <<"milky", "set_peer_pin">>, <<"satori", "friend.delete">>}

(* The actions that send a forward, which no event confirms, or that recall *)
(* what it was built from as well as they can.                              *)
Forwarding ==
    {<<"onebot", "send_group_forward_msg">>, <<"onebot", "forward_group_single_msg">>,
     <<"onebot", "forward_friend_single_msg">>,
     <<"milky", "send_private_message">>, <<"milky", "send_group_message">>}

(* The actions whose answer does not tell whether QQ took the change. *)
Unconfirmed == Unheard \cup LooselyHeard \cup Forwarding

(* An action answered as failed has changed nothing in QQ, so that a        *)
(* framework may ask again; the ones in HalfDone are the exceptions it has  *)
(* to know of (the handlers check and look up before they change).          *)
FailedChangedNothing == reply = "failed" /\ changed => asked \in HalfDone

(* An action answered as ok has been taken by QQ, in every step of it: a    *)
(* refused native call is thrown (unwrap, unwrapResult), except in the      *)
(* actions of Unconfirmed.                                                  *)
OkMeansDone == reply = "ok" /\ dropped => asked \in Unconfirmed

(* A registered action can be handled: the methods of OneBotApi delegate to *)
(* the kernel's APIs when an action uses them as its dependency             *)
(* (one-bot-api.ts), so no answer is an error of the program itself.        *)
DependenciesWork == reply # "error"
=============================================================================
