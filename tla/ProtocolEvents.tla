---------------------------- MODULE ProtocolEvents ----------------------------
(***************************************************************************)
(* From a callback of the kernel to the event a protocol broadcasts: the    *)
(* subscriptions of the OneBot 11, Milky and Satori adapters, their tables  *)
(* of gray tips, group notifies and system messages, and the lookups of     *)
(* uids and group members a handler awaits before it broadcasts.  Handlers  *)
(* are not queued: two of them await their lookups side by side.  Essence,  *)
(* pin and file events have modules of their own.                           *)
(***************************************************************************)
EXTENDS Naturals, Sequences, FiniteSets

CONSTANT MaxSignals         \* callbacks of one run

ASSUME SignalsAssumption == MaxSignals \in Nat \ {0}

VARIABLES
    adapter,    \* the adapter under its callbacks
    settings,   \* OneBot's reportSelfMessage and groupUploadAsNotice
    handlers,   \* by callback: its signal, the lookups it still awaits, those lost
    reported    \* the events broadcast, with the callback each stands for

eventVars == <<adapter, settings, handlers, reported>>

GroupChanges ==
    {"member_add", "quit", "block", "unblock", "shut_up", "whole_shut_up",
     "renamed", "disbanded"}

(* RawMessage without and with a gray tip; aioOp (a poke) comes in a tip of *)
(* either subtype, and a tip may name nobody.                               *)
Messages ==
    [from : {"message"}, says : {"message"}, chat : {"group", "friend", "temp"},
     self : BOOLEAN, file : BOOLEAN, at : BOOLEAN]

Tips ==
    [from : {"tip"}, says : {"recall"}, chat : {"group", "friend"},
     sub : {"revoke"}, uids : {TRUE}]
    \cup [from : {"tip"}, says : GroupChanges, chat : {"group"}, sub : {"group"},
          uids : BOOLEAN]
    \cup [from : {"tip"}, says : {"poke"}, chat : {"group", "friend"},
          sub : {"group", "other"}, uids : {TRUE}]
    \cup [from : {"tip"}, says : {"nothing"}, chat : {"group", "friend"},
          sub : {"other"}, uids : {FALSE}]

(* onRecvSysMsg: the blob can be decoded and its rule can extract it.       *)
SysMsgs ==
    [from : {"sysmsg"}, says : {"reaction", "card", "nothing"}, whole : BOOLEAN]

Notifies ==
    [from : {"notify"}, says : {"invited_by_member", "invited", "join", "nothing"},
     doubt : BOOLEAN, handled : BOOLEAN]

Pushes ==
    [from : {"push"},
     says : {"friend_request", "offline_file", "friend_added", "disconnected", "logout"}]

Signals == Messages \cup Tips \cup SysMsgs \cup Notifies \cup Pushes

Adapters == {"onebot", "milky", "satori"}

EventTypeOK ==
    /\ adapter \in Adapters
    /\ settings \in [reportSelf : BOOLEAN, uploadAsNotice : BOOLEAN]
    /\ handlers \in Seq([signal : Signals, awaits : Seq({"soft", "hard"}),
                         lost : BOOLEAN, ended : BOOLEAN])
    /\ Len(handlers) <= MaxSignals
    /\ reported \in Seq([event : STRING, of : 1..MaxSignals])

EventInit ==
    /\ adapter \in Adapters
    /\ settings \in [reportSelf : BOOLEAN, uploadAsNotice : BOOLEAN]
    /\ adapter # "onebot" => settings = [reportSelf |-> FALSE, uploadAsNotice |-> FALSE]
    /\ handlers = <<>>
    /\ reported = <<>>

(* What a table has for a key, as a set of none or one.                     *)
Entry(table, key) == {table[k] : k \in DOMAIN table \cap {key}}

-----------------------------------------------------------------------------
(* OneBot 11                                                                *)

(* GROUP_CHANGE_BUILDERS *)
OneBotGroupChanges ==
    [member_add |-> "group_increase", quit |-> "group_decrease",
     block |-> "group_admin", unblock |-> "group_admin",
     shut_up |-> "group_ban", whole_shut_up |-> "group_ban"]

ToOb11Recall(s) == IF s.chat = "friend" THEN {"friend_recall"} ELSE {"group_recall"}

(* translateGrayTip: the subtype goes before the poke. *)
ToOb11NoticeEvent(s) ==
    IF s.sub = "revoke" THEN ToOb11Recall(s)
    ELSE IF s.sub = "group" THEN Entry(OneBotGroupChanges, s.says)
    ELSE IF s.says = "poke" THEN {"notify.poke"} ELSE {}

OneBotMessage(s) ==
    IF s.self /\ ~settings.reportSelf THEN {}
    ELSE IF settings.uploadAsNotice /\ s.chat = "group" /\ s.file THEN {"group_upload"}
    ELSE {"message"}

ToOb11GroupRequestEvent(s) ==
    IF s.handled THEN {}
    ELSE Entry([invited_by_member |-> "request.group.invite",
                invited |-> "request.group.invite", join |-> "request.group.add"], s.says)

RecognizeOb11SysMsg(s) ==
    IF s.whole THEN Entry([card |-> "group_card"], s.says) ELSE {}

OneBotPushes ==
    [friend_request |-> "request.friend", offline_file |-> "offline_file",
     friend_added |-> "friend_add"]

OneBotEvent(s) ==
    CASE s.from = "message" -> OneBotMessage(s)
      [] s.from = "tip" -> ToOb11NoticeEvent(s)
      [] s.from = "sysmsg" -> RecognizeOb11SysMsg(s)
      [] s.from = "notify" -> IF s.doubt THEN {} ELSE ToOb11GroupRequestEvent(s)
      [] s.from = "push" -> Entry(OneBotPushes, s.says)

Soft(condition) == IF condition THEN <<"soft">> ELSE <<>>
Hard(condition) == IF condition THEN <<"hard">> ELSE <<>>

(* broadcastMessageEvent looks up who is mentioned and the sender's role,   *)
(* broadcastNotice the uids of a tip, uidToUinMap and sysMsgUinResolver     *)
(* those of a request and a card.  Only broadcastNotice lets a failure out. *)
OneBotLookups(s) ==
    CASE s.from = "message" ->
            IF OneBotMessage(s) = {"message"}
            THEN Soft(s.at) \o Soft(s.chat = "group") ELSE <<>>
      [] s.from = "tip" -> Hard(s.uids)
      [] s.from = "sysmsg" -> Soft(RecognizeOb11SysMsg(s) # {})
      [] s.from = "notify" -> Soft(~s.doubt)
      [] s.from = "push" -> Soft(s.says = "friend_request")

-----------------------------------------------------------------------------
(* Milky                                                                    *)

(* GROUP_CHANGE_MAPPERS; a new name and a dissolution need their operator.  *)
MilkyGroupChanges ==
    [member_add |-> "group_member_increase", quit |-> "group_member_decrease",
     shut_up |-> "group_mute", whole_shut_up |-> "group_whole_mute",
     renamed |-> "group_name_change", disbanded |-> "group_disband"]

OperatorMissing(s) == s.says \in {"renamed", "disbanded"} /\ ~s.uids

AioOpToEvent(s) == IF s.chat = "group" THEN {"group_nudge"} ELSE {"friend_nudge"}

ToMilkyNoticeEvent(s) ==
    IF s.says = "poke" THEN AioOpToEvent(s)
    ELSE IF s.sub = "group" /\ ~OperatorMissing(s) THEN Entry(MilkyGroupChanges, s.says)
    ELSE {}

MilkyTip(s) == IF s.sub = "revoke" THEN {"message_recall"} ELSE ToMilkyNoticeEvent(s)

(* handleIncoming: a file in a group is reported whoever sent it. *)
ToGroupFileUploadEvent(s) ==
    IF s.chat = "group" /\ s.file THEN {"group_file_upload"} ELSE {}

MilkyMessage(s) ==
    IF ToGroupFileUploadEvent(s) # {} THEN ToGroupFileUploadEvent(s)
    ELSE IF s.self THEN {} ELSE {"message_receive"}

ToGroupRequestEvent(s) ==
    IF s.handled THEN {}
    ELSE Entry([join |-> "group_join_request", invited |-> "group_invited_join_request",
                invited_by_member |-> "group_invitation"], s.says)

RecognizeMilkySysMsg(s) ==
    IF s.whole THEN Entry([reaction |-> "group_message_reaction"], s.says) ELSE {}

MilkyPushes ==
    [friend_request |-> "friend_request", disconnected |-> "bot_offline",
     logout |-> "bot_offline"]

MilkyEvent(s) ==
    CASE s.from = "message" -> MilkyMessage(s)
      [] s.from = "tip" -> MilkyTip(s)
      [] s.from = "sysmsg" -> RecognizeMilkySysMsg(s)
      [] s.from = "notify" -> ToGroupRequestEvent(s)
      [] s.from = "push" -> Entry(MilkyPushes, s.says)

(* buildMessageReceiveEvent (fillMentionUids, fillGroupEntities),           *)
(* broadcastNotice and requestCtx: resolveUidToUin catches.                 *)
MilkyLookups(s) ==
    CASE s.from = "message" ->
            IF MilkyMessage(s) = {"message_receive"}
            THEN Soft(s.at) \o Soft(s.chat = "group") ELSE <<>>
      [] s.from = "tip" -> Soft(s.uids)
      [] s.from = "notify" -> Soft(s.says # "nothing")
      [] s.from = "push" -> Soft(s.says = "friend_request")
      [] OTHER -> <<>>

-----------------------------------------------------------------------------
(* Satori: onRecvMsg only                                                   *)

(* A tip that is no recall and no change of a group passes for a message.   *)
HasSatoriGrayTip(s) == s.from = "tip" /\ s.sub \in {"revoke", "group"}

MemberChangeType ==
    [member_add |-> "guild-member-added", quit |-> "guild-member-removed"]

ToSatoriGrayTipEvent(s) ==
    IF s.sub = "revoke" THEN {"message-deleted"}
    ELSE IF s.chat = "group" THEN Entry(MemberChangeType, s.says) ELSE {}

SatoriEvent(s) ==
    IF s.from \notin {"message", "tip"} THEN {}
    ELSE IF HasSatoriGrayTip(s) THEN ToSatoriGrayTipEvent(s) ELSE {"message-created"}

(* toSatoriMessage catches what broadcastGrayTip lets out. *)
SatoriLookups(s) ==
    CASE s.from = "message" -> Soft(s.at)
      [] HasSatoriGrayTip(s) -> Hard(s.uids)
      [] OTHER -> <<>>

-----------------------------------------------------------------------------
EventOf(s) ==
    CASE adapter = "onebot" -> OneBotEvent(s)
      [] adapter = "milky" -> MilkyEvent(s)
      [] adapter = "satori" -> SatoriEvent(s)

LookupsOf(s) ==
    CASE adapter = "onebot" -> OneBotLookups(s)
      [] adapter = "milky" -> MilkyLookups(s)
      [] adapter = "satori" -> SatoriLookups(s)

(* broadcastEvent / broadcastContent, once nothing is awaited any more. *)
BroadcastEvent(n, s) ==
    reported' = reported \o
        IF EventOf(s) = {} THEN <<>>
        ELSE <<[event |-> CHOOSE e \in EventOf(s) : TRUE, of |-> n]>>

(* A callback of the kernel: the handler runs up to its first lookup.       *)
OnSignal(s) ==
    LET n == Len(handlers) + 1
        lookups == LookupsOf(s)
    IN  /\ n <= MaxSignals
        /\ handlers' = Append(handlers, [signal |-> s, awaits |-> lookups, lost |-> FALSE,
                                         ended |-> lookups = <<>>])
        /\ IF lookups = <<>> THEN BroadcastEvent(n, s) ELSE UNCHANGED reported
        /\ UNCHANGED <<adapter, settings>>

Awaiting(n) == ~handlers[n].ended

GoOnWith(n) ==
    LET rest == Tail(handlers[n].awaits)
    IN  /\ handlers' = [handlers EXCEPT ![n].awaits = rest, ![n].ended = rest = <<>>]
        /\ IF rest = <<>> THEN BroadcastEvent(n, handlers[n].signal)
           ELSE UNCHANGED reported
        /\ UNCHANGED <<adapter, settings>>

LookupAnswered(n) == Awaiting(n) /\ GoOnWith(n)

(* Fault-seeded form of LookupFailed: no failure is caught. *)
FaultyLookupFailed(n) ==
    /\ Awaiting(n)
    /\ handlers' = [handlers EXCEPT ![n].awaits = <<>>, ![n].ended = TRUE]
    /\ UNCHANGED <<adapter, settings, reported>>

(* uidToUin or the member's lookup rejects: a soft lookup goes on without   *)
(* its answer, a hard one gives the event up (.catch(() => {})).            *)
LookupFailed(n) ==
    /\ Awaiting(n)
    /\ IF Head(handlers[n].awaits) = "soft" THEN GoOnWith(n)
       ELSE /\ handlers' = [handlers EXCEPT ![n].awaits = <<>>, ![n].lost = TRUE,
                                            ![n].ended = TRUE]
            /\ UNCHANGED <<adapter, settings, reported>>

EventNext ==
    \/ \E s \in Signals : OnSignal(s)
    \/ \E n \in DOMAIN handlers : LookupAnswered(n)
    \/ \E n \in DOMAIN handlers : LookupFailed(n)

EventSpec == EventInit /\ [][EventNext]_eventVars

-----------------------------------------------------------------------------
(* What each protocol has an event for.                                     *)
Catalogue ==
    [onebot |-> {"message", "recall", "member_add", "quit", "block", "unblock", "shut_up",
                 "whole_shut_up", "poke", "card", "join", "invited", "invited_by_member",
                 "friend_request", "offline_file", "friend_added"},
     milky |-> {"message", "recall", "member_add", "quit", "shut_up", "whole_shut_up",
                "renamed", "disbanded", "poke", "reaction", "join", "invited",
                "invited_by_member", "friend_request", "disconnected", "logout"},
     satori |-> {"message", "recall", "member_add", "quit"}]

(* What the adapters leave out on purpose: what the bot said itself, what   *)
(* is already handled or cannot be decoded, a doubtful join request         *)
(* (OneBot), a change without its operator (Milky).                         *)
LeftOut(s) ==
    \/ /\ s.from = "message"
       /\ s.self
       /\ \/ adapter = "onebot" /\ ~settings.reportSelf
          \/ adapter = "milky" /\ ToGroupFileUploadEvent(s) = {}
    \/ s.from = "sysmsg" /\ ~s.whole
    \/ s.from = "notify" /\ (s.handled \/ (adapter = "onebot" /\ s.doubt))
    \/ s.from = "tip" /\ adapter = "milky" /\ OperatorMissing(s)

(* The known gaps: OneBot misses a poke in a tip of subtype GROUP, which    *)
(* Milky reports; Satori reports a poke or an unknown tip as a message.     *)
KnownGap(s) ==
    /\ s.from = "tip"
    /\ \/ adapter = "onebot" /\ s.says = "poke" /\ s.sub = "group"
       \/ adapter = "satori" /\ s.sub = "other"

ReportsOf(n) == Cardinality({i \in DOMAIN reported : reported[i].of = n})

(* Whatever lookups fail and however the handlers overlap, a handler that   *)
(* has ended has broadcast one event if the protocol has one for what       *)
(* happened, and none otherwise.  Only a gray tip whose uids OneBot or      *)
(* Satori cannot look up is lost: a message and a request never are.        *)
EventsReported ==
    \A n \in DOMAIN handlers :
        LET s == handlers[n].signal
        IN  /\ handlers[n].ended /\ ~KnownGap(s) /\ ~handlers[n].lost =>
                ReportsOf(n) = IF s.says \in Catalogue[adapter] /\ ~LeftOut(s) THEN 1 ELSE 0
            /\ handlers[n].lost => s.from = "tip" /\ adapter # "milky" /\ ReportsOf(n) = 0
=============================================================================
