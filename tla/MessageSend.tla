---------------------------- MODULE MessageSend ----------------------------
(***************************************************************************)
(* Sending a message (packages/kernel/src/apis/msg.ts): the media files of *)
(* a message are put where the native side expects them, an id made of the *)
(* time identifies the message, a listener registered before the call      *)
(* waits for the callback that confirms it, and a timer gives up after     *)
(* 15 s. A merged forward goes out without a listener, and so does a       *)
(* message of an API object that was given no event channel.               *)
(***************************************************************************)
EXTENDS Naturals, Sequences

CONSTANTS
    Sends,     \* concurrent calls
    MaxNow     \* bound on the clock, in milliseconds

Kinds == {"message", "forward", "unchannelled"}
Media == {"text", "image", "voice", "file", "video", "videoThumb"}

VARIABLES
    now,          \* Date.now()
    lastMsgTime,  \* MsgApi.lastMsgTime
    call,         \* what is sent by each call, and how far it is
    msgIdOf,      \* generateMsgUniqueId, which tells messages apart by the time
    missing,      \* files of the message still to be placed
    awaiting,    \* the call's listener for onMsgInfoListUpdate is registered
    timing,       \* its timer is armed
    confirmed,    \* the promise of confirmSend
    answer,       \* what sendMsg returned
    native,       \* what became of the message on the native side
    updates       \* callbacks onMsgInfoListUpdate under way

sendVars == <<now, lastMsgTime, call, msgIdOf, missing, awaiting, timing,
              confirmed, answer, native, updates>>

Steps == {"idle", "preparing", "building", "calling", "ok", "failed"}

SendTypeOK ==
    /\ now \in 0 .. MaxNow
    /\ lastMsgTime \in Nat
    /\ call \in [Sends -> [kind : Kinds, step : Steps]]
    /\ msgIdOf \in [Sends -> Nat]
    /\ missing \in [Sends -> SUBSET {"origin", "thumb"}]
    /\ awaiting \in [Sends -> BOOLEAN]
    /\ timing \in [Sends -> BOOLEAN]
    /\ confirmed \in [Sends -> {"none", "pending", "ok", "failed"}]
    /\ answer \in [Sends -> {"none", "ok", "refused", "threw"}]
    /\ native \in [Sends -> {"none", "taken", "sent", "refused"}]
    /\ updates \in Seq([guildId : Nat, sendStatus : {"sending", "success", "failed"}])

SendInit ==
    /\ now = 0
    /\ lastMsgTime = 0
    /\ call = [s \in Sends |-> [kind |-> "message", step |-> "idle"]]
    /\ msgIdOf = [s \in Sends |-> 0]
    /\ missing = [s \in Sends |-> {}]
    /\ awaiting = [s \in Sends |-> FALSE]
    /\ timing = [s \in Sends |-> FALSE]
    /\ confirmed = [s \in Sends |-> "none"]
    /\ answer = [s \in Sends |-> "none"]
    /\ native = [s \in Sends |-> "none"]
    /\ updates = <<>>

At(s, step) == call[s].step = step
Go(s, step) == call' = [call EXCEPT ![s].step = step]

MillisecondPasses ==
    /\ now < MaxNow
    /\ now' = now + 1
    /\ UNCHANGED <<lastMsgTime, call, msgIdOf, missing, awaiting, timing,
                   confirmed, answer, native, updates>>

----------------------------------------------------------------------------
(* The call.                                                               *)

\* Files that prepareSendElements has to place for an element: prepareVideo
\* places the thumbnail as a second file.
FilesOf(el) == CASE el = "text" -> {}
                 [] el = "videoThumb" -> {"origin", "thumb"}
                 [] OTHER -> {"origin"}

StartSend(s, el) ==
    /\ At(s, "idle")
    /\ \E kind \in {"message", "unchannelled"} :
           call' = [call EXCEPT ![s] = [kind |-> kind, step |-> "preparing"]]
    /\ missing' = [missing EXCEPT ![s] = FilesOf(el)]
    /\ UNCHANGED <<now, lastMsgTime, msgIdOf, awaiting, timing, confirmed,
                   answer, native, updates>>

\* stat, hash, getRichMediaFilePathForGuild and copyFile of one file, the
\* thumbnail after the video.
PlaceMediaFile(s) ==
    /\ At(s, "preparing")
    /\ missing[s] # {}
    /\ missing' = [missing EXCEPT ![s] = IF "origin" \in @ THEN @ \ {"origin"} ELSE {}]
    /\ UNCHANGED <<now, lastMsgTime, call, msgIdOf, awaiting, timing,
                   confirmed, answer, native, updates>>

\* One of these throws: no such file, or the copy fails.
PrepareFails(s) ==
    /\ At(s, "preparing")
    /\ missing[s] # {}
    /\ Go(s, "failed")
    /\ UNCHANGED <<now, lastMsgTime, msgIdOf, missing, awaiting, timing,
                   confirmed, answer, native, updates>>

\* Fault-seeded form of NextMsgTime: the clock as it is.
FaultyNextMsgTime == now

NextMsgTime == IF now > lastMsgTime THEN now ELSE lastMsgTime + 1

\* Fault-seeded form of ConfirmSend: a listener without a time limit.
FaultyConfirmSend(s) ==
    /\ awaiting' = [awaiting EXCEPT ![s] = TRUE]
    /\ confirmed' = [confirmed EXCEPT ![s] = "pending"]
    /\ UNCHANGED timing

ConfirmSend(s) ==
    /\ awaiting' = [awaiting EXCEPT ![s] = TRUE]
    /\ timing' = [timing EXCEPT ![s] = TRUE]
    /\ confirmed' = [confirmed EXCEPT ![s] = "pending"]

\* generateMsgUniqueId, the listener, then sendMsg.
SendMessage(s) ==
    /\ At(s, "preparing")
    /\ missing[s] = {}
    /\ lastMsgTime' = NextMsgTime
    /\ msgIdOf' = [msgIdOf EXCEPT ![s] = NextMsgTime]
    /\ IF call[s].kind = "message" THEN ConfirmSend(s)
       ELSE UNCHANGED <<awaiting, timing, confirmed>>
    /\ native' = [native EXCEPT ![s] = "taken"]
    /\ Go(s, "calling")
    /\ UNCHANGED <<now, missing, answer, updates>>

StartForward(s) ==
    /\ At(s, "idle")
    /\ call' = [call EXCEPT ![s] = [kind |-> "forward", step |-> "building"]]
    /\ UNCHANGED <<now, lastMsgTime, msgIdOf, missing, awaiting, timing,
                   confirmed, answer, native, updates>>

\* buildMultiForwardMsg answers, with elements or not. The id is made of the
\* clock itself, outside nextMsgTime.
ForwardBuilt(s) ==
    /\ At(s, "building")
    /\ \/ Go(s, "failed") /\ UNCHANGED <<msgIdOf, native>>
       \/ /\ Go(s, "calling")
          /\ msgIdOf' = [msgIdOf EXCEPT ![s] = now]
          /\ native' = [native EXCEPT ![s] = "taken"]
    /\ UNCHANGED <<now, lastMsgTime, missing, awaiting, timing, confirmed,
                   answer, updates>>

\* Fault-seeded form of CallReturns: the result of sendMsg is the call's.
FaultyCallReturns(s) ==
    /\ At(s, "calling")
    /\ answer[s] # "none"
    /\ Go(s, IF answer[s] = "ok" THEN "ok" ELSE "failed")
    /\ UNCHANGED <<now, lastMsgTime, msgIdOf, missing, awaiting, timing,
                   confirmed, answer, native, updates>>

\* The await of sendMsg ends. Its result counts only where nothing is awaited.
CallReturns(s) ==
    /\ At(s, "calling")
    /\ \/ answer[s] = "threw" /\ Go(s, "failed")
       \/ /\ call[s].kind # "message"
          /\ answer[s] \in {"ok", "refused"}
          /\ Go(s, IF answer[s] = "ok" THEN "ok" ELSE "failed")
       \/ /\ call[s].kind = "message"
          /\ answer[s] \in {"ok", "refused"}
          /\ confirmed[s] \in {"ok", "failed"}
          /\ Go(s, confirmed[s])
    /\ UNCHANGED <<now, lastMsgTime, msgIdOf, missing, awaiting, timing,
                   confirmed, answer, native, updates>>

\* A callback: each listener takes the entry of its own id. A message that is
\* still being sent is waited for.
MsgInfoListUpdate ==
    /\ updates # <<>>
    /\ LET mine == {s \in Sends : awaiting[s] /\ msgIdOf[s] = Head(updates).guildId}
           final == Head(updates).sendStatus # "sending"
           result == IF Head(updates).sendStatus = "success" THEN "ok" ELSE "failed"
       IN /\ awaiting' = [s \in Sends |-> awaiting[s] /\ ~(final /\ s \in mine)]
          /\ confirmed' = [s \in Sends |-> IF final /\ s \in mine THEN result
                                                                 ELSE confirmed[s]]
    /\ updates' = Tail(updates)
    /\ UNCHANGED <<now, lastMsgTime, call, msgIdOf, missing, timing, answer, native>>

\* The timer is never cleared; rejecting a settled promise does nothing.
ConfirmTimeout(s) ==
    /\ timing[s]
    /\ timing' = [timing EXCEPT ![s] = FALSE]
    /\ awaiting' = [awaiting EXCEPT ![s] = FALSE]
    /\ confirmed' = [confirmed EXCEPT ![s] = IF @ = "pending" THEN "failed" ELSE @]
    /\ UNCHANGED <<now, lastMsgTime, call, msgIdOf, missing, answer, native, updates>>

----------------------------------------------------------------------------
(* The native side. It reports a message under the guildId it was given,   *)
(* which only sendMessage fills with the id; a report may precede or       *)
(* follow the answer of sendMsg, whatever that is, or never come.          *)

Report(s, status) ==
    updates' = IF call[s].kind = "forward" THEN updates
               ELSE Append(updates, [guildId |-> msgIdOf[s], sendStatus |-> status])

NativeSending(s) ==
    /\ native[s] = "taken"
    /\ updates = <<>>
    /\ Report(s, "sending")
    /\ UNCHANGED <<now, lastMsgTime, call, msgIdOf, missing, awaiting, timing,
                   confirmed, answer, native>>

NativeEnds(s, end) ==
    /\ native[s] = "taken"
    /\ native' = [native EXCEPT ![s] = end]
    /\ Report(s, IF end = "sent" THEN "success" ELSE "failed")
    /\ UNCHANGED <<now, lastMsgTime, call, msgIdOf, missing, awaiting, timing,
                   confirmed, answer>>

\* Any answer to any message, whatever becomes of it.
NativeAnswers(s, result) ==
    /\ native[s] # "none"
    /\ answer[s] = "none"
    /\ answer' = [answer EXCEPT ![s] = result]
    /\ UNCHANGED <<now, lastMsgTime, call, msgIdOf, missing, awaiting, timing,
                   confirmed, native, updates>>

SendNext ==
    \/ MillisecondPasses
    \/ MsgInfoListUpdate
    \/ \E s \in Sends :
        \/ \E el \in Media : StartSend(s, el)
        \/ PlaceMediaFile(s)
        \/ PrepareFails(s)
        \/ SendMessage(s)
        \/ StartForward(s)
        \/ ForwardBuilt(s)
        \/ CallReturns(s)
        \/ ConfirmTimeout(s)
        \/ NativeSending(s)
        \/ \E end \in {"sent", "refused"} : NativeEnds(s, end)
        \/ \E result \in {"ok", "refused", "threw"} : NativeAnswers(s, result)

\* Timers fire, and a promise that is settled resumes who awaits it.
SendFairness ==
    \A s \in Sends : WF_sendVars(ConfirmTimeout(s)) /\ WF_sendVars(CallReturns(s))

SendSpec == SendInit /\ [][SendNext]_sendVars /\ SendFairness

----------------------------------------------------------------------------
\* A call that awaits a confirmation and reports success has sent its message: a
\* confirmation is never taken for another message's, however close together
\* messages are sent (the id of generateMsgUniqueId, nextMsgTime). Of a forward,
\* and of a message without an event channel, success says that the native side
\* was given it: its result decides, and may be wrong.
OkWasSent ==
    \A s \in Sends : At(s, "ok") =>
        /\ native[s] # "none"
        /\ call[s].kind = "message" => native[s] = "sent"

\* What the caller of each send has heard of it
ToldAt(step) ==
    IF step \in {"ok", "failed"} THEN step ELSE IF step = "idle" THEN "nothing" ELSE "open"
Told == [s \in Sends |-> ToldAt(call[s].step)]
Watched == {s \in Sends : call[s].kind = "message" /\ ~At(s, "idle")}
HandedOver == {s \in Sends : native[s] # "none"}
Delivered == {s \in Sends : native[s] = "sent"}

Promised == INSTANCE Delivery WITH
    told <- Told, watched <- Watched, handed <- HandedOver, delivered <- Delivered

\* The calls keep the promise of Delivery: a call that awaits its confirmation and reports
\* success has sent its own message (nextMsgTime keeps apart those of one millisecond), any
\* other has at least handed it over; timer, callback and answer
\* settle a call once, a late one changes nothing that was told, and no message is handed
\* over twice or after its call failed on the way to the native side.
ImplementsDelivery == Promised!DeliverySpec

\* Once the native side has answered, the call ends, whatever callbacks are
\* lost (the 15 s limit of confirmSend).
SendSettles ==
    \A s \in Sends : answer[s] # "none" ~> At(s, "ok") \/ At(s, "failed")
=============================================================================
