----------------------------- MODULE KernelApis -----------------------------
(***************************************************************************)
(* The methods of the kernel's semantic APIs (packages/kernel/src/apis),    *)
(* each as the plans it can follow.  A plan is the sequence of things the   *)
(* method awaits or changes, in the order of its code; a method is the set  *)
(* of its plans, one for each way through its conditions.  What a plan      *)
(* carries (names, texts, lists) is left out: a step says which native call *)
(* it makes and what becomes of a refusal.  Requests.tla runs the plans.    *)
(***************************************************************************)
EXTENDS Naturals, Sequences

CONSTANT MaxRounds      \* rounds of a loop over media, messages, pages or members

ASSUME RoundsAssumption == MaxRounds \in Nat \ {0}

Step(act, call) == {<<[act |-> act, call |-> call]>>}

(* A condition on the request or on what was read; the code throws when it  *)
(* does not hold.                                                           *)
Check == Step("check", "")
(* A native query: a result code other than 0, or a rejection, is thrown.   *)
Read(call) == Step("read", call)
(* A query whose failure is caught and replaced by an empty answer.         *)
Lenient(call) == Step("lenient", call)
(* A change: a result code other than 0, or a rejection, is thrown (unwrap, *)
(* unwrapResult).                                                           *)
Change(call) == Step("write", call)
(* The same by checkLooseResult: an answer without a result code passes for *)
(* success, whatever QQ did.                                                *)
Loose(call) == Step("loose", call)
(* A change whose answer is dropped, or a void call; only a rejection, or   *)
(* an exception of the call itself, is thrown.                              *)
Unchecked(call) == Step("unchecked", call)
(* A change in a try/catch: nothing of it is thrown.                        *)
Fire(call) == Step("fire", call)
(* A send that an event confirms; no event in time is thrown as failure.    *)
Confirmed(call) == Step("confirmed", call)
(* A send that no event confirms: a result code other than 0 is thrown, but *)
(* neither code says whether the message went out (msg.ts, sendMessage).    *)
Sent(call) == Step("sent", call)
(* A method called without its object: its first use of `this` throws.      *)
Unbound(call) == Step("unbound", call)

Nothing == {<<>>}
A ++ B == {a \o b : a \in A, b \in B}
Opt(A) == Nothing \cup A

(* A loop over a list that is not empty. *)
RoundsOf(A) ==
    LET rounds[n \in 1..MaxRounds] == IF n = 1 THEN A ELSE rounds[n - 1] ++ A
    IN  rounds
Some(A) == UNION {RoundsOf(A)[n] : n \in 1..MaxRounds}

-----------------------------------------------------------------------------
(* GroupApi *)

\* Fault-seeded form of SetMemberShutUp: the result is not unwrapped.
FaultySetMemberShutUp == Check ++ Unchecked("setMemberShutUp")
\* Fault-seeded form of SetEssence: the message is looked for too late.
FaultySetEssence == Read("getMsgsByMsgId") ++ Loose("setEssence") ++ Check

GetGroupListApi == Read("getGroupList")
GetGroupInfoApi == Read("getGroupDetailInfo") ++ Check
GetGroupMemberListApi == Read("getAllMemberList")
GetGroupMemberInfoApi == Nothing \cup Read("getMemberInfo")
UinToUid == Nothing \cup Read("getUidByUins")
UidToUin == Nothing \cup Read("getUinByUids")
KickMember == Check ++ Change("kickMemberV2")
SetMemberShutUp == Check ++ Change("setMemberShutUp")
SetGroupShutUp == Change("setGroupShutUp")
SetMemberRole == Unchecked("modifyMemberRole")
SetMemberCardName == Unchecked("modifyMemberCardName")
ModifyGroupName == Change("modifyGroupName")
QuitGroupApi == Change("quitGroupV2")
SetEssence == Read("getMsgsByMsgId") ++ Check ++ Loose("setEssence")
GetGroupAnnouncementsApi == Read("getGroupBulletin")
UploadBulletinPic == Loose("uploadGroupBulletinPic")
PublishGroupAnnouncement == Opt(UploadBulletinPic) ++ Loose("publishGroupBulletin")
DeleteGroupAnnouncementApi == Loose("deleteGroupBulletin")
SetMemberSpecialTitle == Loose("setIdentityTitleInfo")
SetGroupAvatarApi == Loose("setGroupHeader")
GetGroupRemainAtTimes == Read("getGroupRemainAtTimes")

(* GroupNotifyApi *)

GetSingleScreenNotifies == Read("getSingleScreenNotifies")
GetGroupShutUpMemberList == Read("getGroupShutUpMemberList")
HandleGroupRequest == Unchecked("operateSysNotify")

(* FriendApi *)

GetBuddyCategories ==
    Lenient("getBuddyListFromCache") ++ Opt(Read("getBuddyListV2"))
GetFriendListApi == GetBuddyCategories ++ UidToUin
GetFriendCategories == GetBuddyCategories ++ GetFriendListApi
GetBuddyReqList == Read("getBuddyReq")
HandleFriendRequest == Unchecked("approvalFriendRequest")
SetFriendRemarkApi == Unchecked("setBuddyRemark")
DeleteFriendApi == Loose("delBuddy")
GetDoubtFriendRequest == Read("getDoubtBuddyReq") ++ UidToUin
HandleDoubtFriendRequest == Unchecked("approvalDoubtBuddyReq")

(* ProfileApi, ProfileLikeApi, RecentContactApi *)

SetLongNick == Loose("setLongNick")
SetNickName == Loose("setNickName")
SetHeader == Change("setHeader")
GetStrangerInfoApi == Read("getUserDetailInfoByUin") ++ Read("getUserDetailInfo")
SendLikeApi == Change("setBuddyProfileLike")
GetPinnedContacts == Read("getRecentContactList")

(* RichMediaApi *)

TranslateWords == Read("translateEnWordToZn")
GetGroupFileList == Read("getGroupFileList")
GetGroupFileSystemInfo == Read("getGroupFileList") ++ Check
CreateGroupFolderApi == Change("createGroupFolder")
DeleteGroupFileApi == Change("deleteGroupFile")
DeleteGroupFolderApi == Change("deleteGroupFolder")
RenameGroupFileApi == Unchecked("renameGroupFile")
MoveGroupFileApi == Change("moveGroupFile")
RenameGroupFolderApi == Unchecked("renameGroupFolder")
GetGroupFileDownloadUrl == GetGroupFileList ++ Check
TransGroupFileApi == Change("transGroupFile")

(* TicketApi and WebApi: the requests to qun.qq.com are queries.  A page of *)
(* the digest list that is refused ends the list, one that cannot be        *)
(* fetched is thrown.                                                       *)

GetClientKey == Read("forceFetchClientKey") ++ Check
GetCookiesApi == GetClientKey ++ Read("jump")
GetEssenceMsgList == GetCookiesApi ++ Some(Read("digest_list"))
GetGroupHonorInfoApi == GetCookiesApi ++ Opt(Some(Read("honorlist")))

(* MsgApi.  sendMessage stages each media file first and then waits for the *)
(* event; MessageSend.tla has the details of that wait.                     *)

PrepareSendElements == Opt(Some(Read("mediaFile")))
SendMessageApi == PrepareSendElements ++ Confirmed("sendMsg")
RecallMessage == Check ++ Change("recallMsg")
FetchMessages == Read("getMsgs")
FetchMsgsByMsgId == Nothing \cup Read("getMsgsByMsgId")
SetMsgEmojiLikeApi == Change("setMsgEmojiLikes")
FetchPttText ==
    FetchMsgsByMsgId ++ Check ++ Read("translatePtt2Text") ++ FetchMsgsByMsgId ++ Check
MarkRead == Change("setMsgRead")
PttElementOf == FetchMsgsByMsgId
DownloadPtt ==
    PttElementOf ++ Check ++ Read("downloadRichMedia") ++ Some(FetchMsgsByMsgId) ++ Check
SetInputStatusApi == Unchecked("sendShowInputStatusReq")
SendNudge == Loose("sendNudge")
SetContactTop == Loose("setContactLocalTop")
QueryFavEmojis == Read("queryFavEmojiByDesc")
SendForwardMessage ==
    Check ++ Read("buildMultiForwardMsg") ++ Check ++ Sent("sendForward")
FetchForwardMessage == FetchMsgsByMsgId ++ Check ++ Read("getMultiMsg")
ForwardSingleMessage == Check ++ Sent("forwardMsg")
SetOnlineStatusApi == Change("setStatus")

(* GroupCache: what a protocol reads through it; KernelCache.tla has how it *)
(* is filled and kept.                                                      *)

CachedMembers == Nothing \cup GetGroupMemberListApi
CachedDetail == Nothing \cup GetGroupInfoApi
CachedMember == CachedMembers ++ Opt(GetGroupMemberInfoApi)
CachedGroups == Nothing \cup GetGroupListApi
=============================================================================
