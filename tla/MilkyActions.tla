---------------------------- MODULE MilkyActions ----------------------------
(***************************************************************************)
(* The actions of the Milky protocol (adapter/src/milky/action): for each   *)
(* request the plans its _handle can follow, in terms of the kernel's APIs. *)
(* What the plans carry and how the answers are worded is left out.         *)
(***************************************************************************)
EXTENDS KernelApis

(* MilkyApi.  An unknown user is thrown by resolveUidFromUin; resolvePeer   *)
(* falls back to the number it was given.                                   *)
ResolveUidFromUin == Lenient("getUidByUins") ++ Check
ResolvePeer == Nothing \cup Lenient("getUidByUins")
ResolveMsgIdBySeq == Nothing \cup Lenient("getMsgs")
ResolveSentOutput == FetchMsgsByMsgId ++ Check
FindGroupNotify == GetSingleScreenNotifies ++ Opt(GetSingleScreenNotifies ++ Check)
FindBuddyReq == GetBuddyReqList ++ Check

(* media-uri.ts: a remote picture or file is stored before it is used. *)
ResolveMediaUri == Check ++ Read("download")
ResolveUriToPath == Nothing \cup ResolveMediaUri

-----------------------------------------------------------------------------
(* action/message.ts *)

ResolveAtUins == Nothing \cup Lenient("getUidByUins")
ResolveElement == Nothing \cup ResolveMediaUri
ResolveElements == ResolveAtUins ++ Opt(Some(ResolveElement))
NarrowForwardMessages == Check
RecallTempMessages == Fire("recallMsg")

(* A merged forward is built from messages sent one by one and then recalled. *)
SendForwardComposition ==
    Check ++ NarrowForwardMessages
        ++ Some(ResolveElements ++ Check ++ SendMessageApi)
        ++ SendForwardMessage ++ RecallTempMessages ++ ResolveSentOutput
SendMilkyMessage ==
    SendForwardComposition
        \cup (ResolveElements ++ Check ++ SendMessageApi ++ ResolveSentOutput)
RecallBySeq == ResolveMsgIdBySeq ++ Check ++ RecallMessage
SendFileMessage == SendMessageApi ++ FetchMsgsByMsgId
TranslateWithEntities ==
    Opt(Lenient("getGroupDetailInfo")) ++ Opt(Lenient("getMemberInfo"))
LoadGroupData == Opt(Lenient("getGroupDetailInfo") ++ Lenient("getAllMemberList"))
ResolveAnchor == Nothing \cup (ResolveMsgIdBySeq ++ Check)
SenderNameOf == Nothing \cup Lenient("getMemberInfo")

SendPrivateMessage == ResolvePeer ++ SendMilkyMessage
SendGroupMessage == SendMilkyMessage
GetMessage ==
    ResolvePeer ++ ResolveMsgIdBySeq ++ Check ++ FetchMsgsByMsgId ++ Check
        ++ TranslateWithEntities
RecallPrivateMessage == ResolvePeer ++ RecallBySeq
RecallGroupMessage == RecallBySeq
GetHistoryMessages == ResolvePeer ++ ResolveAnchor ++ FetchMessages ++ LoadGroupData
GetForwardedMessages ==
    Check ++ FetchForwardMessage ++ Opt(Lenient("getUinByUids")) ++ SenderNameOf
MarkMessageAsRead == ResolvePeer ++ MarkRead
GetCustomFaceUrlList == QueryFavEmojis
GetResourceTempUrl == Check
UploadPrivateFile == ResolveUriToPath ++ ResolvePeer ++ SendFileMessage

-----------------------------------------------------------------------------
(* action/group.ts *)

MembersOf == CachedMembers
MemberOf == Lenient("getUidByUins") ++ CachedMember ++ Check
RequireSelfUid == Check
SenderUinOf == Nothing \cup Lenient("getUinByUids")
CollectUidToUin == Nothing \cup Lenient("getUinByUids")

MilkyGetGroupInfo == CachedDetail
MilkyGetGroupMemberList == MembersOf
MilkyGetGroupMemberInfo == MemberOf
MilkySetGroupName == ModifyGroupName
SetGroupMemberCard == ResolveUidFromUin ++ SetMemberCardName
SetGroupMemberAdmin == ResolveUidFromUin ++ SetMemberRole
SetGroupMemberMute == ResolveUidFromUin ++ SetMemberShutUp
SetGroupWholeMute == SetGroupShutUp
KickGroupMember == ResolveUidFromUin ++ KickMember
QuitGroup == QuitGroupApi
GetGroupEssenceMessages == GetEssenceMsgList
SetGroupEssenceMessage == ResolveMsgIdBySeq ++ Check ++ SetEssence
SendGroupMessageReaction == SetMsgEmojiLikeApi
GetGroupNotifications == GetSingleScreenNotifies ++ CollectUidToUin
RespondGroupNotify == FindGroupNotify ++ HandleGroupRequest
AcceptGroupRequest == RespondGroupNotify
RejectGroupRequest == RespondGroupNotify
AcceptGroupInvitation == RespondGroupNotify
RejectGroupInvitation == RespondGroupNotify
SendGroupNudge == ResolveUidFromUin ++ RequireSelfUid ++ SendNudge
GetGroupAnnouncements == GetGroupAnnouncementsApi ++ Opt(Some(SenderUinOf))
SendGroupAnnouncement == ResolveUriToPath ++ PublishGroupAnnouncement
DeleteGroupAnnouncement == DeleteGroupAnnouncementApi
SetGroupAvatar == ResolveUriToPath ++ SetGroupAvatarApi
SetGroupMemberSpecialTitle == ResolveUidFromUin ++ SetMemberSpecialTitle

-----------------------------------------------------------------------------
(* action/group-file.ts *)

GetGroupFiles == GetGroupFileList
MilkyMoveGroupFile == MoveGroupFileApi
MilkyRenameGroupFile == RenameGroupFileApi
MilkyDeleteGroupFile == DeleteGroupFileApi
PersistGroupFile == TransGroupFileApi
CreateGroupFolder == CreateGroupFolderApi
MilkyDeleteGroupFolder == DeleteGroupFolderApi
UploadGroupFile == ResolveUriToPath ++ SendFileMessage
GetGroupFileDownload == GetGroupFileDownloadUrl
RenameGroupFolder == RenameGroupFolderApi

-----------------------------------------------------------------------------
(* action/social.ts *)

PinnedFriendEntities == Nothing \cup GetFriendListApi
PinnedGroupEntities == Nothing \cup CachedGroups

MilkyGetFriendList == GetFriendListApi
MilkyGetGroupList == CachedGroups
SendProfileLike == ResolveUidFromUin ++ SendLikeApi
MilkyDeleteFriend == ResolveUidFromUin ++ DeleteFriendApi
GetFriendRequests == GetBuddyReqList ++ Opt(Lenient("getUinByUids"))
RespondFriendRequest == FindBuddyReq ++ HandleFriendRequest
SendFriendNudge ==
    RequireSelfUid ++ Opt(ResolveUidFromUin) ++ ResolvePeer ++ SendNudge
GetPeerPins == GetPinnedContacts ++ PinnedFriendEntities ++ PinnedGroupEntities
SetPeerPin == ResolvePeer ++ SetContactTop

(* action/profile.ts, action/system.ts *)

GetUserProfile == GetStrangerInfoApi
GetFriendInfo == GetFriendListApi ++ Check
SetAvatar == ResolveMediaUri ++ SetHeader
SetNickname == SetNickName
SetBio == SetLongNick
MilkyGetCookies == GetCookiesApi
GetCSRFToken == GetCookiesApi
MilkyGetLoginInfo == Nothing
GetImplInfo == Nothing

-----------------------------------------------------------------------------
(* createMilkyActionRegistry *)
MilkyHandlers == [
    get_login_info |-> MilkyGetLoginInfo, get_impl_info |-> GetImplInfo,
    send_private_message |-> SendPrivateMessage, send_group_message |-> SendGroupMessage,
    get_message |-> GetMessage, recall_private_message |-> RecallPrivateMessage,
    recall_group_message |-> RecallGroupMessage, get_friend_list |-> MilkyGetFriendList,
    get_group_list |-> MilkyGetGroupList, get_user_profile |-> GetUserProfile,
    get_friend_info |-> GetFriendInfo, set_avatar |-> SetAvatar,
    set_nickname |-> SetNickname, set_bio |-> SetBio, get_cookies |-> MilkyGetCookies,
    get_csrf_token |-> GetCSRFToken, send_profile_like |-> SendProfileLike,
    delete_friend |-> MilkyDeleteFriend, get_friend_requests |-> GetFriendRequests,
    accept_friend_request |-> RespondFriendRequest,
    reject_friend_request |-> RespondFriendRequest,
    get_history_messages |-> GetHistoryMessages,
    get_forwarded_messages |-> GetForwardedMessages,
    mark_message_as_read |-> MarkMessageAsRead, get_group_info |-> MilkyGetGroupInfo,
    get_group_member_list |-> MilkyGetGroupMemberList,
    get_group_member_info |-> MilkyGetGroupMemberInfo, set_group_name |-> MilkySetGroupName,
    set_group_member_card |-> SetGroupMemberCard,
    set_group_member_admin |-> SetGroupMemberAdmin,
    set_group_member_mute |-> SetGroupMemberMute,
    set_group_whole_mute |-> SetGroupWholeMute, kick_group_member |-> KickGroupMember,
    quit_group |-> QuitGroup, get_group_essence_messages |-> GetGroupEssenceMessages,
    set_group_essence_message |-> SetGroupEssenceMessage,
    send_group_message_reaction |-> SendGroupMessageReaction,
    get_group_notifications |-> GetGroupNotifications,
    accept_group_request |-> AcceptGroupRequest,
    reject_group_request |-> RejectGroupRequest,
    accept_group_invitation |-> AcceptGroupInvitation,
    reject_group_invitation |-> RejectGroupInvitation, get_group_files |-> GetGroupFiles,
    move_group_file |-> MilkyMoveGroupFile, rename_group_file |-> MilkyRenameGroupFile,
    delete_group_file |-> MilkyDeleteGroupFile, persist_group_file |-> PersistGroupFile,
    create_group_folder |-> CreateGroupFolder, delete_group_folder |-> MilkyDeleteGroupFolder,
    send_friend_nudge |-> SendFriendNudge, get_peer_pins |-> GetPeerPins,
    set_peer_pin |-> SetPeerPin, send_group_nudge |-> SendGroupNudge,
    get_group_announcements |-> GetGroupAnnouncements,
    send_group_announcement |-> SendGroupAnnouncement,
    delete_group_announcement |-> DeleteGroupAnnouncement,
    set_group_avatar |-> SetGroupAvatar,
    set_group_member_special_title |-> SetGroupMemberSpecialTitle,
    get_custom_face_url_list |-> GetCustomFaceUrlList,
    get_resource_temp_url |-> GetResourceTempUrl,
    upload_private_file |-> UploadPrivateFile, upload_group_file |-> UploadGroupFile,
    get_group_file_download_url |-> GetGroupFileDownload,
    rename_group_folder |-> RenameGroupFolder]
=============================================================================
