---------------------------- MODULE OneBotActions ---------------------------
(***************************************************************************)
(* The actions of the OneBot 11 protocol (adapter/src/onebot11/action): for *)
(* each action the plans its _handle can follow, in terms of the kernel's   *)
(* APIs.  What the plans carry and how the answers are worded is left out.  *)
(***************************************************************************)
EXTENDS KernelApis

(* Local tables: message_id to msgId and peer (MessageUnique.tla).          *)
ResolveMsgIdAndPeer == Check

(* resolveUid calls the function it is given.  The actions of groups give   *)
(* it a closure; the others give it the method api.uinToUid itself, which   *)
(* then runs without its object.                                            *)
ResolveUid == UinToUid ++ Check
ResolveUidUnbound == Unbound("uinToUid")

ResolveTargetPeer == Check ++ Opt(UinToUid ++ Check)
FetchMsgById == ResolveMsgIdAndPeer ++ FetchMsgsByMsgId ++ Check
UidsToUins == Opt(Lenient("getUinByUids"))
GroupMemberRole == Opt(Lenient("getAllMemberList"))
GroupMemberRoles == Opt(Lenient("getAllMemberList"))

-----------------------------------------------------------------------------
(* action/message *)

EnsureVoiceSilk == Opt(Read("encodeSilk"))
SendOb11Message == ResolveTargetPeer ++ UidsToUins ++ EnsureVoiceSilk ++ SendMessageApi
SendMsg == SendOb11Message
SendPrivateMsg == SendOb11Message
SendGroupMsg == SendOb11Message
DeleteMsg == ResolveMsgIdAndPeer ++ RecallMessage
GetMsg == FetchMsgById ++ UidsToUins ++ GroupMemberRole
FetchAndTranslateHistory ==
    FetchMessages ++ Check ++ UidsToUins ++ GroupMemberRoles
GetGroupMsgHistory == FetchAndTranslateHistory
GetFriendMsgHistory == ResolveUidUnbound ++ FetchAndTranslateHistory
MarkMsgAsRead == Nothing \cup MarkRead \cup (ResolveUidUnbound ++ MarkRead)
MarkPrivateMsgAsRead == ResolveUidUnbound ++ MarkRead
MarkGroupMsgAsRead == MarkRead
SetMsgEmojiLike == FetchMsgById ++ SetMsgEmojiLikeApi
FetchPttTextAction == ResolveMsgIdAndPeer ++ FetchPttText
SetInputStatus == ResolveUidUnbound ++ SetInputStatusApi
DownloadImageToCache == Lenient("downloadUrl")
ResolveMedia == FetchMsgById ++ Check
GetImage == Check ++ ResolveMedia ++ Opt(DownloadImageToCache)
GetRecord == Check ++ FetchMsgById ++ Check ++ Opt(Lenient("downloadPtt"))
SendForward == Check ++ SendForwardMessage
SendGroupForwardMsg == SendForward
SendPrivateForwardMsg == ResolveUidUnbound ++ SendForward
GetForwardMsg == Check ++ ResolveMsgIdAndPeer ++ FetchForwardMessage
ForwardSingleMsg == ResolveMsgIdAndPeer ++ ResolveTargetPeer ++ ForwardSingleMessage

-----------------------------------------------------------------------------
(* action/group *)

OperateEssence == ResolveMsgIdAndPeer ++ Check ++ SetEssence
SetEssenceMsg == OperateEssence
DeleteEssenceMsg == OperateEssence
GetEssenceMsgListAction == GetEssenceMsgList
GetGroupAddRequest == GetSingleScreenNotifies
GetGroupIgnoredNotifies == GetSingleScreenNotifies
GetGroupAtAllRemain == GetGroupRemainAtTimes
GetGroupHonorInfo == GetGroupHonorInfoApi
GetGroupInfo == CachedDetail \cup GetGroupInfoApi
GetGroupList == Nothing \cup CachedGroups
ResolveMember == CachedMember \cup GetGroupMemberInfoApi
GetGroupMemberInfo == UinToUid ++ Check ++ ResolveMember ++ Check ++ UidToUin
GetGroupMemberList == (CachedMembers \cup GetGroupMemberListApi) ++ UidToUin
GetGroupShutList == GetGroupShutUpMemberList ++ UidToUin
GetGroupSystemMsg == GetSingleScreenNotifies ++ UidToUin
FindNotify == GetSingleScreenNotifies ++ Opt(GetSingleScreenNotifies)
SetGroupAddRequest == FindNotify ++ Check ++ HandleGroupRequest
SetGroupAdmin == ResolveUid ++ SetMemberRole
SetGroupBan == ResolveUid ++ SetMemberShutUp
SetGroupCard == ResolveUid ++ SetMemberCardName
SetGroupKick == ResolveUid ++ KickMember
SetGroupLeave == QuitGroupApi
SetGroupName == ModifyGroupName
SetGroupWholeBan == SetGroupShutUp

CreateGroupFileFolder == CreateGroupFolderApi
DeleteGroupFile == DeleteGroupFileApi
DeleteGroupFolder == DeleteGroupFolderApi
RenameGroupFile == RenameGroupFileApi
MoveGroupFile == MoveGroupFileApi
TransGroupFile == TransGroupFileApi
GetGroupRootFiles == GetGroupFileList
GetGroupFilesByFolder == GetGroupFileList
GetGroupFileSystemInfoAction == GetGroupFileSystemInfo

(* action/friend *)

DeleteFriend == ResolveUidUnbound ++ DeleteFriendApi
GetDoubtFriendsAddRequest == GetDoubtFriendRequest
GetFriendList == GetFriendListApi
GetFriendsWithCategory == GetFriendCategories
GetStrangerInfo == GetStrangerInfoApi
SendLike == ResolveUidUnbound ++ SendLikeApi
SetDoubtFriendsAddRequest == HandleDoubtFriendRequest
SetFriendAddRequest ==
    GetBuddyReqList ++ Check ++ HandleFriendRequest ++ Opt(SetFriendRemarkApi)
SetFriendRemark == ResolveUidUnbound ++ SetFriendRemarkApi

-----------------------------------------------------------------------------
(* action/system.  The cleaning, leaving and restarting callbacks come from *)
(* the host, which may not have set them.                                   *)

CanSendImage == Nothing
CanSendRecord == Nothing
CleanCache == Check ++ Change("cleanCache")
DownloadFileAction == Check ++ Read("fetch")
GetClientkey == GetClientKey
GetCookies == GetCookiesApi
GetCsrfToken == GetCookiesApi
GetCredentials == GetCookiesApi
GetLoginInfo == Nothing
GetRobotUinRange == Nothing
GetStatus == Nothing
GetVersionInfo == Nothing
BotExit == Check ++ Change("exit")
SetRestart == Check ++ Change("restart")
SetSelfLongnick == SetLongNick
SetQQProfile == SetNickName ++ Opt(SetLongNick)
DownloadToCache == Check ++ Read("fetch")
SetQQAvatar == Opt(DownloadToCache) ++ Check ++ SetHeader
SetDiyOnlineStatus == SetOnlineStatusApi
SetOnlineStatus == SetOnlineStatusApi
TranslateEn2Zh == TranslateWords

-----------------------------------------------------------------------------
(* createOb11ActionRegistry *)
OneBotHandlers == [
    send_msg |-> SendMsg, send_private_msg |-> SendPrivateMsg,
    send_group_msg |-> SendGroupMsg, delete_msg |-> DeleteMsg, get_msg |-> GetMsg,
    get_group_msg_history |-> GetGroupMsgHistory,
    get_friend_msg_history |-> GetFriendMsgHistory,
    mark_msg_as_read |-> MarkMsgAsRead,
    mark_private_msg_as_read |-> MarkPrivateMsgAsRead,
    mark_group_msg_as_read |-> MarkGroupMsgAsRead,
    set_msg_emoji_like |-> SetMsgEmojiLike, fetch_ptt_text |-> FetchPttTextAction,
    set_input_status |-> SetInputStatus, get_image |-> GetImage, get_record |-> GetRecord,
    send_group_forward_msg |-> SendGroupForwardMsg,
    send_private_forward_msg |-> SendPrivateForwardMsg,
    get_forward_msg |-> GetForwardMsg, forward_group_single_msg |-> ForwardSingleMsg,
    forward_friend_single_msg |-> ForwardSingleMsg,
    set_online_status |-> SetOnlineStatus, set_diy_online_status |-> SetDiyOnlineStatus,
    get_login_info |-> GetLoginInfo, get_group_info |-> GetGroupInfo,
    get_group_list |-> GetGroupList, get_group_member_info |-> GetGroupMemberInfo,
    get_group_member_list |-> GetGroupMemberList, get_friend_list |-> GetFriendList,
    set_group_kick |-> SetGroupKick, set_group_ban |-> SetGroupBan,
    set_group_whole_ban |-> SetGroupWholeBan, set_group_admin |-> SetGroupAdmin,
    set_group_card |-> SetGroupCard, set_group_name |-> SetGroupName,
    set_group_leave |-> SetGroupLeave, set_essence_msg |-> SetEssenceMsg,
    delete_essence_msg |-> DeleteEssenceMsg,
    get_group_at_all_remain |-> GetGroupAtAllRemain,
    set_friend_add_request |-> SetFriendAddRequest,
    set_friend_remark |-> SetFriendRemark, delete_friend |-> DeleteFriend,
    get_friends_with_category |-> GetFriendsWithCategory,
    get_doubt_friends_add_request |-> GetDoubtFriendsAddRequest,
    set_doubt_friends_add_request |-> SetDoubtFriendsAddRequest,
    get_status |-> GetStatus, get_version_info |-> GetVersionInfo,
    clean_cache |-> CleanCache, can_send_image |-> CanSendImage,
    can_send_record |-> CanSendRecord, get_robot_uin_range |-> GetRobotUinRange,
    download_file |-> DownloadFileAction, bot_exit |-> BotExit, set_restart |-> SetRestart,
    set_group_add_request |-> SetGroupAddRequest,
    get_group_system_msg |-> GetGroupSystemMsg, get_group_shut_list |-> GetGroupShutList,
    get_clientkey |-> GetClientkey, get_cookies |-> GetCookies,
    set_self_longnick |-> SetSelfLongnick, set_qq_profile |-> SetQQProfile,
    set_qq_avatar |-> SetQQAvatar, translate_en2zh |-> TranslateEn2Zh,
    send_like |-> SendLike, get_group_root_files |-> GetGroupRootFiles,
    get_group_files_by_folder |-> GetGroupFilesByFolder,
    get_group_file_system_info |-> GetGroupFileSystemInfoAction,
    create_group_file_folder |-> CreateGroupFileFolder,
    delete_group_file |-> DeleteGroupFile, delete_group_folder |-> DeleteGroupFolder,
    rename_group_file |-> RenameGroupFile, move_group_file |-> MoveGroupFile,
    trans_group_file |-> TransGroupFile, get_stranger_info |-> GetStrangerInfo,
    get_csrf_token |-> GetCsrfToken, get_credentials |-> GetCredentials,
    get_group_add_request |-> GetGroupAddRequest,
    get_group_ignored_notifies |-> GetGroupIgnoredNotifies,
    get_essence_msg_list |-> GetEssenceMsgListAction,
    get_group_honor_info |-> GetGroupHonorInfo]
=============================================================================
