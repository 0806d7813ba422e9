---------------------------- MODULE SatoriActions ---------------------------
(***************************************************************************)
(* The actions of the Satori protocol (adapter/src/satori/action): for each *)
(* method the plans its _handle can follow, in terms of the kernel's APIs.  *)
(***************************************************************************)
EXTENDS KernelApis

(* SatoriApi.resolvePeer asks the kernel only for a channel it does not     *)
(* remember; a group it cannot look up counts as a private chat.            *)
ToC2cPeer == UinToUid
SatoriResolvePeer == Opt(Lenient("getGroupDetailInfo")) ++ Opt(ToC2cPeer)

(* helper/element: what the content of a message needs before it is sent,   *)
(* and what a received one needs before it is shown.                        *)
ParseContent == Opt(Lenient("getUidByUins")) ++ Opt(Read("asset"))
ToSatoriMessage == Opt(Lenient("getUinByUids"))

-----------------------------------------------------------------------------
MessageCreate == SatoriResolvePeer ++ ParseContent ++ SendMessageApi
MessageGet == SatoriResolvePeer ++ FetchMsgsByMsgId ++ Check ++ ToSatoriMessage
MessageList == Check ++ SatoriResolvePeer ++ FetchMessages ++ ToSatoriMessage
MessageDelete == SatoriResolvePeer ++ RecallMessage

ChannelGet == SatoriResolvePeer ++ CachedDetail
ChannelList == CachedDetail

UserGet == Lenient("getUserDetailInfoByUin")
UserChannelCreate == Nothing

SatoriFindGroupNotify == GetSingleScreenNotifies ++ Check
GroupRequestApprove == SatoriFindGroupNotify ++ HandleGroupRequest
GuildGet == GetGroupInfoApi
GuildList == CachedGroups
GuildApprove == GroupRequestApprove
GuildMemberGet == UinToUid ++ CachedMember ++ Opt(GetGroupMemberInfoApi ++ Check)
GuildMemberList == CachedMembers ++ Opt(GetGroupMemberListApi) ++ UidToUin
GuildMemberKick == UinToUid ++ KickMember
GuildMemberMute == UinToUid ++ SetMemberShutUp
GuildMemberApprove == GroupRequestApprove

SatoriFindBuddyReq == GetBuddyReqList ++ Check ++ UidToUin ++ Check
FriendList == GetFriendListApi
FriendDelete == UinToUid ++ DeleteFriendApi
FriendApprove == SatoriFindBuddyReq ++ HandleFriendRequest

LoginGet == Nothing
ReactionCreate == SatoriResolvePeer ++ SetMsgEmojiLikeApi
ReactionDelete == Check ++ SatoriResolvePeer ++ SetMsgEmojiLikeApi

(* The methods QQ has no counterpart for are answered with 501. *)
NotImplemented == Step("refuse", "")
NotImplementedNames ==
    {"message.update", "channel.create", "channel.update", "channel.delete",
     "channel.mute", "guild.member.role.set", "guild.member.role.unset",
     "guild.role.list", "guild.role.create", "guild.role.update", "guild.role.delete",
     "reaction.clear", "reaction.list"}

SatoriNames == NotImplementedNames \cup
    {"message.create", "message.get", "message.list", "message.delete", "channel.get",
     "channel.list", "user.get", "user.channel.create", "guild.get", "guild.list",
     "guild.approve", "guild.member.get", "guild.member.list", "guild.member.kick",
     "guild.member.mute", "guild.member.approve", "friend.list", "friend.delete",
     "friend.approve", "login.get", "reaction.create", "reaction.delete"}

-----------------------------------------------------------------------------
(* createSatoriActionRegistry *)
SatoriHandlers == [name \in SatoriNames |->
    CASE name = "message.create" -> MessageCreate
      [] name = "message.get" -> MessageGet
      [] name = "message.list" -> MessageList
      [] name = "message.delete" -> MessageDelete
      [] name = "channel.get" -> ChannelGet
      [] name = "channel.list" -> ChannelList
      [] name = "user.get" -> UserGet
      [] name = "user.channel.create" -> UserChannelCreate
      [] name = "guild.get" -> GuildGet
      [] name = "guild.list" -> GuildList
      [] name = "guild.approve" -> GuildApprove
      [] name = "guild.member.get" -> GuildMemberGet
      [] name = "guild.member.list" -> GuildMemberList
      [] name = "guild.member.kick" -> GuildMemberKick
      [] name = "guild.member.mute" -> GuildMemberMute
      [] name = "guild.member.approve" -> GuildMemberApprove
      [] name = "friend.list" -> FriendList
      [] name = "friend.delete" -> FriendDelete
      [] name = "friend.approve" -> FriendApprove
      [] name = "login.get" -> LoginGet
      [] name = "reaction.create" -> ReactionCreate
      [] name = "reaction.delete" -> ReactionDelete
      [] OTHER -> NotImplemented]
=============================================================================
