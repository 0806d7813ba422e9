----------------------------- MODULE IpcActions -----------------------------
(***************************************************************************)
(* The actions a parent process calls over stdin in IPC mode                *)
(* (loader/src/host/ipc/ipc-actions.ts), as plans of kernel calls.  The     *)
(* OneBot actions that attachOb11IpcBridge mounts in the same table are     *)
(* those of OneBotActions, whose handle() answers instead of throwing.      *)
(***************************************************************************)
EXTENDS KernelApis

(* A peer is named by its uid, by a group's number, or by a QQ number that  *)
(* has to be converted; uinToUid is bound to its object here.               *)
ToPeer == Check ++ Opt(UinToUid ++ Check)

(* The targets of the at elements of a group message: the conversion of the *)
(* numbers may fail, the look-up of a member's name may not.                *)
MemberDisplay == CachedMember
NormalizeAtElement == Opt(MemberDisplay)
ResolveAtElements == Opt(Lenient("getUidByUins")) ++ Some(NormalizeAtElement)

-----------------------------------------------------------------------------
LoginGetSelf == Nothing
MsgSendMessage == ToPeer ++ ResolveAtElements ++ SendMessageApi
MsgRecallMessage == ToPeer ++ RecallMessage
MsgFetchMessages == ToPeer ++ FetchMessages
MsgMarkRead == ToPeer ++ MarkRead
GroupGetGroupList == CachedGroups
FriendGetFriendList == GetFriendListApi

(* login.refreshQr answers whether a QR login was there to refresh; it is   *)
(* in the table before the login and stays there.                           *)
LoginRefreshQr == Opt(Unchecked("getQRCodePicture"))

(* The diagnostic actions call any method of a native object and answer ok  *)
(* with what became of it.                                                  *)
CallDiagnosticMethod == Opt(Fire("diagnostic"))
EnumerateTmpPaths == Opt(Lenient("getPicTmpPath"))
ProbeFlashSideEffects == Opt(Fire("setFlashTransferDir"))
RunRichMediaDiag == EnumerateTmpPaths ++ ProbeFlashSideEffects

DiagnosticNames ==
    {"diag.flashCall", "diag.sessionCall", "diag.engineCall", "diag.richMediaCall",
     "diag.msgServiceCall", "diag.utilCall"}

IpcNames == DiagnosticNames \cup
    {"login.refreshQr", "login.getSelf", "msg.sendMessage", "msg.recallMessage",
     "msg.fetchMessages", "msg.markRead", "group.getGroupList", "friend.getFriendList",
     "diag.richMediaTmpPaths"}

-----------------------------------------------------------------------------
(* createIpcActions and attachIpcServices *)
IpcHandlers == [name \in IpcNames |->
    CASE name = "login.refreshQr" -> LoginRefreshQr
      [] name = "login.getSelf" -> LoginGetSelf
      [] name = "msg.sendMessage" -> MsgSendMessage
      [] name = "msg.recallMessage" -> MsgRecallMessage
      [] name = "msg.fetchMessages" -> MsgFetchMessages
      [] name = "msg.markRead" -> MsgMarkRead
      [] name = "group.getGroupList" -> GroupGetGroupList
      [] name = "friend.getFriendList" -> FriendGetFriendList
      [] name = "diag.richMediaTmpPaths" -> RunRichMediaDiag
      [] OTHER -> CallDiagnosticMethod]
=============================================================================
