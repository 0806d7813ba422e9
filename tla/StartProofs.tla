---------------------------- MODULE StartProofs -----------------------------
(***************************************************************************)
(* Proofs about what happens before a self-host runs, for any number of    *)
(* processes and files: the files it is spawned over are whole unless      *)
(* starts share them or one is killed over them (Provision), and its data  *)
(* directory has one user (InstanceLock). The lock needs an assumption on  *)
(* the surroundings, and the run InstanceLockOverlap shows what happens    *)
(* without it.                                                             *)
(***************************************************************************)
EXTENDS InstanceLock, Provision, TLAPS

-----------------------------------------------------------------------------
(***************************************************************************)
(* A self-host is spawned over part of its files only if two processes     *)
(* were at the same store at once, or one was killed over it: whatever     *)
(* fails, gives up or is killed at any other step leaves later starts with *)
(* whole files. Nothing is assumed of the processes.                       *)
(*                                                                         *)
(* wrapper.node alone decides whether a version is complete. That is right *)
(* of a store that was never shared and never left in part (Sound): who    *)
(* writes the cache has it to himself, so that all of it is there or       *)
(* wrapper.node is not whenever nobody writes (StoreInv); the same holds   *)
(* of node.exe (NodeInv).                                                  *)
(***************************************************************************)

Sound(what) == what \notin shared \cup leftover

AllWhole == \A f \in QqFiles : cached[f] = "whole"

\* Steps before the files of QQ are settled for a process.
Searching == {"locate", "download", "unpack", "extract", "copy", "clear"}

\* What a process takes is decided step by step; only one that copies has a file
\* under way.
StepInv ==
    \A p \in Boots :
        /\ bootAt[p] \in Searching => uses[p] = {}
        /\ bootAt[p] \in {"lock", "node"} => "node" \notin uses[p]
        /\ bootAt[p] # "copy" => copying[p] = {}
        /\ copying[p] \subseteq toCopy[p]

\* A file is torn while it is under way, and whole when it is not left to copy.
StoreInv ==
    Sound("cache") =>
        /\ \A p \in Boots : Writes(p, "cache") =>
               \A q \in Boots \ {p} : ~Writes(q, "cache") /\ ~Relies(q, "cache")
        /\ (\A p \in Boots : ~Writes(p, "cache")) => AllWhole \/ ~InCache
        /\ \A p \in Boots : bootAt[p] = "copy" =>
               /\ \A f \in QqFiles \ toCopy[p] : cached[f] = "whole"
               /\ \A f \in copying[p] : cached[f] = "torn"
        /\ \A p \in Boots : Relies(p, "cache") => AllWhole

NodeInv ==
    Sound("node") =>
        /\ \A p \in Boots : Writes(p, "node") =>
               \A q \in Boots \ {p} : ~Writes(q, "node") /\ ~Relies(q, "node")
        /\ (\A p \in Boots : ~Writes(p, "node")) => nodeExe \in {"none", "whole"}
        /\ \A p \in Boots : Relies(p, "node") => nodeExe = "whole"

ProvisionInv == ProvisionTypeOK /\ StepInv /\ StoreInv /\ NodeInv /\ LoadsWhole

LEMMA ProvisionInitially == ProvisionInit => ProvisionInv
<1> SUFFICES ASSUME ProvisionInit PROVE ProvisionInv
  OBVIOUS
<1> USE DEF ProvisionInit
<1>1. ProvisionTypeOK
  <2>1. boots \in 0 .. MaxBoots
    BY ProvisionAssumption
  <2>2. /\ bootAt \in [Boots -> {"off", "running"} \cup Preparing]
        /\ cached \in [QqFiles -> FileStates]
        /\ launched \in [Boots -> {"nothing", "part", "all"}]
    BY DEF FileStates
  <2>3. /\ toCopy \in [Boots -> SUBSET QqFiles] /\ copying \in [Boots -> SUBSET QqFiles]
        /\ uses \in [Boots -> SUBSET Stores]
        /\ shared \subseteq Stores /\ leftover \subseteq Stores
    OBVIOUS
  <2>4. /\ cacheDir \in BOOLEAN /\ nodeDir \in BOOLEAN
        /\ nodeZip \in FileStates /\ nodeExe \in FileStates
        /\ zipWriters \subseteq Boots
    BY DEF FileStates
  <2> QED
    BY <2>1, <2>2, <2>3, <2>4 DEF ProvisionTypeOK
<1>2. StepInv /\ LoadsWhole
  BY DEF StepInv, LoadsWhole, Spoilt, Searching
<1>3. StoreInv /\ NodeInv
  BY ProvisionAssumption DEF StoreInv, NodeInv, Writes, Relies, InCache
<1> QED
  BY <1>1, <1>2, <1>3 DEF ProvisionInv

LEMMA StepsKept ==
    ASSUME ProvisionInv, [ProvisionNext]_provisionVars
    PROVE  (ProvisionTypeOK /\ StepInv)'
<1> USE ProvisionAssumption
    DEF ProvisionInv, ProvisionTypeOK, StepInv, Preparing, Stores, FileStates, Searching,
        GoesTo, Uses, Takes, Enters, qqVars, nodeVars, historyVars
<1>1. ASSUME NEW p \in Boots, RunSingleAccount(p) PROVE (ProvisionTypeOK /\ StepInv)'
  BY <1>1 DEF RunSingleAccount
<1>2. ASSUME NEW p \in Boots, GivesUp(p) PROVE (ProvisionTypeOK /\ StepInv)'
  BY <1>2 DEF GivesUp
<1>3. ASSUME NEW p \in Boots, ResolveQqInstall(p) PROVE (ProvisionTypeOK /\ StepInv)'
  BY <1>3 DEF ResolveQqInstall
<1>4. ASSUME NEW p \in Boots, TryResolveCached(p) PROVE (ProvisionTypeOK /\ StepInv)'
  <2>1. uses' \in [Boots -> SUBSET Stores]
    BY <1>4 DEF TryResolveCached
  <2>2. shared' \subseteq Stores
    BY <1>4 DEF TryResolveCached
  <2>3. ProvisionTypeOK'
    BY <1>4, <2>1, <2>2 DEF TryResolveCached
  <2>4. StepInv'
    BY <1>4 DEF TryResolveCached
  <2> QED
    BY <2>3, <2>4
<1>5. ASSUME NEW p \in Boots, DownloadFile(p) PROVE (ProvisionTypeOK /\ StepInv)'
  BY <1>5 DEF DownloadFile
<1>6. ASSUME NEW p \in Boots, ExtractInstaller(p) PROVE (ProvisionTypeOK /\ StepInv)'
  BY <1>6 DEF ExtractInstaller
<1>7. ASSUME NEW p \in Boots, ExtractWrapperFiles(p) PROVE (ProvisionTypeOK /\ StepInv)'
  <2>1. uses' \in [Boots -> SUBSET Stores]
    BY <1>7 DEF ExtractWrapperFiles
  <2>2. shared' \subseteq Stores
    BY <1>7 DEF ExtractWrapperFiles
  <2>3. /\ bootAt' \in [Boots -> {"off", "running"} \cup Preparing]
        /\ toCopy' \in [Boots -> SUBSET QqFiles] /\ cacheDir' \in BOOLEAN
    <3>1. \/ UNCHANGED <<cacheDir, toCopy>>
          \/ cacheDir' = TRUE /\ toCopy' = [toCopy EXCEPT ![p] = QqFiles]
      BY <1>7 DEF ExtractWrapperFiles
    <3>2. \E step \in Preparing : bootAt' = [bootAt EXCEPT ![p] = step]
      BY <1>7 DEF ExtractWrapperFiles
    <3>3. toCopy' \in [Boots -> SUBSET QqFiles]
      <4>1. QqFiles \in SUBSET QqFiles /\ toCopy \in [Boots -> SUBSET QqFiles]
        OBVIOUS
      <4> HIDE DEF ProvisionInv
      <4> QED
        BY <3>1, <4>1
    <3>4. cacheDir' \in BOOLEAN
      BY <3>1
    <3>5. bootAt' \in [Boots -> {"off", "running"} \cup Preparing]
      BY <3>2
    <3> QED
      BY <3>3, <3>4, <3>5
  <2>4. ProvisionTypeOK'
    BY <1>7, <2>1, <2>2, <2>3 DEF ExtractWrapperFiles
  <2>5. StepInv'
    BY <1>7 DEF ExtractWrapperFiles
  <2> QED
    BY <2>4, <2>5
<1>8. ASSUME NEW p \in Boots, CopyFails(p) PROVE (ProvisionTypeOK /\ StepInv)'
  BY <1>8 DEF CopyFails
<1>9. ASSUME NEW p \in Boots, AllCopied(p) PROVE (ProvisionTypeOK /\ StepInv)'
  <2>1. uses' \in [Boots -> SUBSET Stores]
    BY <1>9 DEF AllCopied
  <2>2. shared' \subseteq Stores
    BY <1>9 DEF AllCopied
  <2>3. ProvisionTypeOK'
    BY <1>9, <2>1, <2>2 DEF AllCopied
  <2>4. StepInv'
    BY <1>9 DEF AllCopied
  <2> QED
    BY <2>3, <2>4
<1>10. ASSUME NEW p \in Boots, ClearCacheVersion(p) PROVE (ProvisionTypeOK /\ StepInv)'
  BY <1>10 DEF ClearCacheVersion
<1>11. ASSUME NEW p \in Boots, EnsureInstanceLockFree(p) PROVE (ProvisionTypeOK /\ StepInv)'
  BY <1>11 DEF EnsureInstanceLockFree
<1>12. ASSUME NEW p \in Boots, ResolveWinHostNode(p) PROVE (ProvisionTypeOK /\ StepInv)'
  BY <1>12 DEF ResolveWinHostNode
<1>13. ASSUME NEW p \in Boots, EnsureWinNode(p) PROVE (ProvisionTypeOK /\ StepInv)'
  <2>1. uses' \in [Boots -> SUBSET Stores]
    BY <1>13 DEF EnsureWinNode
  <2>2. shared' \subseteq Stores
    BY <1>13 DEF EnsureWinNode
  <2>3. ProvisionTypeOK'
    BY <1>13, <2>1, <2>2 DEF EnsureWinNode
  <2>4. StepInv'
    BY <1>13 DEF EnsureWinNode
  <2> QED
    BY <2>3, <2>4
<1>14. ASSUME NEW p \in Boots, NodeFetched(p) PROVE (ProvisionTypeOK /\ StepInv)'
  BY <1>14 DEF NodeFetched
<1>15. ASSUME NEW p \in Boots, UnzipNode(p) PROVE (ProvisionTypeOK /\ StepInv)'
  BY <1>15 DEF UnzipNode
<1>16. ASSUME NEW p \in Boots, PickNode(p) PROVE (ProvisionTypeOK /\ StepInv)'
  BY <1>16 DEF PickNode
<1>17. ASSUME NEW p \in Boots, NodePicked(p) PROVE (ProvisionTypeOK /\ StepInv)'
  BY <1>17 DEF NodePicked
<1>18. ASSUME NEW p \in Boots, NodeFails(p) PROVE (ProvisionTypeOK /\ StepInv)'
  BY <1>18 DEF NodeFails
<1>19. ASSUME NEW p \in Boots, LaunchSelfHost(p) PROVE (ProvisionTypeOK /\ StepInv)'
  BY <1>19 DEF LaunchSelfHost
<1>20. ASSUME NEW p \in Boots, SelfHostExits(p) PROVE (ProvisionTypeOK /\ StepInv)'
  BY <1>20 DEF SelfHostExits
<1>21. ASSUME NEW p \in Boots, BootDies(p) PROVE (ProvisionTypeOK /\ StepInv)'
  BY <1>21 DEF BootDies
<1>22. ASSUME NEW p \in Boots, NEW f \in QqFiles, CopyFile(p, f) PROVE (ProvisionTypeOK /\ StepInv)'
  BY <1>22 DEF CopyFile
<1>23. ASSUME NEW p \in Boots, NEW f \in QqFiles, Copied(p, f) PROVE (ProvisionTypeOK /\ StepInv)'
  BY <1>23 DEF Copied
<1>24. CASE UNCHANGED provisionVars
  BY <1>24 DEF provisionVars
<1> QED
  BY <1>1, <1>2, <1>3, <1>4, <1>5, <1>6, <1>7, <1>8, <1>9, <1>10, <1>11,
     <1>12, <1>13, <1>14, <1>15, <1>16, <1>17, <1>18, <1>19, <1>20, <1>21, <1>22,
     <1>23, <1>24 DEF ProvisionNext

LEMMA CacheKept ==
    ASSUME ProvisionInv, [ProvisionNext]_provisionVars
    PROVE  StoreInv'
<1> USE ProvisionAssumption
    DEF ProvisionInv, ProvisionTypeOK, StepInv, StoreInv, Sound, Writes, Relies, InCache,
        AllWhole, Preparing, Stores, Searching, GoesTo, Uses, Takes, Enters, qqVars,
        nodeVars, historyVars
<1>1. ASSUME NEW p \in Boots, RunSingleAccount(p) PROVE StoreInv'
  BY <1>1 DEF RunSingleAccount
<1>2. ASSUME NEW p \in Boots, GivesUp(p) PROVE StoreInv'
  BY <1>2 DEF GivesUp
<1>3. ASSUME NEW p \in Boots, ResolveQqInstall(p) PROVE StoreInv'
  BY <1>3 DEF ResolveQqInstall
<1>4. ASSUME NEW p \in Boots, TryResolveCached(p) PROVE StoreInv'
  BY <1>4 DEF TryResolveCached
<1>5. ASSUME NEW p \in Boots, DownloadFile(p) PROVE StoreInv'
  BY <1>5 DEF DownloadFile
<1>6. ASSUME NEW p \in Boots, ExtractInstaller(p) PROVE StoreInv'
  BY <1>6 DEF ExtractInstaller
<1>7. ASSUME NEW p \in Boots, ExtractWrapperFiles(p) PROVE StoreInv'
  BY <1>7 DEF ExtractWrapperFiles
<1>8. ASSUME NEW p \in Boots, CopyFails(p) PROVE StoreInv'
  BY <1>8 DEF CopyFails
<1>9. ASSUME NEW p \in Boots, AllCopied(p) PROVE StoreInv'
  BY <1>9 DEF AllCopied
<1>10. ASSUME NEW p \in Boots, ClearCacheVersion(p) PROVE StoreInv'
  BY <1>10 DEF ClearCacheVersion
<1>11. ASSUME NEW p \in Boots, EnsureInstanceLockFree(p) PROVE StoreInv'
  BY <1>11 DEF EnsureInstanceLockFree
<1>12. ASSUME NEW p \in Boots, ResolveWinHostNode(p) PROVE StoreInv'
  BY <1>12 DEF ResolveWinHostNode
<1>13. ASSUME NEW p \in Boots, EnsureWinNode(p) PROVE StoreInv'
  BY <1>13 DEF EnsureWinNode
<1>14. ASSUME NEW p \in Boots, NodeFetched(p) PROVE StoreInv'
  BY <1>14 DEF NodeFetched
<1>15. ASSUME NEW p \in Boots, UnzipNode(p) PROVE StoreInv'
  BY <1>15 DEF UnzipNode
<1>16. ASSUME NEW p \in Boots, PickNode(p) PROVE StoreInv'
  BY <1>16 DEF PickNode
<1>17. ASSUME NEW p \in Boots, NodePicked(p) PROVE StoreInv'
  BY <1>17 DEF NodePicked
<1>18. ASSUME NEW p \in Boots, NodeFails(p) PROVE StoreInv'
  BY <1>18 DEF NodeFails
<1>19. ASSUME NEW p \in Boots, LaunchSelfHost(p) PROVE StoreInv'
  BY <1>19 DEF LaunchSelfHost
<1>20. ASSUME NEW p \in Boots, SelfHostExits(p) PROVE StoreInv'
  BY <1>20 DEF SelfHostExits
<1>21. ASSUME NEW p \in Boots, BootDies(p) PROVE StoreInv'
  BY <1>21 DEF BootDies, LooksDone, Complete
<1>22. ASSUME NEW p \in Boots, NEW f \in QqFiles, CopyFile(p, f) PROVE StoreInv'
  BY <1>22 DEF CopyFile
<1>23. ASSUME NEW p \in Boots, NEW f \in QqFiles, Copied(p, f) PROVE StoreInv'
  BY <1>23 DEF Copied
<1>24. CASE UNCHANGED provisionVars
  BY <1>24 DEF provisionVars
<1> QED
  BY <1>1, <1>2, <1>3, <1>4, <1>5, <1>6, <1>7, <1>8, <1>9, <1>10, <1>11,
     <1>12, <1>13, <1>14, <1>15, <1>16, <1>17, <1>18, <1>19, <1>20, <1>21, <1>22,
     <1>23, <1>24 DEF ProvisionNext

LEMMA NodeKept ==
    ASSUME ProvisionInv, [ProvisionNext]_provisionVars
    PROVE  NodeInv'
<1> USE DEF ProvisionInv, ProvisionTypeOK, StepInv, NodeInv, Sound, Writes, Relies,
        Preparing, Stores, FileStates, Searching, GoesTo, Uses, Takes, Enters, qqVars,
        nodeVars, historyVars
<1>1. ASSUME NEW p \in Boots, RunSingleAccount(p) PROVE NodeInv'
  BY <1>1 DEF RunSingleAccount
<1>2. ASSUME NEW p \in Boots, GivesUp(p) PROVE NodeInv'
  BY <1>2 DEF GivesUp
<1>3. ASSUME NEW p \in Boots, ResolveQqInstall(p) PROVE NodeInv'
  BY <1>3 DEF ResolveQqInstall
<1>4. ASSUME NEW p \in Boots, TryResolveCached(p) PROVE NodeInv'
  BY <1>4 DEF TryResolveCached
<1>5. ASSUME NEW p \in Boots, DownloadFile(p) PROVE NodeInv'
  BY <1>5 DEF DownloadFile
<1>6. ASSUME NEW p \in Boots, ExtractInstaller(p) PROVE NodeInv'
  BY <1>6 DEF ExtractInstaller
<1>7. ASSUME NEW p \in Boots, ExtractWrapperFiles(p) PROVE NodeInv'
  BY <1>7 DEF ExtractWrapperFiles
<1>8. ASSUME NEW p \in Boots, CopyFails(p) PROVE NodeInv'
  BY <1>8 DEF CopyFails
<1>9. ASSUME NEW p \in Boots, AllCopied(p) PROVE NodeInv'
  BY <1>9 DEF AllCopied
<1>10. ASSUME NEW p \in Boots, ClearCacheVersion(p) PROVE NodeInv'
  BY <1>10 DEF ClearCacheVersion
<1>11. ASSUME NEW p \in Boots, EnsureInstanceLockFree(p) PROVE NodeInv'
  BY <1>11 DEF EnsureInstanceLockFree
<1>12. ASSUME NEW p \in Boots, ResolveWinHostNode(p) PROVE NodeInv'
  BY <1>12 DEF ResolveWinHostNode
<1>13. ASSUME NEW p \in Boots, EnsureWinNode(p) PROVE NodeInv'
  BY <1>13 DEF EnsureWinNode
<1>14. ASSUME NEW p \in Boots, NodeFetched(p) PROVE NodeInv'
  BY <1>14 DEF NodeFetched
<1>15. ASSUME NEW p \in Boots, UnzipNode(p) PROVE NodeInv'
  BY <1>15 DEF UnzipNode
<1>16. ASSUME NEW p \in Boots, PickNode(p) PROVE NodeInv'
  BY <1>16 DEF PickNode
<1>17. ASSUME NEW p \in Boots, NodePicked(p) PROVE NodeInv'
  BY <1>17 DEF NodePicked
<1>18. ASSUME NEW p \in Boots, NodeFails(p) PROVE NodeInv'
  BY <1>18 DEF NodeFails
<1>19. ASSUME NEW p \in Boots, LaunchSelfHost(p) PROVE NodeInv'
  BY <1>19 DEF LaunchSelfHost
<1>20. ASSUME NEW p \in Boots, SelfHostExits(p) PROVE NodeInv'
  BY <1>20 DEF SelfHostExits
<1>21. ASSUME NEW p \in Boots, BootDies(p) PROVE NodeInv'
  BY <1>21 DEF BootDies, LooksDone, Complete
<1>22. ASSUME NEW p \in Boots, NEW f \in QqFiles, CopyFile(p, f) PROVE NodeInv'
  BY <1>22 DEF CopyFile
<1>23. ASSUME NEW p \in Boots, NEW f \in QqFiles, Copied(p, f) PROVE NodeInv'
  BY <1>23 DEF Copied
<1>24. CASE UNCHANGED provisionVars
  BY <1>24 DEF provisionVars
<1> QED
  BY <1>1, <1>2, <1>3, <1>4, <1>5, <1>6, <1>7, <1>8, <1>9, <1>10, <1>11,
     <1>12, <1>13, <1>14, <1>15, <1>16, <1>17, <1>18, <1>19, <1>20, <1>21, <1>22,
     <1>23, <1>24 DEF ProvisionNext

LEMMA LoadsKept ==
    ASSUME ProvisionInv, [ProvisionNext]_provisionVars
    PROVE  LoadsWhole'
<1> USE DEF ProvisionInv, ProvisionTypeOK, LoadsWhole, Spoilt, Stores, GoesTo, Uses, Takes,
        Enters, qqVars, nodeVars, historyVars
<1>1. ASSUME NEW p \in Boots, RunSingleAccount(p) PROVE LoadsWhole'
  BY <1>1 DEF RunSingleAccount
<1>2. ASSUME NEW p \in Boots, GivesUp(p) PROVE LoadsWhole'
  BY <1>2 DEF GivesUp
<1>3. ASSUME NEW p \in Boots, ResolveQqInstall(p) PROVE LoadsWhole'
  BY <1>3 DEF ResolveQqInstall
<1>4. ASSUME NEW p \in Boots, TryResolveCached(p) PROVE LoadsWhole'
  BY <1>4 DEF TryResolveCached
<1>5. ASSUME NEW p \in Boots, DownloadFile(p) PROVE LoadsWhole'
  BY <1>5 DEF DownloadFile
<1>6. ASSUME NEW p \in Boots, ExtractInstaller(p) PROVE LoadsWhole'
  BY <1>6 DEF ExtractInstaller
<1>7. ASSUME NEW p \in Boots, ExtractWrapperFiles(p) PROVE LoadsWhole'
  BY <1>7 DEF ExtractWrapperFiles
<1>8. ASSUME NEW p \in Boots, CopyFails(p) PROVE LoadsWhole'
  BY <1>8 DEF CopyFails
<1>9. ASSUME NEW p \in Boots, AllCopied(p) PROVE LoadsWhole'
  BY <1>9 DEF AllCopied
<1>10. ASSUME NEW p \in Boots, ClearCacheVersion(p) PROVE LoadsWhole'
  BY <1>10 DEF ClearCacheVersion
<1>11. ASSUME NEW p \in Boots, EnsureInstanceLockFree(p) PROVE LoadsWhole'
  BY <1>11 DEF EnsureInstanceLockFree
<1>12. ASSUME NEW p \in Boots, ResolveWinHostNode(p) PROVE LoadsWhole'
  BY <1>12 DEF ResolveWinHostNode
<1>13. ASSUME NEW p \in Boots, EnsureWinNode(p) PROVE LoadsWhole'
  BY <1>13 DEF EnsureWinNode
<1>14. ASSUME NEW p \in Boots, NodeFetched(p) PROVE LoadsWhole'
  BY <1>14 DEF NodeFetched
<1>15. ASSUME NEW p \in Boots, UnzipNode(p) PROVE LoadsWhole'
  BY <1>15 DEF UnzipNode
<1>16. ASSUME NEW p \in Boots, PickNode(p) PROVE LoadsWhole'
  BY <1>16 DEF PickNode
<1>17. ASSUME NEW p \in Boots, NodePicked(p) PROVE LoadsWhole'
  BY <1>17 DEF NodePicked
<1>18. ASSUME NEW p \in Boots, NodeFails(p) PROVE LoadsWhole'
  BY <1>18 DEF NodeFails
<1>19. ASSUME NEW p \in Boots, LaunchSelfHost(p) PROVE LoadsWhole'
  BY <1>19 DEF LaunchSelfHost, Complete, StoreInv, NodeInv, Sound, Relies, AllWhole
<1>20. ASSUME NEW p \in Boots, SelfHostExits(p) PROVE LoadsWhole'
  BY <1>20 DEF SelfHostExits
<1>21. ASSUME NEW p \in Boots, BootDies(p) PROVE LoadsWhole'
  BY <1>21 DEF BootDies
<1>22. ASSUME NEW p \in Boots, NEW f \in QqFiles, CopyFile(p, f) PROVE LoadsWhole'
  BY <1>22 DEF CopyFile
<1>23. ASSUME NEW p \in Boots, NEW f \in QqFiles, Copied(p, f) PROVE LoadsWhole'
  BY <1>23 DEF Copied
<1>24. CASE UNCHANGED provisionVars
  BY <1>24 DEF provisionVars
<1> QED
  BY <1>1, <1>2, <1>3, <1>4, <1>5, <1>6, <1>7, <1>8, <1>9, <1>10, <1>11,
     <1>12, <1>13, <1>14, <1>15, <1>16, <1>17, <1>18, <1>19, <1>20, <1>21, <1>22,
     <1>23, <1>24 DEF ProvisionNext

LEMMA ProvisionInvariance ==
    ASSUME ProvisionInv, [ProvisionNext]_provisionVars
    PROVE  ProvisionInv'
BY StepsKept, CacheKept, NodeKept, LoadsKept DEF ProvisionInv

\* A self-host is spawned over part of its files only if the cache or node.exe it
\* takes was shared or left in part.
THEOREM LaunchedWhole == ProvisionSpec => []LoadsWhole
<1>1. ProvisionInv /\ [ProvisionNext]_provisionVars => ProvisionInv'
  BY ProvisionInvariance
<1>2. ProvisionInv => LoadsWhole
  BY DEF ProvisionInv
<1> QED
  BY <1>1, <1>2, ProvisionInitially, PTL DEF ProvisionSpec

-----------------------------------------------------------------------------
(***************************************************************************)
(* Where launches do not overlap and a live process's command line can be  *)
(* read, the data directory has one user.                                  *)
(***************************************************************************)

USE DEF Holding, Starting

\* The assumption on the surroundings under which the lock excludes.
CalmSurroundings == OneAtATime /\ ProbeReliable

LEMMA LockInitially == Init => IInv
  BY LockAssumption
  DEF Init, IInv, TypeOK, Exclusive, LockNamesHolder, VerdictStands, OnlyHoldersNamed,
      NoPidReusedAlive, Phases, Contents

\* One step keeps the strengthened invariant.
LEMMA LockInvariance == CalmSurroundings /\ IInv /\ [Next]_lockVars => IInv'
<1> SUFFICES ASSUME CalmSurroundings, IInv, [Next]_lockVars
             PROVE  IInv'
  OBVIOUS
<1> USE LockAssumption
    DEF CalmSurroundings, IInv, TypeOK, Exclusive, LockNamesHolder, VerdictStands,
        OnlyHoldersNamed, NoPidReusedAlive, Phases, Contents, Goto
<1>1. ASSUME NEW p \in Procs, Launch(p) PROVE IInv'
  BY <1>1 DEF Launch
<1>2. ASSUME NEW p \in Procs, ReadLock(p) PROVE IInv'
  BY <1>2 DEF ReadLock
<1>3. ASSUME NEW p \in Procs, Probe(p) PROVE IInv'
  <2>1. /\ phase[p] = "probe"
        /\ read[p] \in Procs
        /\ UNCHANGED <<file, writers, read, reused>>
    BY <1>3 DEF Probe
  <2>2. CASE ~Occupied(read[p]) /\ Goto(p, "clear")
    <3>1. file # p /\ \A q \in Procs : phase[q] \notin Holding
      BY <2>1, <2>2 DEF Occupied, Alive
    <3> QED
      BY <2>1, <2>2, <3>1
  <2>3. CASE Occupied(read[p]) /\ read[p] = p /\ Goto(p, "running")
    <3>1. \A q \in Procs : phase[q] \notin Holding
      BY <2>1, <2>3
    <3>2. file = p
      BY <2>1, <2>3 DEF Occupied, Alive
    <3> QED
      BY <2>1, <2>3, <3>1, <3>2
  <2>4. CASE Occupied(read[p]) /\ read[p] # p /\ Goto(p, "refused")
    BY <2>1, <2>4
  <2> QED
    BY <1>3, <2>1, <2>2, <2>3, <2>4 DEF Probe
<1>4. ASSUME NEW p \in Procs, RemoveOld(p) PROVE IInv'
  BY <1>4 DEF RemoveOld
<1>5. ASSUME NEW p \in Procs, Create(p) PROVE IInv'
  BY <1>5 DEF Create
<1>6. ASSUME NEW p \in Procs, Write(p) PROVE IInv'
  BY <1>6 DEF Write
<1>7. ASSUME NEW p \in Procs, AcquireFails(p) PROVE IInv'
  BY <1>7 DEF AcquireFails
<1>8. ASSUME NEW p \in Procs, RefusedExit(p) PROVE IInv'
  BY <1>8 DEF RefusedExit
<1>9. ASSUME NEW p \in Procs, ExitReads(p) PROVE IInv'
  BY <1>9 DEF ExitReads
<1>10. ASSUME NEW p \in Procs, ExitRemoves(p) PROVE IInv'
  BY <1>10 DEF ExitRemoves
<1>11. ASSUME NEW p \in Procs, Crash(p) PROVE IInv'
  BY <1>11 DEF Crash
<1>12. ASSUME NEW p \in Procs, PidReused(p) \/ PidFreed(p) PROVE IInv'
  BY <1>12 DEF PidReused, PidFreed
<1>13. CASE UNCHANGED lockVars
  BY <1>13 DEF lockVars
<1> QED
  BY <1>1, <1>2, <1>3, <1>4, <1>5, <1>6, <1>7, <1>8, <1>9, <1>10, <1>11, <1>12, <1>13
  DEF Next

\* The data directory of an account never has two users.
THEOREM MutualExclusion ==
  ASSUME CalmSurroundings
  PROVE  Spec => []Exclusive
<1>1. IInv /\ [Next]_lockVars => IInv'
  BY LockInvariance
<1>2. IInv => Exclusive
  BY DEF IInv
<1> QED
  BY <1>1, <1>2, LockInitially, PTL DEF Spec

\* Whoever works in the data directory is named by the lock file.
THEOREM HolderIsNamed ==
  ASSUME CalmSurroundings
  PROVE  Spec => []LockNamesHolder
<1>1. IInv /\ [Next]_lockVars => IInv'
  BY LockInvariance
<1>2. IInv => LockNamesHolder
  BY DEF IInv
<1> QED
  BY <1>1, <1>2, LockInitially, PTL DEF Spec

\* Leftovers of dead processes never turn a new one away.
THEOREM RefusalHasCause ==
  ASSUME CalmSurroundings, ProbeSupported
  PROVE  Spec => RefusedForCause
<1> DEFINE Refusal ==
      \A p \in Procs :
          phase[p] = "probe" /\ phase'[p] = "refused"
              => \E q \in Procs \ {p} : phase[q] \in Holding
<1>1. IInv /\ [Next]_lockVars => IInv'
  BY LockInvariance
<1>2. IInv /\ [Next]_lockVars => [Refusal]_lockVars
  <2> SUFFICES ASSUME IInv, Next,
                      NEW p \in Procs, phase[p] = "probe", phase'[p] = "refused"
               PROVE  \E q \in Procs \ {p} : phase[q] \in Holding
    OBVIOUS
  <2>1. Probe(p)
    BY DEF IInv, TypeOK, Phases, Next, Goto, Launch, ReadLock, Probe, RemoveOld, Create, Write,
           AcquireFails, RefusedExit, ExitReads, ExitRemoves, Crash, PidReused, PidFreed
  <2>2. Occupied(read[p]) /\ read[p] # p
    BY <2>1 DEF Probe, Goto, IInv, TypeOK
  <2>3. read[p] \in Procs
    BY LockAssumption, <2>1, <2>2 
    DEF IInv, TypeOK, OnlyHoldersNamed, Contents
  <2> QED
    BY <2>2, <2>3 DEF Occupied, Alive, IInv, TypeOK, Phases, VerdictStands, OnlyHoldersNamed
<1> QED
  BY <1>1, <1>2, LockInitially, PTL DEF Spec, RefusedForCause
=============================================================================
