------------------------------ MODULE Provision ------------------------------
(***************************************************************************)
(* Where a boot process gets the native files of QQ and a node.exe from    *)
(* before it launches a self-host (packages/loader/src: locate-qq.ts,      *)
(* qq-download.ts, qq-extract.ts, win-node.ts, launcher.ts; apps/cli/src/  *)
(* runtime/boot.ts). The boot processes of several accounts share one data *)
(* root, and so the cache they fill; the temporary files of a process have *)
(* names of its own, those of node.exe do not. A file that is being copied *)
(* exists already, and a process may be killed at any step, so that what   *)
(* is in the cache may be another's unfinished work, or a dead one's.      *)
(***************************************************************************)
EXTENDS Naturals

CONSTANTS
    Boots,        \* boot processes, one for each account
    QqFiles,      \* the *.node and *.dll files of resources/app
    Wrapper,      \* wrapper.node
    MaxBoots      \* bound on the starts of boot processes

ASSUME ProvisionAssumption == Wrapper \in QqFiles /\ MaxBoots \in Nat

VARIABLES
    bootAt,     \* what each process does
    boots,      \* starts so far
    cacheDir,   \* the version's directory in qq-files exists
    cached,     \* the files in it
    toCopy,     \* files a process has yet to copy
    copying,    \* files a process is copying: none or one
    nodeZip,    \* the zip of node, under one name for all
    zipWriters, \* processes that download it
    nodeDir,    \* it is unpacked, in one directory for all
    nodeExe,    \* node.exe in the cache
    uses,       \* what a process takes from the data root
    launched,   \* what its self-host found when it was spawned
    shared,     \* what a process took or wrote while another was at it
    leftover    \* what a killed process has left in part, but to be taken

qqVars == <<cacheDir, cached, toCopy, copying>>
nodeVars == <<nodeZip, zipWriters, nodeDir, nodeExe>>
historyVars == <<shared, leftover>>
provisionVars == <<bootAt, boots, qqVars, nodeVars, uses, launched, historyVars>>

FileStates == {"none", "torn", "whole"}
Stores == {"cache", "node"}
Preparing ==
    {"locate", "download", "unpack", "extract", "clear", "lock", "node", "fetch",
     "unzip", "pick", "spawn", "copy", "picking"}

ProvisionTypeOK ==
    /\ bootAt \in [Boots -> {"off", "running"} \cup Preparing]
    /\ boots \in 0 .. MaxBoots
    /\ cacheDir \in BOOLEAN /\ nodeDir \in BOOLEAN
    /\ cached \in [QqFiles -> FileStates]
    /\ toCopy \in [Boots -> SUBSET QqFiles] /\ copying \in [Boots -> SUBSET QqFiles]
    /\ nodeZip \in FileStates /\ nodeExe \in FileStates
    /\ zipWriters \subseteq Boots
    /\ uses \in [Boots -> SUBSET Stores]
    /\ launched \in [Boots -> {"nothing", "part", "all"}]
    /\ shared \subseteq Stores /\ leftover \subseteq Stores

ProvisionInit ==
    /\ bootAt = [p \in Boots |-> "off"] /\ boots = 0
    /\ cacheDir = FALSE /\ cached = [f \in QqFiles |-> "none"]
    /\ toCopy = [p \in Boots |-> {}] /\ copying = [p \in Boots |-> {}]
    /\ nodeZip = "none" /\ zipWriters = {} /\ nodeDir = FALSE /\ nodeExe = "none"
    /\ uses = [p \in Boots |-> {}] /\ launched = [p \in Boots |-> "nothing"]
    /\ shared = {} /\ leftover = {}

GoesTo(p, step) == bootAt' = [bootAt EXCEPT ![p] = step]
Uses(p, what) == uses' = [uses EXCEPT ![p] = @ \cup {what}]

\* Who changes a store, and who has found it complete and not yet spawned.
Writes(p, what) == bootAt[p] \in (IF what = "cache" THEN {"copy", "clear"} ELSE {"picking"})
Relies(p, what) ==
    /\ what \in uses[p]
    /\ bootAt[p] \in (IF what = "cache"
                      THEN {"lock", "node", "fetch", "unzip", "pick", "picking", "spawn"}
                      ELSE {"spawn"})

\* A process takes a store that another is writing.
Takes(p, what) ==
    /\ Uses(p, what)
    /\ shared' = shared \cup {s \in {what} : \E q \in Boots \ {p} : Writes(q, s)}

\* A process begins to write a store that another is writing or relies on.
Enters(p, what) ==
    shared' = shared \cup {s \in {what} : \E q \in Boots \ {p} : Writes(q, s) \/ Relies(q, s)}

RunSingleAccount(p) ==
    /\ bootAt[p] = "off" /\ boots < MaxBoots
    /\ GoesTo(p, "locate")
    /\ boots' = boots + 1
    /\ uses' = [uses EXCEPT ![p] = {}]
    /\ launched' = [launched EXCEPT ![p] = "nothing"]
    /\ UNCHANGED <<qqVars, nodeVars, historyVars>>

\* An explicit root or an installed QQ that has no wrapper.node, a version list
\* that cannot be read, a download that fails, is empty or has another checksum,
\* a 7z that is missing, a data directory that is in use, no wine, no stub.
GivesUp(p) ==
    /\ bootAt[p] \in {"locate", "download", "lock", "node", "spawn"}
    /\ GoesTo(p, "off")
    /\ UNCHANGED <<boots, qqVars, nodeVars, uses, launched, historyVars>>

----------------------------------------------------------------------------
(* The files of QQ.                                                        *)

\* resolveFromRoot: what is there is judged by wrapper.node alone.
InCache == cached[Wrapper] # "none"

ResolveQqInstall(p) ==
    /\ bootAt[p] = "locate"
    /\ GoesTo(p, "lock")
    /\ UNCHANGED <<boots, qqVars, nodeVars, uses, launched, historyVars>>

TryResolveCached(p) ==
    /\ bootAt[p] = "locate"
    /\ IF InCache THEN GoesTo(p, "lock") /\ Takes(p, "cache")
                  ELSE GoesTo(p, "download") /\ UNCHANGED <<uses, shared>>
    /\ UNCHANGED <<boots, qqVars, nodeVars, launched, leftover>>

DownloadFile(p) ==
    /\ bootAt[p] = "download"
    /\ GoesTo(p, "unpack")
    /\ UNCHANGED <<boots, qqVars, nodeVars, uses, launched, historyVars>>

ExtractInstaller(p) ==
    /\ bootAt[p] = "unpack"
    /\ \/ GoesTo(p, "extract") /\ UNCHANGED shared
       \/ GoesTo(p, "clear") /\ Enters(p, "cache")
    /\ UNCHANGED <<boots, qqVars, nodeVars, uses, launched, leftover>>

\* Nothing is copied when wrapper.node is there; an installer without one is an
\* error.
ExtractWrapperFiles(p) ==
    /\ bootAt[p] = "extract"
    /\ \/ GoesTo(p, "clear") /\ Enters(p, "cache") /\ UNCHANGED <<cacheDir, toCopy, uses>>
       \/ /\ InCache
          /\ GoesTo(p, "lock") /\ Takes(p, "cache")
          /\ UNCHANGED <<cacheDir, toCopy>>
       \/ /\ ~InCache
          /\ cacheDir' = TRUE
          /\ toCopy' = [toCopy EXCEPT ![p] = QqFiles]
          /\ GoesTo(p, "copy") /\ Enters(p, "cache")
          /\ UNCHANGED uses
    /\ UNCHANGED <<boots, cached, copying, nodeVars, launched, leftover>>

CopyFile(p, f) ==
    /\ bootAt[p] = "copy" /\ copying[p] = {} /\ f \in toCopy[p]
    /\ cacheDir
    /\ cached' = [cached EXCEPT ![f] = "torn"]
    /\ copying' = [copying EXCEPT ![p] = {f}]
    /\ UNCHANGED <<bootAt, boots, cacheDir, toCopy, nodeVars, uses, launched, historyVars>>

\* A file that was removed meanwhile stays removed, and one that another process
\* still copies is not whole yet.
Copied(p, f) ==
    /\ bootAt[p] = "copy" /\ copying[p] = {f}
    /\ cached' = [cached EXCEPT ![f] =
                     IF @ = "none" THEN "none"
                     ELSE IF \E q \in Boots \ {p} : f \in copying[q] THEN "torn" ELSE "whole"]
    /\ copying' = [copying EXCEPT ![p] = {}]
    /\ toCopy' = [toCopy EXCEPT ![p] = @ \ {f}]
    /\ UNCHANGED <<bootAt, boots, cacheDir, nodeVars, uses, launched, historyVars>>

\* The copy of a file that fails is removed, or its directory is gone.
CopyFails(p) ==
    /\ bootAt[p] = "copy"
    /\ copying[p] # {} \/ ~cacheDir
    /\ cached' = [f \in QqFiles |-> IF f \in copying[p] THEN "none" ELSE cached[f]]
    /\ copying' = [copying EXCEPT ![p] = {}]
    /\ GoesTo(p, "clear")
    /\ UNCHANGED <<boots, cacheDir, toCopy, nodeVars, uses, launched, historyVars>>

AllCopied(p) ==
    /\ bootAt[p] = "copy" /\ toCopy[p] = {}
    /\ IF InCache THEN GoesTo(p, "lock") /\ Uses(p, "cache")
                  ELSE GoesTo(p, "clear") /\ UNCHANGED uses
    /\ UNCHANGED <<boots, qqVars, nodeVars, launched, historyVars>>

\* Fault-seeded form of ClearCacheVersion: what was copied stays.
FaultyClearCacheVersion(p) ==
    /\ bootAt[p] = "clear"
    /\ GoesTo(p, "off")
    /\ UNCHANGED <<boots, cacheDir, cached, toCopy, copying, nodeVars, uses, launched, historyVars>>

\* The version is removed for everybody (what a kill half way leaves is among what
\* one before it leaves).
ClearCacheVersion(p) ==
    /\ bootAt[p] = "clear"
    /\ cacheDir' = FALSE
    /\ cached' = [f \in QqFiles |-> "none"]
    /\ GoesTo(p, "off")
    /\ UNCHANGED <<boots, toCopy, copying, nodeVars, uses, launched, historyVars>>

----------------------------------------------------------------------------
(* The lock's check, and node.                                             *)

EnsureInstanceLockFree(p) ==
    /\ bootAt[p] = "lock"
    /\ GoesTo(p, "node")
    /\ UNCHANGED <<boots, qqVars, nodeVars, uses, launched, historyVars>>

\* The process is node itself, or one is named or installed.
ResolveWinHostNode(p) ==
    /\ bootAt[p] = "node"
    /\ GoesTo(p, "spawn")
    /\ UNCHANGED <<boots, qqVars, nodeVars, uses, launched, historyVars>>

EnsureWinNode(p) ==
    /\ bootAt[p] = "node"
    /\ IF nodeExe # "none"
       THEN /\ GoesTo(p, "spawn") /\ Takes(p, "node")
            /\ UNCHANGED <<nodeZip, zipWriters>>
       ELSE /\ GoesTo(p, "fetch") /\ Uses(p, "node")
            /\ nodeZip' = "torn" /\ zipWriters' = zipWriters \cup {p}
            /\ UNCHANGED shared
    /\ UNCHANGED <<boots, qqVars, nodeDir, nodeExe, launched, leftover>>

\* A file that is missing by now is an error; there is no checksum.
NodeFetched(p) ==
    /\ bootAt[p] = "fetch" /\ nodeZip # "none"
    /\ zipWriters' = zipWriters \ {p}
    /\ nodeZip' = IF zipWriters' = {} THEN "whole" ELSE "torn"
    /\ GoesTo(p, "unzip")
    /\ UNCHANGED <<boots, qqVars, nodeDir, nodeExe, uses, launched, historyVars>>

UnzipNode(p) ==
    /\ bootAt[p] = "unzip" /\ nodeZip = "whole"
    /\ nodeDir' = TRUE
    /\ GoesTo(p, "pick")
    /\ UNCHANGED <<boots, qqVars, nodeZip, zipWriters, nodeExe, uses, launched, historyVars>>

PickNode(p) ==
    /\ bootAt[p] = "pick" /\ nodeDir
    /\ nodeExe' = "torn"
    /\ GoesTo(p, "picking") /\ Enters(p, "node")
    /\ UNCHANGED <<boots, qqVars, nodeZip, zipWriters, nodeDir, uses, launched, leftover>>

NodePicked(p) ==
    /\ bootAt[p] = "picking"
    /\ nodeExe' = "whole" /\ nodeDir' = FALSE /\ nodeZip' = "none"
    /\ GoesTo(p, "spawn")
    /\ UNCHANGED <<boots, qqVars, zipWriters, uses, launched, historyVars>>

\* The download, the unpacking or the copy fails; the zip is removed.
NodeFails(p) ==
    /\ bootAt[p] \in {"fetch", "unzip", "pick", "picking"}
    /\ nodeZip' = "none" /\ zipWriters' = zipWriters \ {p}
    /\ nodeExe' = IF bootAt[p] = "picking" THEN "none" ELSE nodeExe
    /\ GoesTo(p, "off")
    /\ UNCHANGED <<boots, qqVars, nodeDir, uses, launched, historyVars>>

----------------------------------------------------------------------------
Complete(what) ==
    IF what = "node" THEN nodeExe = "whole" ELSE \A f \in QqFiles : cached[f] = "whole"

LaunchSelfHost(p) ==
    /\ bootAt[p] = "spawn"
    /\ launched' = [launched EXCEPT ![p] =
                    IF \A what \in uses[p] : Complete(what) THEN "all" ELSE "part"]
    /\ GoesTo(p, "running")
    /\ UNCHANGED <<boots, qqVars, nodeVars, uses, historyVars>>

SelfHostExits(p) ==
    /\ bootAt[p] = "running"
    /\ GoesTo(p, "off")
    /\ UNCHANGED <<boots, qqVars, nodeVars, uses, launched, historyVars>>

\* Is a store taken for complete?
LooksDone(what) == IF what = "node" THEN nodeExe # "none" ELSE InCache

\* The process is killed; its files stay as they are.
BootDies(p) ==
    /\ bootAt[p] \in Preparing
    /\ GoesTo(p, "off")
    /\ toCopy' = [toCopy EXCEPT ![p] = {}] /\ copying' = [copying EXCEPT ![p] = {}]
    /\ zipWriters' = zipWriters \ {p}
    /\ leftover' = leftover \cup {s \in Stores : Writes(p, s) /\ LooksDone(s) /\ ~Complete(s)}
    /\ UNCHANGED <<boots, cacheDir, cached, nodeZip, nodeDir, nodeExe, uses, launched, shared>>

ProvisionNext ==
    \E p \in Boots :
        \/ RunSingleAccount(p) \/ GivesUp(p)
        \/ ResolveQqInstall(p) \/ TryResolveCached(p) \/ DownloadFile(p)
        \/ ExtractInstaller(p) \/ ExtractWrapperFiles(p)
        \/ \E f \in QqFiles : CopyFile(p, f) \/ Copied(p, f)
        \/ CopyFails(p) \/ AllCopied(p) \/ ClearCacheVersion(p)
        \/ EnsureInstanceLockFree(p) \/ ResolveWinHostNode(p) \/ EnsureWinNode(p)
        \/ NodeFetched(p) \/ UnzipNode(p) \/ PickNode(p) \/ NodePicked(p) \/ NodeFails(p)
        \/ LaunchSelfHost(p) \/ SelfHostExits(p) \/ BootDies(p)

ProvisionSpec == ProvisionInit /\ [][ProvisionNext]_provisionVars

----------------------------------------------------------------------------
\* A self-host is spawned over part of its files only if the cache or node.exe it
\* takes was taken or written by two processes at once, or is what a killed one left.
\* A copy that fails, a start that gives up at any step, and one that is killed
\* before wrapper.node or node.exe is there, do no harm to a later start
\* (ensureQqFiles: only a complete version is returned).
Spoilt(p, how) == launched[p] = "part" => uses[p] \cap how # {}
LoadsWhole == \A p \in Boots : Spoilt(p, shared \cup leftover)

\* Starts at the same time do not take each other's unfinished files.
StartsTogether == \A p \in Boots : Spoilt(p, leftover)
=============================================================================
