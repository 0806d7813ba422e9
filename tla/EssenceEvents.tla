--------------------------- MODULE EssenceEvents ---------------------------
(***************************************************************************)
(* How the OneBot 11 and the Milky adapter turn changes of the essence     *)
(* list of a group into group_essence events (packages/adapter/src:        *)
(* onebot11/adapter.ts, milky/adapter.ts, core/shared/essence.ts,          *)
(* milky/helper/state/recent-keys.ts; packages/kernel/src/apis/webapi.ts). *)
(*                                                                         *)
(* The server pushes a system message 732:1 when a message enters the list *)
(* and a callback with only the group's number at every change. Who was    *)
(* added or removed is found by fetching the list and comparing it with    *)
(* the last one; syncs of one adapter run one after the other (its promise *)
(* chain). Milky broadcasts the push at once and keeps keys of what it     *)
(* broadcast for five minutes; OneBot 11 looks up the id of each message   *)
(* among the last 60 of the group, and skips the event when it is not      *)
(* there. The two adapters share nothing: a behaviour is about one.        *)
(***************************************************************************)
EXTENDS Naturals, Sequences, FiniteSets, SequencesExt

CONSTANTS
    Posts,          \* messages of the group
    MaxListChanges, \* bound on the changes of the list
    MaxMisread,     \* bound on the fetches that answer with another list
    MaxFailed       \* bound on the fetches that raise an error

ASSUME EssenceAssumption ==
    IsFiniteSet(Posts) /\ MaxListChanges \in Nat /\ MaxMisread \in Nat /\ MaxFailed \in Nat

Directions == {"set", "unset"}

VARIABLES
    who,        \* the adapter: "onebot11" or "milky"
    digest,     \* the server: the messages on the list
    happened,   \* how often each message was set and unset there
    notices,    \* pushes and callbacks under way to the adapter
    waiting,    \* syncs waiting on essenceChain
    fetches,    \* fetches under way: the list when it was asked for, then the answer
    known,      \* essenceCaches.get(group)
    baseline,   \* it has one
    todo,       \* events a sync has still to look up and broadcast (OneBot 11)
    claimed,    \* keys of essenceKeys that have not expired (Milky)
    sent,       \* how often each event was broadcast
    skipped,    \* messages an event of which was skipped
    misread,    \* fetches that answered with another list than the server's
    failed      \* fetches that raised an error

listVars == <<digest, happened>>
outVars == <<claimed, sent, skipped>>
faultVars == <<misread, failed>>
syncVars == <<waiting, fetches, known, baseline, todo>>
essenceVars == <<who, listVars, notices, syncVars, outVars, faultVars>>

Events == [post : Posts, to : Directions]
Event(p, d) == [post |-> p, to |-> d]

EssenceTypeOK ==
    /\ who \in {"onebot11", "milky"}
    /\ digest \subseteq Posts
    /\ happened \in [Events -> Nat]
    /\ notices \in Seq([kind : {"push", "list"}, post : Posts])
    /\ waiting \in Nat
    /\ fetches \in Seq([answer : {"none", "whole", "short", "error"}, items : SUBSET Posts])
    /\ known \subseteq Posts
    /\ baseline \in BOOLEAN
    /\ todo \in Seq(Events)
    /\ claimed \subseteq Events
    /\ sent \in [Events -> Nat]
    /\ skipped \subseteq Posts
    /\ misread \in 0 .. MaxMisread
    /\ failed \in 0 .. MaxFailed

EssenceInit ==
    /\ who \in {"onebot11", "milky"}
    /\ digest \in SUBSET Posts
    /\ happened = [e \in Events |-> 0]
    /\ notices = <<>>
    /\ waiting = 0
    /\ fetches = <<>>
    /\ known = {}
    /\ baseline = FALSE
    /\ todo = <<>>
    /\ claimed = {}
    /\ sent = [e \in Events |-> 0]
    /\ skipped = {}
    /\ misread = 0
    /\ failed = 0

(***************************************************************************)
(* The server.                                                             *)
(***************************************************************************)
Changes == FoldFunction(+, 0, happened)

ListChanges(p) ==
    LET d == IF p \in digest THEN "unset" ELSE "set" IN
    /\ Changes < MaxListChanges
    /\ digest' = IF d = "set" THEN digest \cup {p} ELSE digest \ {p}
    /\ happened' = [happened EXCEPT ![Event(p, d)] = @ + 1]
    /\ notices' = notices \o (IF d = "set" THEN <<[kind |-> "push", post |-> p]>> ELSE <<>>)
                          \o <<[kind |-> "list", post |-> p]>>
    /\ UNCHANGED <<who, syncVars, outVars, faultVars>>

\* getEssenceMsgList asks for one page after the other. A request that fails raises an
\* error; a page that is refused (HTTP status, retcode) ends the list where it is, and
\* a list that changes while it is read may lose what moves across a page.
FetchAnswered(i) ==
    /\ fetches[i].answer = "none"
    /\ \/ /\ fetches' = [fetches EXCEPT ![i] = [answer |-> "whole", items |-> digest]]
          /\ UNCHANGED faultVars
       \/ /\ failed < MaxFailed
          /\ failed' = failed + 1
          /\ fetches' = [fetches EXCEPT ![i].answer = "error"]
          /\ UNCHANGED misread
       \/ /\ misread < MaxMisread
          /\ misread' = misread + 1
          /\ \E items \in SUBSET (fetches[i].items \cup digest) :
                 fetches' = [fetches EXCEPT ![i] = [answer |-> "short", items |-> items]]
          /\ UNCHANGED failed
    /\ UNCHANGED <<who, listVars, notices, waiting, known, baseline, todo, outVars>>

(***************************************************************************)
(* Broadcasting.                                                           *)
(***************************************************************************)
\* RecentKeyCache.claim: an event whose key is kept is not broadcast again.
Broadcast(events) ==
    /\ sent' = [e \in Events |-> sent[e] + IF e \in events \ claimed THEN 1 ELSE 0]
    /\ claimed' = claimed \cup (IF who = "milky" THEN events ELSE {})

Busy == fetches # <<>> \/ waiting > 0 \/ todo # <<>>

\* A key is kept for five minutes; a change is assumed to be through by then.
KeyExpires(e) ==
    /\ e \in claimed /\ notices = <<>> /\ ~Busy
    /\ claimed' = claimed \ {e}
    /\ UNCHANGED <<who, listVars, notices, syncVars, sent, skipped, faultVars>>

(***************************************************************************)
(* The handlers.                                                           *)
(***************************************************************************)
EnqueueEssenceSync == waiting' = waiting + 1

\* handleSysMsgBlob and triggerEssenceSync
OnPush ==
    /\ notices # <<>> /\ Head(notices).kind = "push"
    /\ notices' = Tail(notices)
    /\ IF who = "milky"
       THEN /\ Broadcast({Event(Head(notices).post, "set")})
            /\ UNCHANGED waiting
       ELSE /\ EnqueueEssenceSync
            /\ UNCHANGED <<sent, claimed>>
    /\ UNCHANGED <<who, listVars, fetches, known, baseline, todo, skipped, faultVars>>

HandleEssenceChange ==
    /\ notices # <<>> /\ Head(notices).kind = "list"
    /\ notices' = Tail(notices)
    /\ EnqueueEssenceSync
    /\ UNCHANGED <<who, listVars, fetches, known, baseline, todo, outVars, faultVars>>

\* Fault-seeded form of ChainFree: each trigger fetches at once.
FaultyChainFree == TRUE

\* essenceChain.then: the one before is over, its broadcasts included.
ChainFree == fetches = <<>> /\ todo = <<>>

StartSync ==
    /\ waiting > 0 /\ ChainFree
    /\ waiting' = waiting - 1
    /\ fetches' = Append(fetches, [answer |-> "none", items |-> digest])
    /\ UNCHANGED <<who, listVars, notices, known, baseline, todo, outVars, faultVars>>

\* Without a baseline nothing is new.
DiffEssenceList(items) ==
    IF ~baseline THEN {}
    ELSE {Event(p, "set") : p \in items \ known} \cup {Event(p, "unset") : p \in known \ items}

\* syncEssenceList after its fetch
SyncEssenceList(i) ==
    LET f == fetches[i]
        diff == DiffEssenceList(f.items)
    IN
    /\ f.answer # "none"
    /\ fetches' = RemoveAt(fetches, i)
    /\ IF f.answer = "error"
       THEN UNCHANGED <<known, baseline, todo, sent, claimed>>
       ELSE /\ known' = f.items
            /\ baseline' = TRUE
            /\ IF who = "milky"
               THEN Broadcast(diff) /\ UNCHANGED todo
               ELSE /\ todo' = todo \o SetToSeq(diff)
                    /\ UNCHANGED <<sent, claimed>>
    /\ UNCHANGED <<who, listVars, notices, waiting, skipped, faultVars>>

\* broadcastEssenceAdded and broadcastEssenceRemoved: one event is looked up
BroadcastNext ==
    /\ todo # <<>>
    /\ todo' = Tail(todo)
    /\ \/ Broadcast({Head(todo)}) /\ UNCHANGED skipped
       \/ skipped' = skipped \cup {Head(todo).post} /\ UNCHANGED <<sent, claimed>>
    /\ UNCHANGED <<who, listVars, notices, waiting, fetches, known, baseline, faultVars>>

EssenceNext ==
    \/ \E p \in Posts : ListChanges(p)
    \/ \E i \in DOMAIN fetches : FetchAnswered(i) \/ SyncEssenceList(i)
    \/ \E e \in Events : KeyExpires(e)
    \/ OnPush
    \/ HandleEssenceChange
    \/ StartSync
    \/ BroadcastNext

EssenceSpec == EssenceInit /\ [][EssenceNext]_essenceVars

(***************************************************************************)
(* Properties.                                                             *)
(***************************************************************************)
\* No event is broadcast more often than its change happened, plus once for each list
\* that was misread: push and list together report a change once, the first list none
\* at all, and a fetch that raises an error is made up for by the next one. Only what
\* Milky broadcast for a push may come again after such an error, when its key has
\* expired before the next list.
Slack(e) == misread + (IF who = "milky" /\ e.to = "set" THEN failed ELSE 0)
EssenceReportedOnce == \A e \in Events : sent[e] <= happened[e] + Slack(e)

\* A list that could not be fetched tells nothing: what is broadcast has happened, and
\* is not broadcast again (syncEssenceList skips the difference when getEssenceMsgList
\* raises an error, as the kernel's API does when it fails, by ADR-009).
FailedFetchTellsNothing == \A e \in Events : sent[e] <= happened[e]
=============================================================================
