------------------------------ MODULE Notices ------------------------------
(***************************************************************************)
(* Events that are found by comparing what a callback says with what was   *)
(* said before: friends added and removed (packages/kernel/src:            *)
(* event-channel.ts, friend-bridge.ts, buddy-cache.ts) and conversations   *)
(* pinned and unpinned (packages/adapter/src/milky: adapter.ts,            *)
(* peer-pin.ts; packages/kernel/src/apis/recent-contact.ts).               *)
(*                                                                         *)
(* Callbacks reach the event loop in the order the native side made them   *)
(* (an assumption about native code); the answer to getPinnedContacts      *)
(* comes whenever it likes, so the list in it may be older than callbacks  *)
(* that are already handled, or newer than some that are not.              *)
(***************************************************************************)
EXTENDS Naturals, Sequences, FiniteSets

CONSTANTS
    Peers,      \* friends, who are the conversations that can be pinned too
    MaxTurns,   \* bound on the changes at the server
    MaxPending  \* the server stays quiet while so much is under way

ASSUME NoticesAssumption == MaxTurns \in Nat /\ MaxPending \in Nat \ {0}

VARIABLES
    friends,        \* the server: friends of the account
    pinned,         \* the server: pinned conversations
    turns,
    pending,        \* callbacks under way
    started,        \* bridges, caches and the adapter are registered
    buddies,        \* BuddyCache.buddies
    bootstrapped,   \* BuddyCache has its baseline
    ledger,         \* friends as a subscriber sums up baseline and announcements
    pinState,       \* PinWatch.states: what was observed last, as a partial function
    pinEvents,      \* last peer_pin_change of each conversation, as a partial function
    seed,           \* the call of getPinnedContacts that seedPinWatch waits for
    pins,           \* the list the native side has read for it
    repeats,        \* how often a peer_pin_change told what the last one had told
    misled          \* conversations whose last observation the seed contradicted

nativeVars == <<friends, pinned, turns>>
buddyVars == <<buddies, bootstrapped, ledger>>
pinVars == <<pinState, pinEvents, repeats, misled>>
seedVars == <<seed, pins>>
noticeVars == <<nativeVars, pending, started, buddyVars, pinVars, seedVars>>

Flags == UNION {[D -> BOOLEAN] : D \in SUBSET Peers}

NoticeTypeOK ==
    /\ friends \subseteq Peers
    /\ pinned \subseteq Peers
    /\ turns \in 0 .. MaxTurns
    /\ pending \in Seq([kind : {"friends"}, who : SUBSET Peers]
                           \cup [kind : {"shapeless"}]
                           \cup [kind : {"contact"}, peer : Peers, top : BOOLEAN])
    /\ started \in BOOLEAN
    /\ buddies \subseteq Peers
    /\ bootstrapped \in BOOLEAN
    /\ ledger \subseteq Peers
    /\ pinState \in Flags
    /\ pinEvents \in Flags
    /\ seed \in {"none", "asked", "read", "over"}
    /\ pins \subseteq Peers
    /\ repeats \in [Peers -> Nat]
    /\ misled \subseteq Peers

NoticeInit ==
    /\ friends = {}
    /\ pinned = {}
    /\ turns = 0
    /\ pending = <<>>
    /\ started = FALSE
    /\ buddies = {}
    /\ bootstrapped = FALSE
    /\ ledger = {}
    /\ pinState = [p \in {} |-> FALSE]
    /\ pinEvents = [p \in {} |-> FALSE]
    /\ seed = "none"
    /\ pins = {}
    /\ repeats = [p \in Peers |-> 0]
    /\ misled = {}

(***************************************************************************)
(* The server and the native side.                                         *)
(***************************************************************************)
Toggle(set, p) == IF p \in set THEN set \ {p} ELSE set \cup {p}

Turn(callbacks) ==
    /\ turns < MaxTurns /\ Len(pending) < MaxPending
    /\ turns' = turns + 1
    /\ pending' = IF started THEN pending \o callbacks ELSE pending
    /\ UNCHANGED <<started, buddyVars, pinVars, seedVars>>

FriendsChange(p) ==
    /\ friends' = Toggle(friends, p)
    /\ Turn(<<[kind |-> "friends", who |-> friends']>>)
    /\ UNCHANGED <<pinned>>

\* The same callback with a payload that is no list of categories
FriendsShapeless == Turn(<<[kind |-> "shapeless"]>>) /\ UNCHANGED <<friends, pinned>>

PinChanges(p) ==
    /\ pinned' = Toggle(pinned, p)
    /\ Turn(<<[kind |-> "contact", peer |-> p, top |-> p \in pinned']>>)
    /\ UNCHANGED <<friends>>

\* Any activity of a conversation brings a snapshot of it.
ContactActive(p) ==
    /\ Turn(<<[kind |-> "contact", peer |-> p, top |-> p \in pinned]>>)
    /\ UNCHANGED <<friends, pinned>>

\* The bridges, BuddyCache and the adapter subscribe, then seedPinWatch asks for
\* the pins. The native side sends the friends it has, perhaps with a callback of
\* an unknown form before them.
StartNotices ==
    /\ ~started
    /\ started' = TRUE
    /\ seed' = "asked"
    /\ \E before \in {<<>>, <<[kind |-> "shapeless"]>>} :
           pending' = Append(before, [kind |-> "friends", who |-> friends])
    /\ UNCHANGED <<nativeVars, buddyVars, pinVars, pins>>

\* The native side reads the list it will answer with.
ReadPins ==
    /\ seed = "asked"
    /\ seed' = "read"
    /\ pins' = pinned
    /\ UNCHANGED <<nativeVars, pending, started, buddyVars, pinVars>>

(***************************************************************************)
(* BuddyCache.                                                             *)
(***************************************************************************)
NoticeArrives(kind) ==
    /\ pending # <<>>
    /\ Head(pending).kind = kind
    /\ pending' = Tail(pending)
    /\ UNCHANGED <<nativeVars, started, seedVars>>

\* Fault-seeded form of Announce: a subscriber that throws ends the handler.
FaultyAnnounce(now) ==
    \/ buddies' = now /\ ledger' = (ledger \cup (now \ buddies)) \ (buddies \ now)
    \/ now # buddies /\ UNCHANGED <<buddies, ledger>>

\* The differences are emitted, whatever a subscriber throws, and the frame kept.
Announce(now) ==
    /\ ledger' = (ledger \cup (now \ buddies)) \ (buddies \ now)
    /\ buddies' = now

ApplySnapshot(now) ==
    IF bootstrapped
    THEN Announce(now) /\ UNCHANGED bootstrapped
    ELSE buddies' = now /\ ledger' = now /\ bootstrapped' = TRUE

OnBuddyListChange ==
    /\ NoticeArrives("friends")
    /\ ApplySnapshot(Head(pending).who)
    /\ UNCHANGED <<pinVars>>

OnShapeless == NoticeArrives("shapeless") /\ UNCHANGED <<buddyVars, pinVars>>

(***************************************************************************)
(* PinWatch.                                                               *)
(***************************************************************************)
Put(f, p, v) == [q \in DOMAIN f \cup {p} |-> IF q = p THEN v ELSE f[q]]

\* The pins found at the start are states without an event, whatever has been
\* observed since they were read; a failure is silent.
SeedPinWatch ==
    /\ seed = "read"
    /\ seed' = "over"
    /\ pins' = {}
    /\ \/ /\ pinState' = [q \in DOMAIN pinState \cup pins |-> q \in pins \/ pinState[q]]
          /\ misled' = {q \in pins \cap DOMAIN pinState : ~pinState[q]}
       \/ UNCHANGED <<pinState, misled>>
    /\ UNCHANGED <<nativeVars, pending, started, pinEvents, repeats, buddyVars>>

\* Fault-seeded form of Flips: every observation is an event.
FaultyFlips(p, top) == TRUE

\* PinWatch.observe: the first observation, and one like the last, tell nothing.
Flips(p, top) == p \in DOMAIN pinState /\ pinState[p] # top

HandlePinEntry ==
    LET p == Head(pending).peer
        top == Head(pending).top
    IN
    /\ NoticeArrives("contact")
    /\ pinState' = Put(pinState, p, top)
    /\ IF Flips(p, top)
       THEN /\ pinEvents' = Put(pinEvents, p, top)
            /\ repeats' = [repeats EXCEPT ![p] =
                               IF p \in DOMAIN pinEvents /\ pinEvents[p] = top THEN @ + 1 ELSE @]
       ELSE UNCHANGED <<pinEvents, repeats>>
    /\ UNCHANGED <<misled, buddyVars>>

NoticeNext ==
    \/ \E p \in Peers : FriendsChange(p) \/ PinChanges(p) \/ ContactActive(p)
    \/ FriendsShapeless
    \/ StartNotices
    \/ ReadPins
    \/ OnBuddyListChange
    \/ OnShapeless
    \/ SeedPinWatch
    \/ HandlePinEntry

NoticeSpec == NoticeInit /\ [][NoticeNext]_noticeVars

(***************************************************************************)
(* Properties.                                                             *)
(***************************************************************************)
UnderWay(kind) == \E i \in DOMAIN pending : pending[i].kind = kind

\* Baseline and announcements sum up to the friends of the server as soon as no
\* frame is under way: none is announced twice or lost, although subscribers may
\* throw and frames of an unknown form come in between.
LedgerIsFriends == started /\ ~UnderWay("friends") => bootstrapped /\ ledger = friends

\* Two events of one conversation differ, however often its snapshots come, before
\* the seed or after it, and the last event is true as soon as no snapshot is under
\* way. A seed that was older than an observation costs one repeated event at most;
\* until it has come, the last event may be wrong.
PinEventsAlternate ==
    \A p \in Peers :
        /\ repeats[p] <= (IF p \in misled THEN 1 ELSE 0)
        /\ ~UnderWay("contact") /\ p \in DOMAIN pinEvents /\ (p \in misled => repeats[p] = 1)
               => pinEvents[p] = (p \in pinned)
=============================================================================
