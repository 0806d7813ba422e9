---------------------------- MODULE KernelCache ----------------------------
(***************************************************************************)
(* The caches of one session (packages/kernel/src: event-channel.ts,       *)
(* group-bridge.ts, group-cache.ts and the readers of apis/group.ts it     *)
(* loads from). The bridge hands the native callbacks to a typed channel;  *)
(* GroupCache listens there and also loads what a reader misses, one       *)
(* native call per key.                                                    *)
(*                                                                         *)
(* One group stands for all: nothing in the code relates two groups. The   *)
(* data of a member is the number of its version, 0 when it is not in the  *)
(* group. Callbacks and answers of the native side reach the event loop in *)
(* the order it made them (wire); that order is an assumption about native *)
(* code. The code sets no time limit on a native call either.              *)
(***************************************************************************)
EXTENDS Naturals, Sequences, FiniteSets

CONSTANTS
    CacheUids,      \* members of the group
    CacheReaders,   \* concurrent callers of the cache
    MaxVersion,     \* bound on the changes at the server
    MaxWire         \* the server stays quiet while so much is on the wire

ASSUME CacheAssumption == MaxVersion \in Nat \ {0} /\ MaxWire \in Nat \ {0}

Versions == 0 .. MaxVersion
CacheKeys == {"group-list", "detail", "members"} \cup CacheUids
Calls == CacheKeys \cup CacheReaders    \* a refresh is a call of its reader alone
Absent == [u \in {} |-> 0]

VARIABLES
    roster,     \* the server: version of every member of the group
    profile,    \* the server: version of the details of the group
    loading,      \* native calls not answered yet, by key
    wire,       \* callbacks and answers on their way to the event loop
    cacheLife,  \* "new", "registered" (bridge and cache) or "disposed"
    members,    \* members.get(group): Absent, or the versions of those it has
    loaded,     \* a whole list has been stored
    detail,     \* groupDetails.get(group), 0 when it has none
    listed,     \* groupList has the group
    inFlight,   \* keys of GroupCache.inFlight
    reading,    \* what each reader was called for
    awaits      \* and what it waits for

cacheServerVars == <<roster, profile>>
groupVars == <<members, loaded, detail, listed>>
loadVars == <<loading, inFlight, reading, awaits>>
cacheVars == <<cacheServerVars, wire, cacheLife, groupVars, loadVars>>

Partial == UNION {[D -> Versions \ {0}] : D \in SUBSET CacheUids}

Callbacks == [kind : {"members"}, infos : Partial]
                 \cup [kind : {"detail"}, version : Versions]
                 \cup [kind : {"groups"}, has : BOOLEAN]
Answers == [kind : {"answer", "refusal"}, key : Calls, infos : Partial, version : Versions]

CacheTypeOK ==
    /\ roster \in [CacheUids -> Versions]
    /\ profile \in Versions \ {0}
    /\ loading \in [Calls -> Nat]
    /\ wire \in Seq(Callbacks \cup Answers)
    /\ cacheLife \in {"new", "registered", "disposed"}
    /\ members \in Partial
    /\ loaded \in BOOLEAN
    /\ detail \in Versions
    /\ listed \in BOOLEAN
    /\ inFlight \subseteq CacheKeys
    /\ reading \in [CacheReaders -> {"nothing", "group", "refresh", "detail", "members"} \cup CacheUids]
    /\ awaits \in [CacheReaders -> Calls \cup {"nothing", "poll"}]

CacheInit ==
    /\ roster = [u \in CacheUids |-> 0]
    /\ profile = 1
    /\ loading = [k \in Calls |-> 0]
    /\ wire = <<>>
    /\ cacheLife = "new"
    /\ members = Absent
    /\ loaded = FALSE
    /\ detail = 0
    /\ listed = FALSE
    /\ inFlight = {}
    /\ reading = [r \in CacheReaders |-> "nothing"]
    /\ awaits = [r \in CacheReaders |-> "nothing"]

(***************************************************************************)
(* The server and the native services. The bridge passes on a callback     *)
(* while it is registered.                                                 *)
(***************************************************************************)
Present(f) == [u \in {v \in DOMAIN f : f[v] # 0} |-> f[u]]

\* The next change gets the number after that of the newest one.
NextVersion == 1 + CHOOSE v \in Versions :
    /\ v \in {profile} \cup {roster[u] : u \in CacheUids}
    /\ profile <= v /\ \A u \in CacheUids : roster[u] <= v

Callback(c) ==
    /\ Len(wire) < MaxWire
    /\ cacheLife # "disposed"
    /\ c.kind = "groups" \/ NextVersion <= MaxVersion
    /\ wire' = IF cacheLife = "registered" THEN Append(wire, c) ELSE wire
    /\ UNCHANGED <<cacheLife, groupVars, loadVars>>

\* A member joins or changes; its data is in the callback.
MemberChanges(u) ==
    /\ roster' = [roster EXCEPT ![u] = NextVersion]
    /\ Callback([kind |-> "members", infos |-> [v \in {u} |-> NextVersion]])
    /\ UNCHANGED profile

DetailChanges ==
    /\ profile' = NextVersion
    /\ Callback([kind |-> "detail", version |-> NextVersion])
    /\ UNCHANGED roster

\* The list of groups is pushed, whole or in part, after a login or a refresh.
GroupsPushed(has) == Callback([kind |-> "groups", has |-> has]) /\ UNCHANGED cacheServerVars

Found(k) == IF k = "members" THEN Present(roster)
            ELSE Present([u \in CacheUids \cap {k} |-> roster[u]])

LoadAnswered(k) ==
    /\ loading[k] > 0
    /\ loading' = [loading EXCEPT ![k] = @ - 1]
    /\ \E kind \in {"answer", "refusal"} :
           wire' = Append(wire, [kind |-> kind, key |-> k, infos |-> Found(k), version |-> profile])
    /\ UNCHANGED <<cacheServerVars, cacheLife, groupVars, inFlight, reading, awaits>>

(***************************************************************************)
(* Registration: the bridge, then the cache.                               *)
(***************************************************************************)
RegisterCaches ==
    /\ cacheLife = "new"
    /\ cacheLife' = "registered"
    /\ UNCHANGED <<cacheServerVars, wire, groupVars, loadVars>>

\* unregister of the bridge and of the cache; answers still come.
DisposeCaches ==
    /\ cacheLife = "registered"
    /\ cacheLife' = "disposed"
    /\ members' = Absent
    /\ loaded' = FALSE
    /\ detail' = 0
    /\ listed' = FALSE
    /\ inFlight' = {}
    /\ UNCHANGED <<cacheServerVars, wire, loading, reading, awaits>>

(***************************************************************************)
(* Readers. A call the cache can answer changes nothing and is left out.   *)
(***************************************************************************)
\* The readers who load key k in one turn of the event loop
Dedupe(who, k) ==
    IF who = {} \/ k \in inFlight
    THEN UNCHANGED <<loading, inFlight>>
    ELSE /\ loading' = [loading EXCEPT ![k] = @ + 1]
         /\ inFlight' = inFlight \cup {k}

Called(r, what, k) ==
    /\ cacheLife = "registered"
    /\ reading[r] = "nothing"
    /\ reading' = [reading EXCEPT ![r] = what]
    /\ awaits' = [awaits EXCEPT ![r] = k]
    /\ UNCHANGED <<cacheServerVars, wire, cacheLife, groupVars>>

GetMembers(r) == members = Absent /\ Called(r, "members", "members") /\ Dedupe({r}, "members")

GetMember(r, u) ==
    /\ u \notin DOMAIN members
    /\ LET k == IF members = Absent THEN "members" ELSE u
       IN  Called(r, u, k) /\ Dedupe({r}, k)

GetGroupDetail(r) == detail = 0 /\ Called(r, "detail", "detail") /\ Dedupe({r}, "detail")
GetGroup(r) == ~listed /\ Called(r, "group", "group-list") /\ Dedupe({r}, "group-list")

\* The native refresh is called by each reader for itself.
ListGroupsRefreshed(r) ==
    /\ ~listed
    /\ Called(r, "refresh", r)
    /\ loading' = [loading EXCEPT ![r] = @ + 1]
    /\ UNCHANGED inFlight

\* The list has come, or the 5 s are over.
PollEnds(r) ==
    /\ awaits[r] = "poll"
    /\ reading' = [reading EXCEPT ![r] = "nothing"]
    /\ awaits' = [awaits EXCEPT ![r] = "nothing"]
    /\ UNCHANGED <<cacheServerVars, wire, cacheLife, groupVars, loading, inFlight>>

(***************************************************************************)
(* The head of the wire is delivered.                                      *)
(***************************************************************************)
OffWire(kinds) ==
    /\ wire # <<>>
    /\ Head(wire).kind \in kinds
    /\ wire' = Tail(wire)
    /\ UNCHANGED <<cacheServerVars, cacheLife>>

\* One listener of a channel that throws keeps nothing from the others.
Heard(kind) == OffWire({kind}) /\ UNCHANGED loadVars

\* Fault-seeded form of UpsertMembers: members known already are kept.
FaultyUpsertMembers(infos) ==
    members' = [u \in DOMAIN members \cup DOMAIN infos |->
                    IF u \in DOMAIN members THEN members[u] ELSE infos[u]]

UpsertMembers(infos) ==
    members' = [u \in DOMAIN members \cup DOMAIN infos |->
                    IF u \in DOMAIN infos THEN infos[u] ELSE members[u]]

OnMembers ==
    /\ Heard("members")
    /\ IF cacheLife = "registered" THEN UpsertMembers(Head(wire).infos) ELSE UNCHANGED members
    /\ UNCHANGED <<loaded, detail, listed>>

OnDetail ==
    /\ Heard("detail")
    /\ detail' = IF cacheLife = "registered" THEN Head(wire).version ELSE detail
    /\ UNCHANGED <<members, loaded, listed>>

\* onGroupListInited and onGroupListUpdate: cleared when all is pushed, then set
OnGroups ==
    /\ Heard("groups")
    /\ listed' = IF cacheLife = "registered" THEN Head(wire).has ELSE listed
    /\ UNCHANGED <<members, loaded, detail>>

\* What an answer adds to the cache
StoreMembers(k, data) ==
    members' = IF k = "members" THEN data
               ELSE IF k \in CacheUids /\ members # Absent
               THEN [u \in DOMAIN members \cup DOMAIN data |->
                        IF u \in DOMAIN data THEN data[u] ELSE members[u]]
               ELSE members

\* The finally of dedupe
Settle(k) == inFlight' = inFlight \ {k}

\* The readers of k go on: those who look for one member that the whole list
\* does not have ask for it, a refresh polls for the list, the others return.
GoOn(k, next) ==
    LET woken == {r \in CacheReaders : awaits[r] = k} IN
    /\ awaits' = [r \in CacheReaders |-> IF r \in woken THEN next[r] ELSE awaits[r]]
    /\ reading' = [r \in CacheReaders |->
                      IF r \in woken /\ next[r] = "nothing" THEN "nothing" ELSE reading[r]]

OnAnswer ==
    LET k == Head(wire).key
        data == Head(wire).infos
        one(r) == k = "members" /\ reading[r] \in CacheUids /\ reading[r] \notin DOMAIN data
        lookups == {reading[r] : r \in {q \in CacheReaders : awaits[q] = k /\ one(q)}}
    IN
    /\ OffWire({"answer"})
    /\ StoreMembers(k, data)
    /\ loaded' = (loaded \/ (k = "members" /\ cacheLife = "registered"))
    /\ detail' = IF k = "detail" THEN Head(wire).version ELSE detail
    /\ GoOn(k, [r \in CacheReaders |-> IF one(r) THEN reading[r]
                                       ELSE IF k = r THEN "poll" ELSE "nothing"])
    /\ inFlight' = (inFlight \ {k}) \cup lookups
    /\ loading' = [q \in Calls |-> loading[q] + IF q \in lookups \ inFlight THEN 1 ELSE 0]
    /\ UNCHANGED <<listed>>

\* Every reader of a call that failed gets its error.
OnRefusal ==
    LET k == Head(wire).key IN
    /\ OffWire({"refusal"})
    /\ GoOn(k, [r \in CacheReaders |-> "nothing"])
    /\ Settle(k)
    /\ UNCHANGED <<loading, groupVars>>

CacheNext ==
    \/ \E u \in CacheUids : MemberChanges(u)
    \/ DetailChanges
    \/ \E has \in BOOLEAN : GroupsPushed(has)
    \/ \E k \in Calls : LoadAnswered(k)
    \/ RegisterCaches
    \/ DisposeCaches
    \/ \E r \in CacheReaders :
          \/ GetMembers(r)
          \/ GetGroupDetail(r)
          \/ GetGroup(r)
          \/ ListGroupsRefreshed(r)
          \/ PollEnds(r)
          \/ \E u \in CacheUids : GetMember(r, u)
    \/ OnMembers
    \/ OnDetail
    \/ OnGroups
    \/ OnAnswer
    \/ OnRefusal

CacheSpec == CacheInit /\ [][CacheNext]_cacheVars

(***************************************************************************)
(* Properties.                                                             *)
(***************************************************************************)
OnWire(kind) == \E i \in DOMAIN wire : wire[i].kind = kind

\* Once a whole list was stored, the cache has every member of the group with
\* its newest data as soon as no callback about one is under way, whatever the
\* order in which loads, changes and single look-ups met; so has a detail that
\* was loaded once. The protocols translate from the cache alone (ADR-008).
CacheCurrent ==
    cacheLife = "registered" =>
        /\ loaded /\ ~OnWire("members") =>
               \A u \in CacheUids : roster[u] # 0 => u \in DOMAIN members /\ members[u] = roster[u]
        /\ detail # 0 /\ ~OnWire("detail") => detail = profile
=============================================================================
