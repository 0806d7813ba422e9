--------------------------- MODULE MessageUnique ---------------------------
(***************************************************************************)
(* The table of OneBot message ids (packages/adapter/src/onebot11/helper/  *)
(* message-unique.ts): an int32 is handed out for every native message     *)
(* that is received, sent or listed, and resolved again by the actions     *)
(* that take a message_id.                                                 *)
(***************************************************************************)
EXTENDS Naturals

CONSTANTS
    Msgs,     \* native message ids
    NoMsg,    \* the undefined a lookup returns
    MaxId     \* INT32_MAX

ASSUME MessageUniqueAssumption == MaxId \in Nat /\ NoMsg \notin Msgs

VARIABLES
    msgIdToInt,  \* native id -> message_id, 0 where the map has no entry
    intToMsgId,  \* message_id -> native id
    withPeer,    \* msgIdToPeer: messages whose conversation is recorded
    cursor,      \* next id that was never handed out
    freed        \* ids that were released

idVars == <<msgIdToInt, intToMsgId, withPeer, cursor, freed>>

Ids == 1 .. MaxId

IdsTypeOK ==
    /\ msgIdToInt \in [Msgs -> 0 .. MaxId]
    /\ intToMsgId \in [Ids -> Msgs \cup {NoMsg}]
    /\ withPeer \subseteq Msgs
    /\ cursor \in 1 .. MaxId + 1
    /\ freed \subseteq Ids

IdsInit ==
    /\ msgIdToInt = [m \in Msgs |-> 0]
    /\ intToMsgId = [i \in Ids |-> NoMsg]
    /\ withPeer = {}
    /\ cursor = 1
    /\ freed = {}

\* Fault-seeded form of NextFreeId: ids start over after an overflow.
FaultyNextFreeId ==
    IF freed # {} THEN {<<i, cursor>> : i \in freed}
    ELSE IF cursor < MaxId THEN {<<cursor, cursor + 1>>}
    ELSE {<<cursor, 1>>}

\* The values nextFreeId may return, with the cursor it leaves behind: the
\* first id of the set freed, whose order is not modelled, then the cursor,
\* then the first hole; none when it throws.
NextFreeId ==
    LET holes == {i \in Ids : intToMsgId[i] = NoMsg}
    IN IF freed # {} THEN {<<i, cursor>> : i \in freed}
       ELSE IF cursor <= MaxId THEN {<<cursor, cursor + 1>>}
       ELSE {<<i, i + 1>> : i \in {h \in holes : \A o \in holes : h <= o}}

\* alloc() of a message that has an id; the conversation is recorded anew.
AllocKnown(m) ==
    /\ msgIdToInt[m] # 0
    /\ withPeer' = withPeer \cup {m}
    /\ UNCHANGED <<msgIdToInt, intToMsgId, cursor, freed>>

AllocNew(m, peer) ==
    /\ msgIdToInt[m] = 0
    /\ \E next \in NextFreeId :
        /\ msgIdToInt' = [msgIdToInt EXCEPT ![m] = next[1]]
        /\ intToMsgId' = [intToMsgId EXCEPT ![next[1]] = m]
        /\ cursor' = next[2]
        /\ freed' = freed \ {next[1]}
    /\ withPeer' = IF peer THEN withPeer \cup {m} ELSE withPeer

Release(m) ==
    /\ msgIdToInt[m] # 0
    /\ freed' = freed \cup {msgIdToInt[m]}
    /\ intToMsgId' = [intToMsgId EXCEPT ![msgIdToInt[m]] = NoMsg]
    /\ msgIdToInt' = [msgIdToInt EXCEPT ![m] = 0]
    /\ withPeer' = withPeer \ {m}
    /\ UNCHANGED cursor

\* What resolveMsgIdAndPeer answers: NoMsg where it throws NOT_FOUND.
Resolve(i) == IF intToMsgId[i] \in withPeer THEN intToMsgId[i] ELSE NoMsg

IdsNext ==
    \E m \in Msgs :
        \/ AllocKnown(m)
        \/ \E peer \in BOOLEAN : AllocNew(m, peer)
        \/ Release(m)

IdsSpec == IdsInit /\ [][IdsNext]_idVars

----------------------------------------------------------------------------
\* The two maps are inverse to each other: an id a client holds denotes the
\* message it was given for until that is released, never another one, and
\* also after the ids ran over. With its conversation recorded, the actions can
\* resolve it; what was released has no conversation left behind.
IdsOneToOne ==
    /\ \A m \in Msgs : msgIdToInt[m] # 0 => intToMsgId[msgIdToInt[m]] = m
    /\ \A i \in Ids : intToMsgId[i] # NoMsg => msgIdToInt[intToMsgId[i]] = i
    /\ \A m \in withPeer : msgIdToInt[m] # 0 /\ Resolve(msgIdToInt[m]) = m
=============================================================================
