---------------------------- MODULE EventProofs -----------------------------
(***************************************************************************)
(* Proofs about the events of the adapters, for every value of the         *)
(* constants: friend and pin events add up to the state of the server      *)
(* (Notices), a change of the essence list is reported once                *)
(* (EssenceEvents), and each protocol reports what is in its catalogue     *)
(* once (ProtocolEvents).                                                  *)
(***************************************************************************)
EXTENDS Notices, EssenceEvents, ProtocolEvents, FiniteSetTheorems, TLAPS

-----------------------------------------------------------------------------
(***************************************************************************)
(* Friends and pins. Both properties speak of the moment when nothing is   *)
(* under way, so the inductive invariant says of every frame that it is    *)
(* the truth or has a newer one behind it. What PinWatch knows of a         *)
(* conversation and its last event agree, except after a seed that was     *)
(* older than an observation, and then until a repeated event (InStep).    *)
(***************************************************************************)

Frames ==
    [kind : {"friends"}, who : SUBSET Peers] \cup [kind : {"shapeless"}]
        \cup [kind : {"contact"}, peer : Peers, top : BOOLEAN]

\* What is under way of one kind ends with what is true at the server: every
\* frame but the last is followed by a newer one.
FramesCatchUp ==
    /\ \A i \in DOMAIN pending : pending[i].kind = "friends" =>
           \/ pending[i].who = friends
           \/ \E j \in DOMAIN pending : j > i /\ pending[j].kind = "friends"
    /\ \A i \in DOMAIN pending : pending[i].kind = "contact" =>
           \/ pending[i].top <=> pending[i].peer \in pinned
           \/ \E j \in DOMAIN pending : /\ j > i /\ pending[j].kind = "contact"
                                        /\ pending[j].peer = pending[i].peer

\* The ledger is the cache, and behind the server only by what is under way.
BuddiesFollow ==
    /\ ledger = buddies
    /\ started => UnderWay("friends") \/ (bootstrapped /\ ledger = friends)

\* Nothing is under way or observed before the start, and nothing went wrong
\* before the seed, which comes once.
SeedIsOnce ==
    /\ ~started => pending = <<>> /\ DOMAIN pinState = {} /\ seed = "none"
    /\ seed # "over" => misled = {} /\ \A p \in Peers : repeats[p] = 0

InStep(p) == p \in misled => repeats[p] = 1

\* The last event of a conversation is its last observation, and behind the
\* server only by what is under way.
PinsFollow ==
    /\ DOMAIN pinEvents \subseteq DOMAIN pinState
    /\ \A p \in Peers :
           /\ repeats[p] <= (IF p \in misled THEN 1 ELSE 0)
           /\ p \in DOMAIN pinEvents /\ InStep(p) =>
                 /\ pinEvents[p] = pinState[p]
                 /\ \/ pinEvents[p] <=> p \in pinned
                    \/ \E j \in DOMAIN pending : pending[j].kind = "contact" /\ pending[j].peer = p

NoticeInv == NoticeTypeOK /\ FramesCatchUp /\ BuddiesFollow /\ SeedIsOnce /\ PinsFollow

-----------------------------------------------------------------------------
LEMMA Queued ==
    ASSUME NEW S, NEW q \in Seq(S), NEW e \in S
    PROVE  /\ q \o <<e>> \in Seq(S)
           /\ DOMAIN (q \o <<e>>) = 1 .. Len(q) + 1
           /\ \A i \in 1 .. Len(q) : (q \o <<e>>)[i] = q[i]
           /\ (q \o <<e>>)[Len(q) + 1] = e
  OBVIOUS

LEMMA DeliveryKeeps ==
    ASSUME NEW S, NEW q \in Seq(S), q # <<>>
    PROVE  /\ Head(q) = q[1] /\ Head(q) \in S
           /\ Tail(q) \in Seq(S)
           /\ Len(q) \in Nat \ {0}
           /\ DOMAIN Tail(q) = 1 .. Len(q) - 1
           /\ \A i \in 1 .. Len(q) - 1 : Tail(q)[i] = q[i + 1]
  OBVIOUS

LEMMA FlagsAre ==
    ASSUME NEW f
    PROVE  f \in Flags <=> DOMAIN f \subseteq Peers /\ f \in [DOMAIN f -> BOOLEAN]
<1>1. f \in Flags <=> \E D \in SUBSET Peers : f \in [D -> BOOLEAN]
  BY DEF Flags
<1>2. \A D : f \in [D -> BOOLEAN] => DOMAIN f = D
  OBVIOUS
<1> QED
  BY <1>1, <1>2

LEMMA NoticeInitially == NoticeInit => NoticeInv
<1> SUFFICES ASSUME NoticeInit PROVE NoticeInv
  OBVIOUS
<1> USE DEF NoticeInit
<1>1. NoticeTypeOK
  <2>1. pinState \in Flags /\ pinEvents \in Flags
    BY FlagsAre
  <2>2. pending \in Seq(Frames) /\ turns \in 0 .. MaxTurns
    BY NoticesAssumption
  <2> QED
    BY <2>1, <2>2 DEF NoticeTypeOK, Frames
<1>2. FramesCatchUp /\ BuddiesFollow /\ SeedIsOnce /\ PinsFollow
  BY DEF FramesCatchUp, BuddiesFollow, SeedIsOnce, PinsFollow
<1> QED
  BY <1>1, <1>2 DEF NoticeInv

-----------------------------------------------------------------------------
(* The server: a change comes with its callback. *)

LEMMA TurnKeeps ==
    ASSUME NoticeInv, NEW m \in Frames, Turn(<<m>>),
           friends' \subseteq Peers, pinned' \subseteq Peers,
           friends' = friends \/ (m.kind = "friends" /\ m.who = friends'),
           m.kind = "friends" => m.who = friends',
           m.kind = "contact" => (m.top <=> m.peer \in pinned'),
           \A p : (p \in pinned <=> p \in pinned') \/ (m.kind = "contact" /\ m.peer = p)
    PROVE  NoticeInv'
<1> USE DEF NoticeInv, Turn, buddyVars, pinVars, seedVars
<1>1. NoticeTypeOK'
  <2>1. pending' \in Seq(Frames)
    BY Queued DEF NoticeTypeOK, Frames
  <2> QED
    BY <2>1, NoticesAssumption DEF NoticeTypeOK, Frames
<1>2. CASE ~started
  BY <1>1, <1>2 DEF FramesCatchUp, BuddiesFollow, SeedIsOnce, PinsFollow, InStep, NoticeTypeOK
<1>3. CASE started
  <2> DEFINE n == Len(pending)
  <2>1. /\ n \in Nat
        /\ DOMAIN pending = 1 .. n
        /\ DOMAIN pending' = 1 .. n + 1
        /\ \A i \in 1 .. n : pending'[i] = pending[i]
        /\ pending'[n + 1] = m
    BY <1>3, Queued DEF NoticeTypeOK, Frames
  <2> HIDE DEF n
  <2>2. FramesCatchUp'
    <3>1. ASSUME NEW i \in DOMAIN pending', pending'[i].kind = "friends"
          PROVE  \/ pending'[i].who = friends'
                 \/ \E j \in DOMAIN pending' : j > i /\ pending'[j].kind = "friends"
      <4>1. CASE i = n + 1
        BY <2>1, <3>1, <4>1
      <4>2. CASE i \in 1 .. n /\ m.kind = "friends"
        BY <2>1, <4>2
      <4>3. CASE i \in 1 .. n /\ m.kind # "friends"
        BY <2>1, <3>1, <4>3 DEF FramesCatchUp
      <4> QED
        BY <2>1, <4>1, <4>2, <4>3
    <3>2. ASSUME NEW i \in DOMAIN pending', pending'[i].kind = "contact"
          PROVE  \/ pending'[i].top <=> pending'[i].peer \in pinned'
                 \/ \E j \in DOMAIN pending' : /\ j > i /\ pending'[j].kind = "contact"
                                          /\ pending'[j].peer = pending'[i].peer
      <4> DEFINE Newer == m.kind = "contact" /\ m.peer = pending'[i].peer
      <4>1. CASE i = n + 1
        BY <2>1, <3>2, <4>1
      <4>2. CASE i \in 1 .. n /\ Newer
        BY <2>1, <4>2
      <4>3. CASE i \in 1 .. n /\ ~Newer
        <5>1. pending[i] = pending'[i] /\ (pending[i].peer \in pinned <=> pending[i].peer \in pinned')
          BY <2>1, <4>3
        <5>2. CASE pending[i].top <=> pending[i].peer \in pinned
          BY <5>1, <5>2
        <5>3. CASE \E j \in DOMAIN pending : /\ j > i /\ pending[j].kind = "contact"
                                             /\ pending[j].peer = pending[i].peer
          BY <2>1, <5>1, <5>3
        <5> QED
          BY <2>1, <3>2, <4>3, <5>1, <5>2, <5>3 DEF FramesCatchUp
      <4> QED
        BY <2>1, <4>1, <4>2, <4>3
    <3> QED
      BY <2>1, <3>1, <3>2 DEF FramesCatchUp
  <2>3. BuddiesFollow'
    BY <1>3, <2>1 DEF BuddiesFollow, UnderWay
  <2>4. SeedIsOnce'
    BY <1>3, <2>1 DEF SeedIsOnce
  <2>5. PinsFollow'
    <3>1. \A p : \/ p \in pinned <=> p \in pinned'
                \/ \E j \in DOMAIN pending' : pending'[j].kind = "contact" /\ pending'[j].peer = p
      BY <2>1
    <3>2. \A j \in DOMAIN pending : j \in DOMAIN pending' /\ pending'[j] = pending[j]
      BY <2>1
    <3> QED
      BY <3>1, <3>2 DEF PinsFollow, InStep
  <2> QED
    BY <1>1, <2>2, <2>3, <2>4, <2>5
<1> QED
  BY <1>2, <1>3 DEF NoticeTypeOK

LEMMA FriendsChangeKeeps ==
    ASSUME NoticeInv, NEW p \in Peers, FriendsChange(p) PROVE NoticeInv'
<1>1. friends' \subseteq Peers
  BY DEF FriendsChange, Toggle, NoticeInv, NoticeTypeOK
<1> DEFINE m == [kind |-> "friends", who |-> friends']
<1>2. m \in Frames /\ m.kind = "friends" /\ m.who = friends'
  BY <1>1 DEF Frames
<1>3. Turn(<<m>>) /\ pinned' = pinned /\ pinned' \subseteq Peers
  BY DEF FriendsChange, NoticeInv, NoticeTypeOK
<1> QED
  BY <1>1, <1>2, <1>3, TurnKeeps

LEMMA FriendsShapelessKeeps ==
    ASSUME NoticeInv, FriendsShapeless PROVE NoticeInv'
<1> DEFINE m == [kind |-> "shapeless"]
<1>1. m \in Frames /\ m.kind = "shapeless"
  BY DEF Frames
<1>2. Turn(<<m>>) /\ UNCHANGED <<friends, pinned>>
  BY DEF FriendsShapeless
<1>3. friends' \subseteq Peers /\ pinned' \subseteq Peers
  BY <1>2 DEF NoticeInv, NoticeTypeOK
<1> QED
  BY <1>1, <1>2, <1>3, TurnKeeps

LEMMA PinKeeps ==
    ASSUME NoticeInv, NEW p \in Peers, PinChanges(p) \/ ContactActive(p) PROVE NoticeInv'
<1>1. pinned' \subseteq Peers /\ friends' = friends /\ friends' \subseteq Peers
  BY DEF PinChanges, ContactActive, Toggle, NoticeInv, NoticeTypeOK
<1>2. \A q : q # p => (q \in pinned <=> q \in pinned')
  BY DEF PinChanges, ContactActive, Toggle
<1> DEFINE m == [kind |-> "contact", peer |-> p, top |-> p \in pinned']
<1>3. m.kind = "contact" /\ m.peer = p /\ (m.top <=> p \in pinned')
  OBVIOUS
<1>4. m \in Frames
  BY DEF Frames
<1>5. Turn(<<m>>)
  BY DEF PinChanges, ContactActive
<1> HIDE DEF m
<1> QED
  BY <1>1, <1>2, <1>3, <1>4, <1>5, TurnKeeps

LEMMA StartNoticesKeeps ==
    ASSUME NoticeInv, StartNotices PROVE NoticeInv'
<1> USE DEF NoticeInv, StartNotices, nativeVars, buddyVars, pinVars
<1>1. PICK before \in {<<>>, <<[kind |-> "shapeless"]>>} :
           pending' = Append(before, [kind |-> "friends", who |-> friends])
  OBVIOUS
<1>2. /\ pending' \in Seq(Frames)
      /\ DOMAIN pending' = 1 .. Len(before) + 1 /\ Len(before) \in {0, 1}
      /\ pending'[Len(before) + 1].kind = "friends" /\ pending'[Len(before) + 1].who = friends
      /\ \A i \in 1 .. Len(before) : pending'[i].kind = "shapeless"
  <2> DEFINE last == [kind |-> "friends", who |-> friends]
             none == [kind |-> "shapeless"]
  <2>1. last \in Frames /\ none \in Frames /\ last.kind = "friends" /\ last.who = friends
        /\ none.kind = "shapeless"
    BY DEF Frames, NoticeTypeOK
  <2>2. pending' = Append(before, last) /\ before \in {<<>>, <<none>>}
    BY <1>1
  <2> HIDE DEF last, none
  <2>3. before \in Seq(Frames) /\ Len(before) \in {0, 1} /\ \A i \in 1 .. Len(before) : before[i] = none
    <3>1. CASE before = <<>>
      BY <3>1
    <3>2. CASE before = <<none>>
      BY <2>1, <3>2
    <3> QED
      BY <2>2, <3>1, <3>2
  <2> QED
    BY <2>1, <2>2, <2>3
<1>3. NoticeTypeOK'
  BY <1>2 DEF NoticeTypeOK, Frames
<1>4. FramesCatchUp' /\ BuddiesFollow' /\ SeedIsOnce'
  <2>1. Len(before) + 1 \in DOMAIN pending'
    BY <1>2
  <2>2. \A i \in DOMAIN pending' : i = Len(before) + 1 \/ pending'[i].kind = "shapeless"
    BY <1>2
  <2>3. FramesCatchUp'
    BY <1>2, <2>2 DEF FramesCatchUp
  <2>4. BuddiesFollow'
    BY <1>2, <2>1 DEF BuddiesFollow, UnderWay
  <2>5. SeedIsOnce'
    BY DEF SeedIsOnce
  <2> QED
    BY <2>3, <2>4, <2>5
<1>5. PinsFollow'
  BY DEF PinsFollow, InStep, SeedIsOnce
<1> QED
  BY <1>3, <1>4, <1>5

LEMMA ReadPinsKeeps ==
    ASSUME NoticeInv, ReadPins PROVE NoticeInv'
  BY DEF NoticeInv, ReadPins, nativeVars, buddyVars, pinVars, NoticeTypeOK, FramesCatchUp,
         BuddiesFollow, UnderWay, SeedIsOnce, PinsFollow, InStep

-----------------------------------------------------------------------------
(* The head of what is under way is handled. *)

LEMMA FrameTaken ==
    ASSUME NoticeInv, NEW kind, NoticeArrives(kind)
    PROVE  /\ pending' \in Seq(Frames) /\ FramesCatchUp' /\ started
           /\ 1 \in DOMAIN pending /\ Head(pending) = pending[1] /\ Head(pending) \in Frames
           /\ \A i \in DOMAIN pending' : /\ i \in Nat /\ i > 0
                                         /\ i + 1 \in DOMAIN pending
                                         /\ pending'[i] = pending[i + 1]
           /\ \A i \in DOMAIN pending :
                  i # 1 => i \in Nat /\ i - 1 \in DOMAIN pending' /\ pending'[i - 1] = pending[i]
<1> USE DEF NoticeInv, NoticeArrives, nativeVars, seedVars
<1>1. /\ pending' \in Seq(Frames) /\ started
      /\ 1 \in DOMAIN pending /\ Head(pending) = pending[1] /\ Head(pending) \in Frames
  BY DeliveryKeeps DEF NoticeTypeOK, Frames, SeedIsOnce
<1>2. \A i \in DOMAIN pending' : /\ i \in Nat /\ i > 0
                                 /\ i + 1 \in DOMAIN pending
                                 /\ pending'[i] = pending[i + 1]
  BY DeliveryKeeps DEF NoticeTypeOK, Frames
<1>3. \A i \in DOMAIN pending :
          i # 1 => i \in Nat /\ i - 1 \in DOMAIN pending' /\ pending'[i - 1] = pending[i]
  BY DeliveryKeeps DEF NoticeTypeOK, Frames
<1>4. FramesCatchUp'
  <2>1. ASSUME NEW i \in DOMAIN pending', pending'[i].kind = "friends"
        PROVE  \/ pending'[i].who = friends'
               \/ \E j \in DOMAIN pending' : j > i /\ pending'[j].kind = "friends"
    <3>1. CASE pending[i + 1].who = friends
      BY <1>2, <3>1
    <3>2. CASE \E j \in DOMAIN pending : j > i + 1 /\ pending[j].kind = "friends"
      <4>1. PICK j \in DOMAIN pending : j > i + 1 /\ pending[j].kind = "friends"
        BY <3>2
      <4>2. j # 1 /\ i \in Nat /\ j \in Nat /\ j - 1 > i
        BY <1>2, <1>3, <4>1
      <4> QED
        BY <1>3, <4>1, <4>2
    <3> QED
      BY <1>2, <2>1, <3>1, <3>2 DEF FramesCatchUp
  <2>2. ASSUME NEW i \in DOMAIN pending', pending'[i].kind = "contact"
        PROVE  \/ pending'[i].top <=> pending'[i].peer \in pinned'
               \/ \E j \in DOMAIN pending' : /\ j > i /\ pending'[j].kind = "contact"
                                             /\ pending'[j].peer = pending'[i].peer
    <3>1. CASE pending[i + 1].top <=> pending[i + 1].peer \in pinned
      BY <1>2, <3>1
    <3>2. CASE \E j \in DOMAIN pending : /\ j > i + 1 /\ pending[j].kind = "contact"
                                         /\ pending[j].peer = pending[i + 1].peer
      <4>1. PICK j \in DOMAIN pending : /\ j > i + 1 /\ pending[j].kind = "contact"
                                        /\ pending[j].peer = pending[i + 1].peer
        BY <3>2
      <4>2. j # 1 /\ i \in Nat /\ j \in Nat /\ j - 1 > i
        BY <1>2, <1>3, <4>1
      <4> QED
        BY <1>2, <1>3, <4>1, <4>2
    <3> QED
      BY <1>2, <2>2, <3>1, <3>2 DEF FramesCatchUp
  <2> QED
    BY <2>1, <2>2 DEF FramesCatchUp
<1> QED
  BY <1>1, <1>2, <1>3, <1>4

LEMMA OnBuddyListChangeKeeps ==
    ASSUME NoticeInv, OnBuddyListChange PROVE NoticeInv'
<1> USE DEF NoticeInv, OnBuddyListChange, ApplySnapshot, Announce, pinVars
<1>0. NoticeArrives("friends") /\ pending[1].kind = "friends" /\ UNCHANGED <<nativeVars, started, seedVars>>
  BY FrameTaken DEF NoticeArrives
<1> DEFINE now == Head(pending).who
<1>1. /\ now = pending[1].who /\ now \subseteq Peers
      /\ buddies' = now /\ ledger' = now /\ bootstrapped' = TRUE
  BY <1>0, FrameTaken DEF BuddiesFollow, Frames, NoticeTypeOK
<1>2. NoticeTypeOK'
  BY <1>0, <1>1, FrameTaken DEF NoticeTypeOK, Frames, nativeVars, seedVars
<1>3. BuddiesFollow'
  <2>1. CASE now = friends
    BY <1>0, <1>1, <2>1 DEF BuddiesFollow, nativeVars
  <2>2. CASE \E j \in DOMAIN pending : j > 1 /\ pending[j].kind = "friends"
    BY <1>0, <1>1, <2>2, FrameTaken DEF BuddiesFollow, UnderWay
  <2> QED
    BY <1>0, <1>1, <2>1, <2>2, FrameTaken DEF FramesCatchUp
<1>4. SeedIsOnce'
  BY <1>0, FrameTaken DEF SeedIsOnce, seedVars, pinVars
<1>5. PinsFollow'
  <2>1. ASSUME NEW j \in DOMAIN pending, pending[j].kind = "contact"
        PROVE  \E i \in DOMAIN pending' : pending'[i].kind = "contact" /\ pending'[i].peer = pending[j].peer
    BY <1>0, <2>1, FrameTaken
  <2> QED
    BY <1>0, <2>1 DEF PinsFollow, InStep, nativeVars
<1> QED
  BY <1>0, <1>2, <1>3, <1>4, <1>5, FrameTaken

LEMMA OnShapelessKeeps ==
    ASSUME NoticeInv, OnShapeless PROVE NoticeInv'
<1> USE DEF NoticeInv, OnShapeless, pinVars, buddyVars
<1>0. NoticeArrives("shapeless") /\ pending[1].kind = "shapeless" /\ UNCHANGED <<nativeVars, started, seedVars>>
  BY FrameTaken DEF NoticeArrives
<1>1. ASSUME NEW j \in DOMAIN pending, pending[j].kind # "shapeless"
      PROVE  \E i \in DOMAIN pending' : pending'[i] = pending[j]
  BY <1>0, <1>1, FrameTaken
<1>2. NoticeTypeOK'
  BY <1>0, FrameTaken DEF NoticeTypeOK, Frames, nativeVars, seedVars
<1>3. BuddiesFollow'
  BY <1>0, <1>1 DEF BuddiesFollow, UnderWay, nativeVars
<1>4. SeedIsOnce'
  BY <1>0, FrameTaken DEF SeedIsOnce, seedVars, pinVars
<1>5. PinsFollow'
  BY <1>0, <1>1 DEF PinsFollow, InStep, nativeVars
<1> QED
  BY <1>0, <1>2, <1>3, <1>4, <1>5, FrameTaken

LEMMA SeedPinWatchKeeps ==
    ASSUME NoticeInv, SeedPinWatch PROVE NoticeInv'
<1> USE DEF NoticeInv, SeedPinWatch, nativeVars, buddyVars
<1>1. misled = {} /\ \A p \in Peers : repeats[p] = 0
  BY DEF SeedIsOnce
<1>2. CASE UNCHANGED <<pinState, misled>>
  BY <1>1, <1>2 DEF NoticeTypeOK, FramesCatchUp, BuddiesFollow, UnderWay, SeedIsOnce, PinsFollow,
                    InStep
<1>3. CASE /\ pinState' = [q \in DOMAIN pinState \cup pins |-> q \in pins \/ pinState[q]]
           /\ misled' = {q \in pins \cap DOMAIN pinState : ~pinState[q]}
  <2>1. pinState' \in Flags /\ pins \subseteq Peers
    <3>1. DOMAIN pinState' \subseteq Peers /\ pinState' \in [DOMAIN pinState' -> BOOLEAN]
      BY <1>3, FlagsAre DEF NoticeTypeOK
    <3> QED
      BY <3>1, FlagsAre DEF NoticeTypeOK
  <2>2. NoticeTypeOK'
    BY <1>3, <2>1 DEF NoticeTypeOK
  <2>3. \A q \in DOMAIN pinState : pinState[q] \in BOOLEAN
    BY FlagsAre DEF NoticeTypeOK
  <2>4. \A p \in DOMAIN pinState : p \notin misled' => pinState'[p] = pinState[p]
    BY <1>3, <2>3
  <2>5. \A p \in Peers : InStep(p)' => p \notin misled' /\ InStep(p)
    BY <1>1 DEF InStep
  <2>6. PinsFollow'
    <3>1. \A p \in Peers : repeats[p] <= (IF p \in misled' THEN 1 ELSE 0)
      BY <1>1
    <3>2. DOMAIN pinEvents \subseteq DOMAIN pinState'
      BY <1>3 DEF PinsFollow
    <3>3. ASSUME NEW p \in Peers, p \in DOMAIN pinEvents, InStep(p)'
          PROVE  /\ pinEvents[p] = pinState'[p]
                 /\ \/ pinEvents[p] <=> p \in pinned
                    \/ \E j \in DOMAIN pending : pending[j].kind = "contact" /\ pending[j].peer = p
      BY <2>4, <2>5, <3>3 DEF PinsFollow
    <3> QED
      BY <3>1, <3>2, <3>3 DEF PinsFollow
  <2>7. FramesCatchUp' /\ BuddiesFollow'
    BY DEF FramesCatchUp, BuddiesFollow, UnderWay
  <2>8. SeedIsOnce'
    BY DEF SeedIsOnce
  <2> QED
    BY <2>2, <2>6, <2>7, <2>8
<1> QED
  BY <1>2, <1>3

LEMMA PutIs ==
    ASSUME NEW f \in Flags, NEW p \in Peers, NEW v \in BOOLEAN
    PROVE  /\ Put(f, p, v) \in Flags
           /\ DOMAIN Put(f, p, v) = DOMAIN f \cup {p}
           /\ Put(f, p, v)[p] = v
           /\ \A q \in DOMAIN f : q # p => Put(f, p, v)[q] = f[q]
<1>1. /\ DOMAIN Put(f, p, v) = DOMAIN f \cup {p}
      /\ Put(f, p, v)[p] = v
      /\ \A q \in DOMAIN f : q # p => Put(f, p, v)[q] = f[q]
  BY DEF Put
<1>2. Put(f, p, v) \in [DOMAIN Put(f, p, v) -> BOOLEAN]
  BY FlagsAre DEF Put
<1> QED
  BY <1>1, <1>2, FlagsAre

LEMMA HandlePinEntryKeeps ==
    ASSUME NoticeInv, HandlePinEntry PROVE NoticeInv'
<1> USE DEF NoticeInv, HandlePinEntry, buddyVars
<1> DEFINE p == Head(pending).peer
           top == Head(pending).top
<1>0. NoticeArrives("contact") /\ pending[1].kind = "contact" /\ UNCHANGED <<nativeVars, started, seedVars>>
  BY FrameTaken DEF NoticeArrives
<1>1. ASSUME NEW j \in DOMAIN pending, pending[j].kind # "contact"
      PROVE  \E i \in DOMAIN pending' : pending'[i] = pending[j]
  BY <1>0, <1>1, FrameTaken
<1>2. p \in Peers /\ top \in BOOLEAN
  BY <1>0, FrameTaken DEF Frames
<1>3. pinState' = Put(pinState, p, top)
  OBVIOUS
<1>4. /\ pinState' \in Flags
      /\ DOMAIN pinState' = DOMAIN pinState \cup {p}
      /\ pinState'[p] = top
      /\ \A q \in DOMAIN pinState : q # p => pinState'[q] = pinState[q]
  <2>1. pinState \in Flags
    BY DEF NoticeTypeOK
  <2> HIDE DEF HandlePinEntry, NoticeInv, p, top
  <2>2. /\ Put(pinState, p, top) \in Flags
        /\ DOMAIN Put(pinState, p, top) = DOMAIN pinState \cup {p}
        /\ Put(pinState, p, top)[p] = top
        /\ \A q \in DOMAIN pinState : q # p => Put(pinState, p, top)[q] = pinState[q]
    BY <1>2, <2>1, PutIs
  <2> QED
    BY <1>3, <2>2, Zenon
<1>5. /\ pinEvents' \in Flags /\ misled' = misled
      /\ DOMAIN pinEvents' \subseteq DOMAIN pinState'
      /\ \A q \in DOMAIN pinEvents' : q # p => q \in DOMAIN pinEvents /\ pinEvents'[q] = pinEvents[q]
      /\ repeats' \in [Peers -> Nat]
      /\ \A q \in Peers : q # p => repeats'[q] = repeats[q]
      /\ repeats'[p] <= (IF p \in misled THEN 1 ELSE 0)
      /\ p \in DOMAIN pinEvents' /\ (p \in misled => repeats'[p] = 1) => pinEvents'[p] = top
      /\ seed # "over" => repeats'[p] = 0
  <2>0. /\ repeats[p] \in Nat /\ repeats[p] <= (IF p \in misled THEN 1 ELSE 0)
        /\ seed # "over" => p \notin misled /\ repeats[p] = 0
    BY <1>2 DEF PinsFollow, SeedIsOnce, NoticeTypeOK
  <2>1. CASE Flips(p, top)
    <3>1. pinEvents' = Put(pinEvents, p, top)
      BY <2>1
    <3>2. p \in DOMAIN pinEvents /\ pinEvents[p] = top => p \in misled /\ repeats[p] = 0
      BY <1>2, <2>0, <2>1 DEF Flips, PinsFollow, InStep
    <3>3. /\ repeats' \in [Peers -> Nat]
          /\ \A q \in Peers : q # p => repeats'[q] = repeats[q]
          /\ repeats'[p] <= (IF p \in misled THEN 1 ELSE 0)
          /\ seed # "over" => repeats'[p] = 0
      <4>1. repeats' = [repeats EXCEPT ![p] =
                            IF p \in DOMAIN pinEvents /\ pinEvents[p] = top
                            THEN repeats[p] + 1 ELSE repeats[p]]
        BY <2>1
      <4>2. repeats \in [Peers -> Nat]
        BY DEF NoticeTypeOK
      <4> HIDE DEF HandlePinEntry, NoticeInv, p, top
      <4> QED
        BY <1>2, <2>0, <3>2, <4>1, <4>2
    <3>4. /\ pinEvents' \in Flags
          /\ DOMAIN pinEvents' = DOMAIN pinEvents \cup {p}
          /\ pinEvents'[p] = top
          /\ \A q \in DOMAIN pinEvents : q # p => pinEvents'[q] = pinEvents[q]
      <4>1. pinEvents \in Flags
        BY DEF NoticeTypeOK
      <4> HIDE DEF HandlePinEntry, NoticeInv, p, top
      <4> QED
        BY <1>2, <3>1, <4>1, PutIs
    <3>5. misled' = misled
      OBVIOUS
    <3> QED
      BY <1>4, <3>3, <3>4, <3>5 DEF PinsFollow
  <2>2. CASE ~Flips(p, top)
    <3>1. pinEvents' = pinEvents /\ repeats' = repeats /\ misled' = misled
      BY <2>2
    <3>2. p \in DOMAIN pinEvents /\ InStep(p) => pinEvents[p] = top
      BY <1>2, <2>2 DEF Flips, PinsFollow
    <3>3. DOMAIN pinEvents \subseteq DOMAIN pinState'
      BY <1>4 DEF PinsFollow
    <3>4. pinEvents \in Flags /\ repeats \in [Peers -> Nat]
      BY DEF NoticeTypeOK
    <3>5. (p \in misled => repeats'[p] = 1) => InStep(p)
      BY <3>1 DEF InStep
    <3> QED
      BY <2>0, <3>1, <3>2, <3>3, <3>4, <3>5
  <2> QED
    BY <2>1, <2>2
<1>6. NoticeTypeOK'
  <2>1. misled' \subseteq Peers
    BY <1>5 DEF NoticeTypeOK
  <2> QED
    BY <1>0, <1>4, <1>5, <2>1, FrameTaken DEF NoticeTypeOK, Frames, nativeVars, seedVars
<1>7. BuddiesFollow'
  BY <1>0, <1>1 DEF BuddiesFollow, UnderWay, nativeVars
<1>8. SeedIsOnce'
  BY <1>0, <1>5, FrameTaken DEF SeedIsOnce, seedVars
<1>9. PinsFollow'
  <2>1. ASSUME NEW q \in Peers, q \in DOMAIN pinEvents', InStep(q)'
        PROVE  \/ pinEvents'[q] <=> q \in pinned
               \/ \E j \in DOMAIN pending' : pending'[j].kind = "contact" /\ pending'[j].peer = q
    <3>1. CASE q = p
      <4>1. pinEvents'[p] = top
        BY <1>5, <2>1, <3>1 DEF InStep
      <4>2. CASE top <=> p \in pinned
        BY <3>1, <4>1, <4>2
      <4>3. CASE \E j \in DOMAIN pending : /\ j > 1 /\ pending[j].kind = "contact"
                                           /\ pending[j].peer = p
        BY <1>0, <3>1, <4>3, FrameTaken
      <4> QED
        BY <1>0, <4>2, <4>3, FrameTaken DEF FramesCatchUp
    <3>2. CASE q # p
      <4>1. q \in DOMAIN pinEvents /\ pinEvents'[q] = pinEvents[q] /\ InStep(q)
        BY <1>5, <2>1, <3>2 DEF InStep
      <4>2. CASE pinEvents[q] <=> q \in pinned
        BY <4>1, <4>2
      <4>3. CASE \E j \in DOMAIN pending : pending[j].kind = "contact" /\ pending[j].peer = q
        BY <1>0, <3>2, <4>3, FrameTaken
      <4> QED
        BY <4>1, <4>2, <4>3 DEF PinsFollow
    <3> QED
      BY <3>1, <3>2
  <2>2. ASSUME NEW q \in Peers, q \in DOMAIN pinEvents', InStep(q)'
        PROVE  pinEvents'[q] = pinState'[q]
    <3>1. CASE q = p
      BY <1>4, <1>5, <2>2, <3>1 DEF InStep
    <3>2. CASE q # p
      <4>1. q \in DOMAIN pinEvents /\ pinEvents'[q] = pinEvents[q] /\ InStep(q)
        BY <1>5, <2>2, <3>2 DEF InStep
      <4>2. q \in DOMAIN pinState /\ pinEvents[q] = pinState[q]
        BY <4>1 DEF PinsFollow
      <4> QED
        BY <1>4, <3>2, <4>1, <4>2
    <3> QED
      BY <3>1, <3>2
  <2>3. \A q \in Peers : repeats'[q] <= (IF q \in misled' THEN 1 ELSE 0)
    BY <1>5 DEF PinsFollow
  <2>4. pinned' = pinned /\ DOMAIN pinEvents' \subseteq DOMAIN pinState'
    BY <1>0, <1>5 DEF nativeVars
  <2> QED
    BY <2>1, <2>2, <2>3, <2>4 DEF PinsFollow
<1> QED
  BY <1>0, <1>6, <1>7, <1>8, <1>9, FrameTaken

LEMMA NoticeNextKeeps == NoticeInv /\ [NoticeNext]_noticeVars => NoticeInv'
<1> SUFFICES ASSUME NoticeInv, [NoticeNext]_noticeVars PROVE NoticeInv'
  OBVIOUS
<1>1. ASSUME NEW p \in Peers, FriendsChange(p) \/ PinChanges(p) \/ ContactActive(p)
      PROVE  NoticeInv'
  BY <1>1, FriendsChangeKeeps, PinKeeps
<1>2. CASE FriendsShapeless
  BY <1>2, FriendsShapelessKeeps
<1>3. CASE StartNotices
  BY <1>3, StartNoticesKeeps
<1>4. CASE OnBuddyListChange
  BY <1>4, OnBuddyListChangeKeeps
<1>5. CASE OnShapeless
  BY <1>5, OnShapelessKeeps
<1>6. CASE SeedPinWatch
  BY <1>6, SeedPinWatchKeeps
<1>7. CASE HandlePinEntry
  BY <1>7, HandlePinEntryKeeps
<1>8. CASE ReadPins
  BY <1>8, ReadPinsKeeps
<1>9. CASE UNCHANGED noticeVars
  BY <1>9 DEF noticeVars, nativeVars, buddyVars, pinVars, seedVars, NoticeInv, NoticeTypeOK,
              FramesCatchUp, BuddiesFollow, UnderWay, SeedIsOnce, PinsFollow, InStep
<1> QED
  BY <1>1, <1>2, <1>3, <1>4, <1>5, <1>6, <1>7, <1>8, <1>9 DEF NoticeNext

LEMMA NoticeInvariance == NoticeSpec => []NoticeInv
  BY NoticeInitially, NoticeNextKeeps, PTL DEF NoticeSpec

\* For any number of friends and turns, the baseline and the announcements add
\* up to the friends of the server.
THEOREM AnnouncementsAddUp == NoticeSpec => []LedgerIsFriends
<1>1. NoticeInv => LedgerIsFriends
  BY DEF NoticeInv, BuddiesFollow, LedgerIsFriends
<1> QED
  BY <1>1, NoticeInvariance, PTL

\* For any number of conversations, pin events alternate and end in the truth,
\* whenever the answer to the seed comes; where it was older than an observation,
\* they do so again after one repeated event.
THEOREM PinEventsAreTrue == NoticeSpec => []PinEventsAlternate
<1>1. ASSUME NoticeInv PROVE PinEventsAlternate
  <2>1. ASSUME NEW p \in Peers, ~UnderWay("contact"), p \in DOMAIN pinEvents, InStep(p)
        PROVE  pinEvents[p] = (p \in pinned)
    <3>1. pinEvents[p] <=> p \in pinned
      BY <1>1, <2>1 DEF NoticeInv, PinsFollow, UnderWay
    <3>2. pinEvents[p] \in BOOLEAN
      BY <1>1, <2>1, FlagsAre DEF NoticeInv, NoticeTypeOK
    <3> QED
      BY <3>1, <3>2
  <2> QED
    BY <1>1, <2>1 DEF PinEventsAlternate, NoticeInv, PinsFollow, InStep
<1> QED
  BY <1>1, NoticeInvariance, PTL

-----------------------------------------------------------------------------
(***************************************************************************)
(* The essence list. A change reaches an adapter as a push and as a        *)
(* difference of two lists, so the property is not inductive: one must     *)
(* know that an event still to come has not been counted yet. Pending      *)
(* collects the ways an event may still be broadcast - a push, a look-up   *)
(* left to do, the difference of an answer, and what the next list will    *)
(* show - and Counted says that while one of them is open the count has    *)
(* room. A refused page takes messages from the list an adapter sees and   *)
(* the next answer puts them back, so that a misread list makes room too;  *)
(* a fetch that raises an error makes none, except for what Milky has told *)
(* by its push: the next list shows it again (Open).                       *)
(***************************************************************************)

Fetching == fetches # <<>>
Answered == Fetching /\ fetches[1].answer \in {"whole", "short"}

\* The list as the last answer gave it, whether a sync has taken it or not yet
Observed == IF Answered THEN fetches[1].items ELSE known

\* What the next whole list will differ in from that
Unseen(e) ==
    /\ baseline \/ Answered
    /\ IF e.to = "set" THEN e.post \in digest \ Observed ELSE e.post \in Observed \ digest

\* A sync that fetches from now on is certain.
SyncComing ==
    \/ \E i \in DOMAIN notices : notices[i].kind = "list"
    \/ waiting > 0
    \/ Fetching /\ fetches[1].answer = "none"

PushComing(e) ==
    /\ who = "milky" /\ e.to = "set"
    /\ \E i \in DOMAIN notices : notices[i].kind = "push" /\ notices[i].post = e.post

InTodo(e) == \E i \in DOMAIN todo : todo[i] = e
InDiff(e) == Answered /\ e \in DiffEssenceList(fetches[1].items)

\* The event may still be broadcast for what has happened so far.
Pending(e) == PushComing(e) \/ InTodo(e) \/ InDiff(e) \/ Unseen(e)

\* One sync at a time; OneBot 11 keeps no keys and Milky looks nothing up.
OneSync ==
    /\ Len(fetches) <= 1
    /\ Fetching => todo = <<>>
    /\ who = "milky" => todo = <<>>
    /\ who = "onebot11" => claimed = {}

\* What is looked up is the difference the last sync found, each once.
TodoFollows ==
    /\ \A i, j \in DOMAIN todo : todo[i] = todo[j] => i = j
    /\ \A i \in DOMAIN todo : todo[i].to = "set" <=> todo[i].post \in known

PushThenList ==
    \A i \in DOMAIN notices : notices[i].kind = "push" =>
        \E j \in DOMAIN notices : j > i /\ notices[j].kind = "list"

Spare(e) == sent[e] < happened[e] + Slack(e)

\* A key keeps back what a push has told, never what only a list tells.
Open(e) == e \notin claimed \/ e.to = "unset"

Counted ==
    \A e \in Events :
        /\ sent[e] <= happened[e] + Slack(e)
        /\ Pending(e) /\ Open(e) => Spare(e)
        /\ Unseen(e) /\ ~SyncComing => Spare(e)

EssenceInv == EssenceTypeOK /\ OneSync /\ TodoFollows /\ PushThenList /\ Counted

-----------------------------------------------------------------------------
(* Lists, fetches and counts. *)

\* A finite set as a sequence: its elements, each once.
LEMMA SetToSeqIs ==
    ASSUME NEW S, IsFiniteSet(S)
    PROVE  /\ SetToSeq(S) \in Seq(S)
           /\ \A i, j \in DOMAIN SetToSeq(S) : SetToSeq(S)[i] = SetToSeq(S)[j] => i = j
<1> DEFINE n == Cardinality(S)
<1>1. n \in Nat /\ \E f : f \in Bijection(1 .. n, S)
  BY FS_CardinalityType DEF ExistsBijection
<1>2. \E f \in [1 .. n -> S] : IsInjective(f)
  BY <1>1 DEF Bijection, Injection
<1>3. SetToSeq(S) \in [1 .. n -> S] /\ IsInjective(SetToSeq(S))
  BY <1>2 DEF SetToSeq
<1> QED
  BY <1>1, <1>3 DEF IsInjective

LEMMA EventsOfAreFinite ==
    ASSUME NEW P \in SUBSET Posts, NEW d
    PROVE  IsFiniteSet({Event(p, d) : p \in P})
<1>1. PICK T, f : T = {Event(p, d) : p \in P} /\ f = [p \in P |-> Event(p, d)]
  OBVIOUS
<1>2. IsFiniteSet(P)
  BY FS_Subset, EssenceAssumption
<1>3. f \in Surjection(P, T)
  BY <1>1 DEF Surjection
<1>4. IsFiniteSet(T)
  BY <1>2, <1>3, FS_Surjection
<1> QED
  BY <1>1, <1>4

LEMMA DiffIs ==
    ASSUME EssenceTypeOK, NEW items \in SUBSET Posts
    PROVE  /\ IsFiniteSet(DiffEssenceList(items))
           /\ DiffEssenceList(items) \subseteq Events
           /\ \A e \in DiffEssenceList(items) :
                  /\ baseline
                  /\ e.to = "set" => e.post \in items \ known
                  /\ e.to # "set" => e.post \in known \ items
<1>1. PICK A, B : /\ A = {Event(p, "set") : p \in items \ known}
                  /\ B = {Event(p, "unset") : p \in known \ items}
  OBVIOUS
<1>2. IsFiniteSet(A \cup B) /\ IsFiniteSet({})
  <2>1. IsFiniteSet(A) /\ IsFiniteSet(B) /\ IsFiniteSet({})
    BY <1>1, EventsOfAreFinite, FS_EmptySet DEF EssenceTypeOK
  <2> QED
    BY <2>1, FS_Union
<1>3. A \cup B \subseteq Events
  BY <1>1 DEF Event, Events, Directions, EssenceTypeOK
<1>4. ASSUME NEW e \in A \cup B
      PROVE  /\ e.to = "set" => e.post \in items \ known
             /\ e.to # "set" => e.post \in known \ items
  BY <1>1 DEF Event
<1>5. CASE baseline
  <2>1. DiffEssenceList(items) = A \cup B
    BY <1>1, <1>5 DEF DiffEssenceList
  <2> QED
    BY <1>2, <1>3, <1>4, <1>5, <2>1
<1>6. CASE ~baseline
  <2>1. DiffEssenceList(items) = {}
    BY <1>6 DEF DiffEssenceList
  <2> QED
    BY <1>2, <2>1
<1> QED
  BY <1>5, <1>6

Fetches == [answer : {"none", "whole", "short", "error"}, items : SUBSET Posts]
EssenceNotices == [kind : {"push", "list"}, post : Posts]

LEMMA FetchIs ==
    ASSUME EssenceTypeOK, OneSync
    PROVE  /\ ~Fetching => DOMAIN fetches = {} /\ fetches = <<>>
           /\ Fetching => /\ DOMAIN fetches = {1} /\ Len(fetches) = 1 /\ todo = <<>>
                          /\ fetches[1] \in Fetches /\ fetches[1].items \subseteq Posts
                          /\ fetches[1].answer \in {"none", "whole", "short", "error"}
<1>1. fetches \in Seq(Fetches) /\ Len(fetches) <= 1
  BY DEF EssenceTypeOK, Fetches, OneSync
<1>2. Fetching => DOMAIN fetches = {1} /\ Len(fetches) = 1 /\ fetches[1] \in Fetches
  <2>1. Len(fetches) \in Nat /\ DOMAIN fetches = 1 .. Len(fetches)
    BY <1>1
  <2>2. Fetching => Len(fetches) # 0
    BY <1>1 DEF Fetching
  <2>3. Fetching => Len(fetches) = 1
    BY <1>1, <2>1, <2>2
  <2>4. \A i \in DOMAIN fetches : fetches[i] \in Fetches
    BY <1>1
  <2> QED
    BY <2>1, <2>3, <2>4
<1>3. \A f \in Fetches : f.items \subseteq Posts /\ f.answer \in {"none", "whole", "short", "error"}
  BY DEF Fetches
<1> QED
  BY <1>1, <1>2, <1>3 DEF Fetching, OneSync

LEMMA CountsAre ==
    ASSUME EssenceTypeOK, NEW e \in Events
    PROVE  /\ sent[e] \in Nat /\ happened[e] \in Nat /\ misread \in Nat /\ failed \in Nat
           /\ Slack(e) \in Nat
           /\ e.post \in Posts /\ e.to \in {"set", "unset"} /\ e = Event(e.post, e.to)
<1>1. sent[e] \in Nat /\ happened[e] \in Nat
  BY DEF EssenceTypeOK
<1>2. misread \in Nat /\ failed \in Nat /\ Slack(e) \in Nat
  BY EssenceAssumption DEF EssenceTypeOK, Slack
<1>3. e.post \in Posts /\ e.to \in {"set", "unset"} /\ e = Event(e.post, e.to)
  BY DEF Events, Event, Directions
<1> QED
  BY <1>1, <1>2, <1>3

LEMMA EssenceInitially == EssenceInit => EssenceInv
<1> SUFFICES ASSUME EssenceInit PROVE EssenceInv
  OBVIOUS
<1>1. EssenceTypeOK
  <2>1. happened \in [Events -> Nat] /\ sent \in [Events -> Nat]
    BY DEF EssenceInit
  <2>2. misread \in 0 .. MaxMisread /\ failed \in 0 .. MaxFailed /\ waiting \in Nat
    BY EssenceAssumption DEF EssenceInit
  <2>3. /\ notices = <<>> /\ fetches = <<>> /\ todo = <<>> /\ baseline = FALSE
        /\ known = {} /\ claimed = {} /\ skipped = {}
        /\ who \in {"onebot11", "milky"} /\ digest \subseteq Posts
    BY DEF EssenceInit
  <2> HIDE DEF EssenceInit
  <2>4. /\ notices \in Seq([kind : {"push", "list"}, post : Posts])
        /\ fetches \in Seq([answer : {"none", "whole", "short", "error"}, items : SUBSET Posts])
        /\ todo \in Seq(Events)
    BY <2>3
  <2>5. known \subseteq Posts /\ claimed \subseteq Events /\ skipped \subseteq Posts /\ baseline \in BOOLEAN
    BY <2>3
  <2> QED
    BY <2>1, <2>2, <2>3, <2>4, <2>5 DEF EssenceTypeOK
<1>2. OneSync /\ TodoFollows /\ PushThenList
  BY DEF EssenceInit, OneSync, Fetching, TodoFollows, PushThenList
<1>3. Counted
  <2>1. EssenceTypeOK /\ \A e \in Events : sent[e] = 0 /\ ~Pending(e) /\ ~Unseen(e)
    BY <1>1 DEF EssenceInit, Pending, PushComing, InTodo, InDiff, Unseen, Answered, Fetching
  <2> QED
    BY <2>1, CountsAre DEF Counted
<1> QED
  BY <1>1, <1>2, <1>3 DEF EssenceInv

-----------------------------------------------------------------------------
(* The server. *)

\* A change queues its push, if it has one, and then its callback.
Announced(p, d) ==
    notices' = notices \o (IF d = "set" THEN <<[kind |-> "push", post |-> p]>> ELSE <<>>)
                       \o <<[kind |-> "list", post |-> p]>>

CallbackIsLast ==
    \E k \in DOMAIN notices' : notices'[k].kind = "list" /\ \A i \in DOMAIN notices' : i <= k

OldOrAnnounced(i, p, d) ==
    \/ i \in DOMAIN notices /\ notices'[i] = notices[i]
    \/ notices'[i].kind = "list"
    \/ d = "set" /\ notices'[i].kind = "push" /\ notices'[i].post = p

LEMMA NoticesAdded ==
    ASSUME EssenceTypeOK, NEW p \in Posts, NEW d \in {"set", "unset"}, Announced(p, d)
    PROVE  /\ notices' \in Seq(EssenceNotices)
           /\ CallbackIsLast
           /\ \A i \in DOMAIN notices' : OldOrAnnounced(i, p, d)
<1> USE DEF Announced, CallbackIsLast, OldOrAnnounced
<1>1. PICK push, list : push = [kind |-> "push", post |-> p] /\ list = [kind |-> "list", post |-> p]
  OBVIOUS
<1>2. /\ push \in EssenceNotices /\ push.kind = "push" /\ push.post = p
      /\ list \in EssenceNotices /\ list.kind = "list"
  BY <1>1 DEF EssenceNotices
<1>3. notices \in Seq(EssenceNotices)
  BY DEF EssenceTypeOK, EssenceNotices
<1>4. CASE d = "set"
  <2>1. notices' = notices \o <<push>> \o <<list>>
    BY <1>1, <1>4
  <2> QED
    BY <1>2, <1>3, <1>4, <2>1
<1>5. CASE d = "unset"
  <2>1. notices' = notices \o <<list>>
    BY <1>1, <1>3, <1>5
  <2>2. PICK n : n = Len(notices) /\ n \in Nat /\ DOMAIN notices = 1 .. n
    BY <1>3
  <2>3. /\ notices' \in Seq(EssenceNotices) /\ DOMAIN notices' = 1 .. n + 1
        /\ \A i \in 1 .. n : notices'[i] = notices[i]
        /\ notices'[n + 1] = list
    <3>1. PICK q : q = notices \o <<list>>
      OBVIOUS
    <3>2. /\ q \in Seq(EssenceNotices) /\ DOMAIN q = 1 .. Len(notices) + 1
          /\ \A i \in 1 .. Len(notices) : q[i] = notices[i]
          /\ q[Len(notices) + 1] = list
      BY <1>2, <1>3, <3>1, Queued
    <3> QED
      BY <2>1, <2>2, <3>1, <3>2
  <2>4. n + 1 \in DOMAIN notices' /\ \A i \in DOMAIN notices' : i <= n + 1 /\ (i = n + 1 \/ i \in 1 .. n)
    BY <2>2, <2>3
  <2> QED
    BY <1>2, <2>2, <2>3, <2>4
<1> QED
  BY <1>4, <1>5

LEMMA ListChangesKeeps ==
    ASSUME EssenceInv, NEW p \in Posts, ListChanges(p) PROVE EssenceInv'
<1> USE DEF EssenceInv, faultVars, Slack
<1>1. PICK d : d = IF p \in digest THEN "unset" ELSE "set"
  OBVIOUS
<1>2. /\ d \in {"set", "unset"} /\ (d = "set" <=> p \notin digest)
      /\ digest' = IF d = "set" THEN digest \cup {p} ELSE digest \ {p}
      /\ happened' = [happened EXCEPT ![Event(p, d)] = @ + 1]
      /\ notices' = notices \o (IF d = "set" THEN <<[kind |-> "push", post |-> p]>> ELSE <<>>)
                            \o <<[kind |-> "list", post |-> p]>>
      /\ UNCHANGED <<who, syncVars, outVars, misread, failed>>
  BY <1>1 DEF ListChanges
<1>3. UNCHANGED <<who, waiting, fetches, known, baseline, todo, claimed, sent, skipped, misread, failed>>
  BY <1>2 DEF syncVars, outVars
<1>4. /\ notices' \in Seq(EssenceNotices)
      /\ CallbackIsLast
      /\ \A i \in DOMAIN notices' : OldOrAnnounced(i, p, d)
  <2>1. EssenceTypeOK
    OBVIOUS
  <2>2. d \in {"set", "unset"} /\ Announced(p, d)
    BY <1>2 DEF Announced
  <2> QED
    BY <2>1, <2>2, NoticesAdded
<1>5. EssenceTypeOK'
  <2>1. Event(p, d) \in Events
    BY <1>2 DEF Event, Events, Directions
  <2>2. happened' \in [Events -> Nat]
    BY <1>2, <2>1 DEF EssenceTypeOK
  <2>3. digest' \subseteq Posts
    BY <1>2 DEF EssenceTypeOK
  <2> QED
    BY <1>3, <1>4, <2>2, <2>3 DEF EssenceTypeOK, EssenceNotices
<1>6. OneSync' /\ TodoFollows'
  BY <1>3 DEF OneSync, TodoFollows, Fetching
<1>7. PushThenList'
  <2>1. PICK k \in DOMAIN notices' : notices'[k].kind = "list" /\ \A i \in DOMAIN notices' : i <= k
    BY <1>4 DEF CallbackIsLast
  <2>2. \A i \in DOMAIN notices' : i \in Nat
    BY <1>4
  <2>3. \A i \in DOMAIN notices' : notices'[i].kind = "push" => k > i
    BY <2>1, <2>2
  <2> QED
    BY <2>1, <2>3 DEF PushThenList
<1>8. ASSUME NEW e \in Events
      PROVE  /\ sent'[e] <= happened'[e] + Slack(e)'
             /\ Pending(e)' /\ Open(e)' => Spare(e)'
             /\ Unseen(e)' /\ ~SyncComing' => Spare(e)'
  <2>1. SyncComing'
    BY <1>4 DEF SyncComing, CallbackIsLast
  <2>2. CASE e = Event(p, d)
    <3>1. happened'[e] = happened[e] + 1
      BY <1>2, <2>2 DEF EssenceTypeOK
    <3>2. sent[e] <= happened[e] + Slack(e)
      BY DEF Counted, Open
    <3> QED
      BY <1>3, <3>1, <3>2, CountsAre DEF Spare
  <2>3. CASE e # Event(p, d)
    <3>1. happened'[e] = happened[e]
      BY <1>2, <2>3 DEF EssenceTypeOK
    <3>2. e.post # p \/ e.to # d
      BY <2>3, CountsAre
    <3>3. Unseen(e)' => Unseen(e)
      <4>1. Observed' = Observed /\ Answered' = Answered
        BY <1>3 DEF Observed, Answered, Fetching
      <4>2. CASE e.post # p
        BY <1>2, <1>3, <4>1, <4>2 DEF Unseen
      <4>3. CASE e.post = p
        BY <1>2, <3>2, <4>3, CountsAre DEF Unseen
      <4> QED
        BY <4>2, <4>3
    <3>4. PushComing(e)' => PushComing(e)
      <4>1. \A i \in DOMAIN notices' : notices'[i].kind = "push" /\ notices'[i].post = e.post /\ e.to = "set" =>
                i \in DOMAIN notices /\ notices'[i] = notices[i]
        BY <1>4, <3>2 DEF OldOrAnnounced
      <4> QED
        BY <1>3, <4>1 DEF PushComing
    <3>5. InTodo(e)' = InTodo(e) /\ InDiff(e)' = InDiff(e)
      BY <1>3 DEF InTodo, InDiff, Answered, Fetching, DiffEssenceList
    <3>6. Spare(e) => Spare(e)'
      BY <1>3, <3>1 DEF Spare
    <3>7. sent'[e] <= happened'[e] + Slack(e)'
      BY <1>3, <3>1 DEF Counted, Open
    <3> QED
      BY <1>3, <2>1, <3>3, <3>4, <3>5, <3>6, <3>7 DEF Counted, Pending, Open
  <2> QED
    BY <2>2, <2>3
<1> QED
  BY <1>5, <1>6, <1>7, <1>8 DEF Counted, Open

LEMMA FetchAnsweredKeeps ==
    ASSUME EssenceInv, NEW i \in DOMAIN fetches, FetchAnswered(i) PROVE EssenceInv'
<1> USE DEF EssenceInv, faultVars, Slack
<1>1. i = 1 /\ Fetching /\ Len(fetches) = 1 /\ todo = <<>> /\ fetches[1].answer = "none"
  BY FetchIs DEF FetchAnswered
<1>2. ~Answered /\ Observed = known
  BY <1>1 DEF Answered, Observed
<1>3. /\ UNCHANGED <<who, digest, happened, notices, waiting, known, baseline, todo, claimed, sent, skipped>>
      /\ \/ /\ fetches' = [fetches EXCEPT ![1] = [answer |-> "whole", items |-> digest]]
            /\ UNCHANGED <<misread, failed>>
         \/ /\ failed < MaxFailed /\ failed' = failed + 1 /\ misread' = misread
            /\ fetches' = [fetches EXCEPT ![1] = [fetches[1] EXCEPT !.answer = "error"]]
         \/ /\ misread < MaxMisread /\ misread' = misread + 1 /\ failed' = failed
            /\ \E items \in SUBSET (fetches[1].items \cup digest) :
                   fetches' = [fetches EXCEPT ![1] = [answer |-> "short", items |-> items]]
  BY <1>1 DEF FetchAnswered, listVars, outVars
<1>4. PICK f \in Fetches : fetches' = [fetches EXCEPT ![1] = f]
  <2>1. digest \subseteq Posts /\ fetches[1] \in Fetches /\ fetches[1].items \subseteq Posts
    BY <1>1, FetchIs DEF EssenceTypeOK
  <2> QED
    BY <1>3, <2>1 DEF Fetches
<1>5. /\ fetches' \in Seq(Fetches) /\ Len(fetches') = 1 /\ fetches'[1] = f /\ fetches' # <<>>
  <2>1. fetches \in Seq(Fetches)
    BY DEF EssenceTypeOK, Fetches
  <2> QED
    BY <1>1, <1>4, <2>1
<1>6. EssenceTypeOK'
  <2>1. misread' \in 0 .. MaxMisread /\ failed' \in 0 .. MaxFailed
    BY <1>3, EssenceAssumption DEF EssenceTypeOK
  <2> QED
    BY <1>3, <1>5, <2>1 DEF EssenceTypeOK, Fetches
<1>7. OneSync' /\ TodoFollows' /\ PushThenList'
  BY <1>1, <1>3, <1>5 DEF OneSync, TodoFollows, PushThenList
<1>8. ASSUME NEW e \in Events
      PROVE  /\ sent'[e] <= happened'[e] + Slack(e)'
             /\ Pending(e)' /\ Open(e)' => Spare(e)'
             /\ Unseen(e)' /\ ~SyncComing' => Spare(e)'
  <2>1. sent[e] <= happened[e] + Slack(e)
    BY DEF Counted, Open
  <2>2. CASE misread' = misread + 1 /\ failed' = failed
    BY <1>3, <2>1, <2>2, CountsAre DEF Spare
  <2>3. CASE fetches' = [fetches EXCEPT ![1] = [answer |-> "whole", items |-> digest]]
             /\ UNCHANGED <<misread, failed>>
    <3>1. fetches'[1] = [answer |-> "whole", items |-> digest]
      BY <1>1, <2>3, FetchIs
    <3>2. Answered' /\ Observed' = digest'
      BY <1>3, <1>5, <3>1 DEF Answered, Observed, Fetching
    <3>3. ~Unseen(e)'
      BY <3>2 DEF Unseen
    <3>4. InDiff(e)' => Unseen(e)
      <4>1. DiffEssenceList(digest)' = DiffEssenceList(digest) /\ digest \in SUBSET Posts
        BY <1>3 DEF DiffEssenceList, EssenceTypeOK
      <4>2. e \in DiffEssenceList(digest) => Unseen(e)
        BY <1>2, <4>1, DiffIs DEF Unseen
      <4> QED
        BY <1>3, <3>1, <4>1, <4>2 DEF InDiff
    <3>5. (PushComing(e)' => PushComing(e)) /\ (InTodo(e)' => InTodo(e))
      BY <1>3 DEF PushComing, InTodo
    <3>6. Pending(e)' => Pending(e)
      BY <3>3, <3>4, <3>5 DEF Pending
    <3> QED
      BY <1>3, <2>1, <2>3, <3>3, <3>6 DEF Counted, Spare, Open
  <2>4. CASE /\ fetches' = [fetches EXCEPT ![1] = [fetches[1] EXCEPT !.answer = "error"]]
             /\ misread' = misread /\ failed' = failed + 1
    <3>1. fetches'[1].answer = "error"
      BY <1>1, <2>4, FetchIs DEF Fetches
    <3>2. ~Answered' /\ Observed' = known
      BY <1>3, <3>1 DEF Answered, Observed
    <3>3. Unseen(e)' <=> Unseen(e)
      BY <1>2, <1>3, <3>2 DEF Unseen
    <3>4. ~InDiff(e)' /\ (PushComing(e)' => PushComing(e)) /\ (InTodo(e)' => InTodo(e))
      BY <1>3, <3>2 DEF InDiff, PushComing, InTodo
    <3>5. /\ Spare(e) => Spare(e)'
          /\ who = "milky" /\ e.to = "set" => Spare(e)'
          /\ sent'[e] <= happened'[e] + Slack(e)'
      BY <1>3, <2>1, <2>4, CountsAre DEF Spare
    <3>6. Pending(e)' => Pending(e)
      BY <3>3, <3>4 DEF Pending
    <3>7. Pending(e) => Spare(e)'
      <4>1. CASE who = "milky" /\ e.to = "set"
        BY <3>5, <4>1
      <4>2. CASE ~(who = "milky" /\ e.to = "set")
        <5>1. Open(e)
          BY <4>2, CountsAre DEF Open, OneSync, EssenceTypeOK
        <5> QED
          BY <3>5, <5>1 DEF Counted
      <4> QED
        BY <4>1, <4>2
    <3> QED
      BY <3>3, <3>5, <3>6, <3>7 DEF Pending
  <2> QED
    BY <1>3, <2>2, <2>3, <2>4
<1> QED
  BY <1>6, <1>7, <1>8 DEF Counted

LEMMA KeyExpiresKeeps ==
    ASSUME EssenceInv, NEW k \in Events, KeyExpires(k) PROVE EssenceInv'
<1> USE DEF EssenceInv, faultVars, Slack
<1>1. /\ k \in claimed /\ notices = <<>> /\ fetches = <<>> /\ waiting = 0 /\ todo = <<>>
      /\ claimed' = claimed \ {k}
      /\ UNCHANGED <<who, digest, happened, notices, waiting, fetches, known, baseline, todo, sent,
                     skipped, misread, failed>>
  BY DEF KeyExpires, Busy, listVars, syncVars, EssenceTypeOK
<1>2. EssenceTypeOK'
  BY <1>1 DEF EssenceTypeOK
<1>3. OneSync' /\ TodoFollows' /\ PushThenList'
  BY <1>1 DEF OneSync, TodoFollows, PushThenList, Fetching
<1>4. ASSUME NEW e \in Events
      PROVE  /\ (Spare(e)' <=> Spare(e)) /\ (Unseen(e)' <=> Unseen(e)) /\ (SyncComing' <=> SyncComing)
             /\ Pending(e)' => Unseen(e) /\ ~SyncComing
  <2>1. (Spare(e)' <=> Spare(e)) /\ (Unseen(e)' <=> Unseen(e)) /\ (SyncComing' <=> SyncComing)
    BY <1>1 DEF Spare, Unseen, Observed, Answered, Fetching, SyncComing
  <2>2. ~PushComing(e)' /\ ~InTodo(e)' /\ ~InDiff(e)' /\ ~SyncComing
    BY <1>1 DEF PushComing, InTodo, InDiff, Answered, Fetching, SyncComing
  <2> QED
    BY <2>1, <2>2 DEF Pending
<1>5. Counted'
  BY <1>1, <1>4 DEF Counted, Open
<1> QED
  BY <1>2, <1>3, <1>5

-----------------------------------------------------------------------------
(* The handlers. *)

LEMMA TailIs ==
    ASSUME NEW S, NEW q \in Seq(S), q # <<>>
    PROVE  /\ Head(q) \in S /\ Head(q) = q[1] /\ 1 \in DOMAIN q
           /\ Tail(q) \in Seq(S)
           /\ \A i \in DOMAIN Tail(q) : /\ i \in Nat /\ i + 1 \in DOMAIN q
                                        /\ Tail(q)[i] = q[i + 1]
           /\ \A i \in DOMAIN q : i \in Nat /\ (i > 1 => i - 1 \in DOMAIN Tail(q))
<1>1. PICK n : n = Len(q) /\ n \in Nat /\ n # 0 /\ DOMAIN q = 1 .. n
  OBVIOUS
<1>2. /\ Tail(q) \in Seq(S) /\ DOMAIN Tail(q) = 1 .. n - 1
      /\ \A i \in 1 .. n - 1 : Tail(q)[i] = q[i + 1]
  BY <1>1
<1>3. Head(q) \in S /\ Head(q) = q[1]
  BY <1>1
<1> QED
  BY <1>1, <1>2, <1>3

\* What is left after a push announces its callback, which starts a sync.
LEMMA NoticeTaken ==
    ASSUME EssenceTypeOK, PushThenList, notices # <<>>, notices' = Tail(notices)
    PROVE  /\ Head(notices) \in EssenceNotices
           /\ notices' \in Seq(EssenceNotices)
           /\ PushThenList'
           /\ \E j \in DOMAIN notices : notices[j] = Head(notices)
           /\ \A i \in DOMAIN notices' : \E j \in DOMAIN notices : notices[j] = notices'[i]
           /\ Head(notices).kind = "push" => \E i \in DOMAIN notices' : notices'[i].kind = "list"
<1>1. notices \in Seq(EssenceNotices)
  BY DEF EssenceTypeOK, EssenceNotices
<1>2. PICK q, h : q = Tail(notices) /\ h = Head(notices)
  OBVIOUS
<1>3. /\ h \in EssenceNotices /\ h = notices[1] /\ 1 \in DOMAIN notices
      /\ q \in Seq(EssenceNotices)
      /\ \A i \in DOMAIN q : i \in Nat /\ i + 1 \in DOMAIN notices /\ q[i] = notices[i + 1]
      /\ \A i \in DOMAIN notices : i \in Nat /\ (i > 1 => i - 1 \in DOMAIN q)
  BY <1>1, <1>2, TailIs
<1>4. ASSUME NEW i \in DOMAIN q, q[i].kind = "push"
      PROVE  \E j \in DOMAIN q : j > i /\ q[j].kind = "list"
  <2>1. PICK j \in DOMAIN notices : j > i + 1 /\ notices[j].kind = "list"
    BY <1>3, <1>4 DEF PushThenList
  <2>2. j - 1 \in DOMAIN q /\ i \in Nat /\ j \in Nat
    BY <1>3, <2>1
  <2>3. q[j - 1] = notices[j] /\ j - 1 > i
    BY <1>3, <2>1, <2>2
  <2> QED
    BY <2>1, <2>2, <2>3
<1>5. h.kind = "push" => \E i \in DOMAIN q : q[i].kind = "list"
  <2> SUFFICES ASSUME h.kind = "push" PROVE \E i \in DOMAIN q : q[i].kind = "list"
    OBVIOUS
  <2>1. PICK j \in DOMAIN notices : j > 1 /\ notices[j].kind = "list"
    BY <1>3 DEF PushThenList
  <2>2. j - 1 \in DOMAIN q /\ j \in Nat
    BY <1>3, <2>1
  <2>3. q[j - 1] = notices[j]
    BY <1>3, <2>2
  <2> QED
    BY <2>1, <2>2, <2>3
<1>6. PushThenList'
  BY <1>2, <1>4 DEF PushThenList
<1> QED
  BY <1>2, <1>3, <1>5, <1>6

\* What is broadcast may be when it is spare or claimed.
LEMMA BroadcastIs ==
    ASSUME EssenceTypeOK, NEW X \in SUBSET Events, Broadcast(X),
           UNCHANGED <<who, happened, misread, failed>>,
           \A e \in Events : /\ sent[e] <= happened[e] + Slack(e)
                             /\ e \in X /\ e \notin claimed => Spare(e)
    PROVE  /\ sent' \in [Events -> Nat]
           /\ claimed' \subseteq Events
           /\ who = "milky" => claimed' = claimed \cup X
           /\ who # "milky" => claimed' = claimed
           /\ \A e \in Events : /\ sent'[e] <= happened'[e] + Slack(e)'
                                /\ e \notin X => sent'[e] = sent[e]
<1>1. /\ sent' = [e \in Events |-> sent[e] + IF e \in X \ claimed THEN 1 ELSE 0]
      /\ claimed' = claimed \cup (IF who = "milky" THEN X ELSE {})
      /\ happened' = happened /\ \A e : Slack(e)' = Slack(e)
  BY DEF Broadcast, Slack
<1>2. sent' \in [Events -> Nat]
  BY <1>1 DEF EssenceTypeOK
<1>3. claimed \subseteq Events
  BY DEF EssenceTypeOK
<1>4. ASSUME NEW e \in Events
      PROVE  /\ sent'[e] <= happened'[e] + Slack(e)'
             /\ e \notin X => sent'[e] = sent[e]
  <2>1. sent'[e] = sent[e] + IF e \in X \ claimed THEN 1 ELSE 0
    BY <1>1
  <2>2. sent[e] \in Nat /\ happened[e] \in Nat /\ Slack(e) \in Nat
    BY CountsAre
  <2> QED
    BY <1>1, <2>1, <2>2 DEF Spare
<1> QED
  BY <1>1, <1>2, <1>3, <1>4

LEMMA OnPushKeeps ==
    ASSUME EssenceInv, OnPush PROVE EssenceInv'
<1> USE DEF EssenceInv, faultVars, Slack
<1>1. PICK p, e0 : p = Head(notices).post /\ e0 = Event(p, "set")
  OBVIOUS
<1>2. /\ notices # <<>> /\ Head(notices).kind = "push" /\ notices' = Tail(notices)
      /\ IF who = "milky"
         THEN Broadcast({e0}) /\ UNCHANGED waiting
         ELSE waiting' = waiting + 1 /\ UNCHANGED <<sent, claimed>>
      /\ UNCHANGED <<who, digest, happened, fetches, known, baseline, todo, skipped, misread, failed>>
  BY <1>1 DEF OnPush, EnqueueEssenceSync, listVars
<1>3. /\ Head(notices) \in EssenceNotices
      /\ notices' \in Seq(EssenceNotices)
      /\ PushThenList'
      /\ \E j \in DOMAIN notices : notices[j] = Head(notices)
      /\ \A i \in DOMAIN notices' : \E j \in DOMAIN notices : notices[j] = notices'[i]
      /\ \E i \in DOMAIN notices' : notices'[i].kind = "list"
  BY <1>2, NoticeTaken
<1>4. e0 \in Events /\ e0.post = p /\ e0.to = "set"
  BY <1>1, <1>3 DEF Event, Events, EssenceNotices, Directions
<1>5. SyncComing'
  BY <1>3 DEF SyncComing
<1>6. waiting' \in Nat
  BY <1>2 DEF EssenceTypeOK
<1>7. ASSUME NEW e \in Events PROVE Pending(e)' => Pending(e)
  <2>1. PushComing(e)' => PushComing(e)
    BY <1>2, <1>3 DEF PushComing
  <2>2. /\ InTodo(e)' = InTodo(e) /\ InDiff(e)' = InDiff(e) /\ Unseen(e)' = Unseen(e)
    BY <1>2 DEF InTodo, InDiff, Answered, Fetching, DiffEssenceList, Unseen, Observed
  <2> QED
    BY <2>1, <2>2 DEF Pending
<1>8. /\ sent' \in [Events -> Nat] /\ claimed' \subseteq Events
      /\ who = "onebot11" => claimed' = claimed
      /\ \A e \in Events : /\ sent'[e] <= happened'[e] + Slack(e)'
                           /\ Open(e)' => Open(e) /\ sent'[e] = sent[e]
  <2>1. CASE who = "milky"
    <3>1. PushComing(e0)
      BY <1>1, <1>2, <1>3, <1>4, <2>1 DEF PushComing
    <3>2. Pending(e0)
      BY <3>1 DEF Pending
    <3>3. /\ sent' \in [Events -> Nat]
          /\ claimed' = claimed \cup {e0}
          /\ \A e \in Events : /\ sent'[e] <= happened'[e] + Slack(e)'
                               /\ e \notin {e0} => sent'[e] = sent[e]
      <4>1. PICK X : X = {e0}
        OBVIOUS
      <4>2. X \in SUBSET Events /\ Broadcast(X) /\ UNCHANGED <<who, happened, misread, failed>>
        BY <1>2, <1>4, <2>1, <4>1
      <4>3. \A e \in Events : /\ sent[e] <= happened[e] + Slack(e)
                              /\ e \in X /\ e \notin claimed => Spare(e)
        BY <3>2, <4>1 DEF Counted, Open
      <4>4. EssenceTypeOK
        OBVIOUS
      <4> HIDE DEF EssenceInv
      <4> QED
        BY <2>1, <4>1, <4>2, <4>3, <4>4, BroadcastIs
    <3>4. claimed \subseteq Events
      BY DEF EssenceTypeOK
    <3> QED
      BY <1>4, <2>1, <3>3, <3>4 DEF Open
  <2>2. CASE who # "milky"
    <3>1. sent' = sent /\ claimed' = claimed
      BY <1>2, <2>2
    <3> QED
      BY <1>2, <3>1 DEF Counted, Open, EssenceTypeOK
  <2> QED
    BY <2>1, <2>2
<1>9. EssenceTypeOK'
  BY <1>2, <1>3, <1>6, <1>8 DEF EssenceTypeOK, EssenceNotices
<1>10. OneSync' /\ TodoFollows'
  BY <1>2, <1>8 DEF OneSync, TodoFollows, Fetching
<1>11. Counted'
  BY <1>2, <1>5, <1>7, <1>8 DEF Counted, Spare, Open
<1> QED
  BY <1>3, <1>9, <1>10, <1>11

LEMMA HandleEssenceChangeKeeps ==
    ASSUME EssenceInv, HandleEssenceChange PROVE EssenceInv'
<1> USE DEF EssenceInv, faultVars, Slack
<1>1. /\ notices # <<>> /\ notices' = Tail(notices) /\ waiting' = waiting + 1
      /\ UNCHANGED <<who, digest, happened, fetches, known, baseline, todo, claimed, sent, skipped,
                     misread, failed>>
  BY DEF HandleEssenceChange, EnqueueEssenceSync, listVars, outVars
<1>2. /\ notices' \in Seq(EssenceNotices)
      /\ PushThenList'
      /\ \A i \in DOMAIN notices' : \E j \in DOMAIN notices : notices[j] = notices'[i]
  BY <1>1, NoticeTaken
<1>3. waiting \in Nat
  BY DEF EssenceTypeOK
<1>4. waiting' \in Nat /\ SyncComing'
  BY <1>1, <1>3 DEF SyncComing
<1>5. EssenceTypeOK'
  BY <1>1, <1>2, <1>4 DEF EssenceTypeOK, EssenceNotices
<1>6. OneSync' /\ TodoFollows'
  BY <1>1 DEF OneSync, TodoFollows, Fetching
<1>7. ASSUME NEW e \in Events PROVE Pending(e)' => Pending(e)
  <2>1. PushComing(e)' => PushComing(e)
    BY <1>1, <1>2 DEF PushComing
  <2>2. InTodo(e)' = InTodo(e) /\ InDiff(e)' = InDiff(e) /\ Unseen(e)' = Unseen(e)
    BY <1>1 DEF InTodo, InDiff, Answered, Fetching, DiffEssenceList, Unseen, Observed
  <2> QED
    BY <2>1, <2>2 DEF Pending
<1>8. Counted'
  BY <1>1, <1>4, <1>7 DEF Counted, Spare, Open
<1> QED
  BY <1>2, <1>5, <1>6, <1>8

LEMMA StartSyncKeeps ==
    ASSUME EssenceInv, StartSync PROVE EssenceInv'
<1> USE DEF EssenceInv, faultVars, Slack
<1>1. /\ waiting > 0 /\ fetches = <<>> /\ todo = <<>> /\ waiting' = waiting - 1
      /\ fetches' = <<[answer |-> "none", items |-> digest]>>
      /\ UNCHANGED <<who, digest, happened, notices, known, baseline, todo, claimed, sent, skipped,
                     misread, failed>>
  BY DEF StartSync, ChainFree, listVars, outVars
<1>2. /\ fetches' \in Seq(Fetches) /\ Len(fetches') = 1 /\ fetches' # <<>>
      /\ fetches'[1].answer = "none"
  BY <1>1 DEF Fetches, EssenceTypeOK
<1>3. EssenceTypeOK'
  <2>1. waiting' \in Nat
    BY <1>1 DEF EssenceTypeOK
  <2> QED
    BY <1>1, <1>2, <2>1 DEF EssenceTypeOK, Fetches
<1>4. OneSync' /\ TodoFollows' /\ PushThenList'
  BY <1>1, <1>2 DEF OneSync, TodoFollows, PushThenList
<1>5. ~Answered /\ ~Answered' /\ SyncComing'
  BY <1>1, <1>2 DEF Answered, Fetching, SyncComing
<1>6. ASSUME NEW e \in Events PROVE Pending(e)' => Pending(e)
  <2>1. PushComing(e)' = PushComing(e) /\ InTodo(e)' = InTodo(e)
    BY <1>1 DEF PushComing, InTodo
  <2>2. ~InDiff(e)'
    BY <1>5 DEF InDiff
  <2>3. Unseen(e)' => Unseen(e)
    BY <1>1, <1>5 DEF Unseen, Observed
  <2> QED
    BY <2>1, <2>2, <2>3 DEF Pending
<1>7. Counted'
  BY <1>1, <1>5, <1>6 DEF Counted, Spare, Open
<1> QED
  BY <1>3, <1>4, <1>7

LEMMA SyncEssenceListKeeps ==
    ASSUME EssenceInv, NEW i \in DOMAIN fetches, SyncEssenceList(i) PROVE EssenceInv'
<1> USE DEF EssenceInv, faultVars, Slack
<1>1. i = 1 /\ Fetching /\ Len(fetches) = 1 /\ todo = <<>>
  BY FetchIs
<1>2. PICK f, diff : f = fetches[1] /\ diff = DiffEssenceList(f.items)
  OBVIOUS
<1>3. /\ f.answer # "none"
      /\ fetches' = RemoveAt(fetches, 1)
      /\ IF f.answer = "error"
         THEN UNCHANGED <<known, baseline, todo, sent, claimed>>
         ELSE /\ known' = f.items /\ baseline' = TRUE
              /\ IF who = "milky"
                 THEN Broadcast(diff) /\ UNCHANGED todo
                 ELSE todo' = todo \o SetToSeq(diff) /\ UNCHANGED <<sent, claimed>>
      /\ UNCHANGED <<who, digest, happened, notices, waiting, skipped, misread, failed>>
  BY <1>1, <1>2 DEF SyncEssenceList, listVars
<1>4. fetches' = <<>> /\ fetches' \in Seq(Fetches)
  <2>1. fetches \in Seq(Fetches)
    BY DEF EssenceTypeOK, Fetches
  <2>2. fetches' = <<>>
    BY <1>1, <1>3, <2>1 DEF RemoveAt
  <2> QED
    BY <2>2
<1>5. ~Fetching' /\ ~Answered' /\ Observed' = known' /\ DOMAIN fetches' = {}
  BY <1>4 DEF Fetching, Answered, Observed
<1>6. SyncComing' <=> SyncComing
  BY <1>1, <1>2, <1>3, <1>5 DEF SyncComing
<1>7. f \in Fetches /\ f.items \in SUBSET Posts
  BY <1>1, <1>2, FetchIs
<1>8. PushThenList'
  BY <1>3 DEF PushThenList
<1>9. CASE f.answer = "error"
  <2>1. UNCHANGED <<known, baseline, todo, sent, claimed>>
    BY <1>3, <1>9
  <2>2. ~Answered
    BY <1>2, <1>9 DEF Answered
  <2>3. EssenceTypeOK'
    BY <1>3, <1>4, <2>1 DEF EssenceTypeOK, Fetches
  <2>4. OneSync' /\ TodoFollows'
    BY <1>3, <1>4, <2>1 DEF OneSync, TodoFollows, Fetching
  <2>5. ASSUME NEW e \in Events PROVE (Pending(e)' => Pending(e)) /\ (Unseen(e)' => Unseen(e))
    <3>1. PushComing(e)' = PushComing(e) /\ InTodo(e)' = InTodo(e)
      BY <1>3, <2>1 DEF PushComing, InTodo
    <3>2. ~InDiff(e)'
      BY <1>5 DEF InDiff
    <3>3. Unseen(e)' => Unseen(e)
      BY <1>3, <1>5, <2>1, <2>2 DEF Unseen, Observed
    <3> QED
      BY <3>1, <3>2, <3>3 DEF Pending
  <2>6. Counted'
    BY <1>3, <1>6, <2>1, <2>5 DEF Counted, Spare, Open
  <2> QED
    BY <1>8, <2>3, <2>4, <2>6
<1>10. CASE f.answer # "error"
  <2>1. Answered /\ Observed = f.items /\ known' = f.items /\ baseline' = TRUE
    BY <1>1, <1>2, <1>3, <1>7, <1>10 DEF Answered, Observed, Fetches
  <2>2. /\ IsFiniteSet(diff) /\ diff \subseteq Events
        /\ \A e \in diff : /\ e.to = "set" => e.post \in f.items \ known
                           /\ e.to # "set" => e.post \in known \ f.items
    BY <1>2, <1>7, DiffIs
  <2>3. ASSUME NEW e \in Events
        PROVE  /\ Unseen(e)' <=> Unseen(e)
               /\ e \in diff => InDiff(e) /\ ~Unseen(e)
               /\ e \in diff /\ e \notin claimed => Spare(e)
               /\ sent[e] <= happened[e] + Slack(e)
    <3>1. Unseen(e)' <=> Unseen(e)
      BY <1>3, <1>5, <2>1 DEF Unseen
    <3>2. e \in diff => InDiff(e) /\ ~Unseen(e)
      BY <1>2, <2>1, <2>2 DEF InDiff, Unseen
    <3> QED
      BY <3>1, <3>2 DEF Counted, Pending, Open
  <2>4. CASE who = "milky"
    <3>1. Broadcast(diff) /\ todo' = <<>>
      BY <1>1, <1>3, <1>10, <2>4
    <3>2. /\ sent' \in [Events -> Nat] /\ claimed' \subseteq Events /\ claimed' = claimed \cup diff
          /\ \A e \in Events : /\ sent'[e] <= happened'[e] + Slack(e)'
                               /\ e \notin diff => sent'[e] = sent[e]
      <4>1. diff \in SUBSET Events /\ UNCHANGED <<who, happened, misread, failed>>
        BY <1>3, <2>2
      <4>2. \A e \in Events : /\ sent[e] <= happened[e] + Slack(e)
                              /\ e \in diff /\ e \notin claimed => Spare(e)
        BY <2>3
      <4>3. EssenceTypeOK
        OBVIOUS
      <4> HIDE DEF EssenceInv
      <4> QED
        BY <2>4, <3>1, <4>1, <4>2, <4>3, BroadcastIs
    <3>3. EssenceTypeOK'
      BY <1>1, <1>3, <1>4, <1>7, <2>1, <3>1, <3>2 DEF EssenceTypeOK, Fetches
    <3>4. OneSync' /\ TodoFollows'
      BY <1>3, <1>4, <2>4, <3>1 DEF OneSync, TodoFollows, Fetching
    <3>5. ASSUME NEW e \in Events, e \notin diff
          PROVE  (Pending(e)' => Pending(e)) /\ (Spare(e) => Spare(e)')
      <4>1. PushComing(e)' = PushComing(e)
        BY <1>3 DEF PushComing
      <4>2. ~InTodo(e)' /\ ~InDiff(e)'
        BY <1>5, <3>1 DEF InTodo, InDiff
      <4>3. Spare(e) => Spare(e)'
        BY <1>3, <3>2, <3>5 DEF Spare
      <4> QED
        BY <2>3, <4>1, <4>2, <4>3 DEF Pending
    <3>6. ASSUME NEW e \in Events
          PROVE  /\ Pending(e)' /\ Open(e)' => Spare(e)'
                 /\ Unseen(e)' /\ ~SyncComing' => Spare(e)'
      <4>1. CASE e \in diff
        <5>1. Unseen(e)' = FALSE /\ ~InTodo(e)' /\ ~InDiff(e)' /\ e \in claimed'
          BY <1>5, <2>3, <3>1, <3>2, <4>1 DEF InTodo, InDiff, Unseen
        <5>2. Open(e)' => ~PushComing(e)'
          BY <5>1 DEF Open, PushComing
        <5> QED
          BY <5>1, <5>2 DEF Pending
      <4>2. CASE e \notin diff
        BY <1>6, <2>3, <3>2, <3>5, <4>2 DEF Counted, Open
      <4> QED
        BY <4>1, <4>2
    <3>7. Counted'
      BY <3>2, <3>6 DEF Counted, Open
    <3> QED
      BY <1>8, <3>3, <3>4, <3>7
  <2>5. CASE who # "milky"
    <3>1. todo' = todo \o SetToSeq(diff) /\ UNCHANGED <<sent, claimed>>
      BY <1>3, <1>10, <2>5
    <3>2. PICK q : q = SetToSeq(diff)
      OBVIOUS
    <3>3. /\ q \in Seq(diff)
          /\ \A k, j \in DOMAIN q : q[k] = q[j] => k = j
      BY <2>2, <3>2, SetToSeqIs
    <3>4. todo' = q
      BY <1>1, <3>1, <3>2, <3>3
    <3>5. /\ q \in Seq(Events) /\ \A k \in DOMAIN q : q[k] \in diff
      <4>1. \A k \in DOMAIN q : q[k] \in diff
        BY <3>3
      <4>2. q \in [1 .. Len(q) -> Events] /\ Len(q) \in Nat
        BY <2>2, <3>3
      <4> QED
        BY <4>1, <4>2
    <3>6. EssenceTypeOK'
      BY <1>3, <1>4, <1>7, <2>1, <3>1, <3>4, <3>5 DEF EssenceTypeOK, Fetches
    <3>7. OneSync'
      BY <1>3, <1>4, <2>5, <3>1 DEF OneSync, Fetching
    <3>8. TodoFollows'
      <4>1. \A k \in DOMAIN q : q[k].to = "set" <=> q[k].post \in f.items
        BY <2>2, <3>5
      <4> QED
        BY <2>1, <3>3, <3>4, <4>1 DEF TodoFollows
    <3>9. ASSUME NEW e \in Events PROVE Pending(e)' => Pending(e)
      <4>1. PushComing(e)' = PushComing(e)
        BY <1>3 DEF PushComing
      <4>2. InTodo(e)' => InDiff(e)
        BY <2>3, <3>4, <3>5 DEF InTodo
      <4>3. ~InDiff(e)'
        BY <1>5 DEF InDiff
      <4> QED
        BY <2>3, <4>1, <4>2, <4>3 DEF Pending
    <3>10. Counted'
      BY <1>3, <1>6, <2>3, <3>1, <3>9 DEF Counted, Spare, Open
    <3> QED
      BY <1>8, <3>6, <3>7, <3>8, <3>10
  <2> QED
    BY <2>4, <2>5
<1> QED
  BY <1>9, <1>10

LEMMA BroadcastNextKeeps ==
    ASSUME EssenceInv, BroadcastNext PROVE EssenceInv'
<1> USE DEF EssenceInv, faultVars, Slack
<1>1. PICK e0 : e0 = Head(todo)
  OBVIOUS
<1>2. /\ todo # <<>> /\ todo' = Tail(todo)
      /\ \/ Broadcast({e0}) /\ UNCHANGED skipped
         \/ skipped' = skipped \cup {e0.post} /\ UNCHANGED <<sent, claimed>>
      /\ UNCHANGED <<who, digest, happened, notices, waiting, fetches, known, baseline, misread, failed>>
  BY <1>1 DEF BroadcastNext, listVars
<1>3. who = "onebot11" /\ ~Fetching /\ ~Answered /\ Observed = known /\ claimed = {}
  BY <1>2 DEF OneSync, EssenceTypeOK, Answered, Observed
<1>4. PICK q : q = Tail(todo)
  OBVIOUS
<1>5. /\ e0 \in Events /\ e0 = todo[1] /\ 1 \in DOMAIN todo
      /\ q \in Seq(Events)
      /\ \A i \in DOMAIN q : i \in Nat /\ i + 1 \in DOMAIN todo /\ q[i] = todo[i + 1]
  BY <1>1, <1>2, <1>4, TailIs DEF EssenceTypeOK
<1>6. \A i \in DOMAIN q : i \in Nat \ {0}
  BY <1>5
<1>7. TodoFollows'
  <2>1. \A i, j \in DOMAIN q : q[i] = q[j] => i = j
    <3>1. SUFFICES ASSUME NEW i \in DOMAIN q, NEW j \in DOMAIN q, q[i] = q[j] PROVE i = j
      OBVIOUS
    <3>2. i + 1 = j + 1
      BY <1>5, <3>1 DEF TodoFollows
    <3> QED
      BY <1>5, <3>2
  <2>2. \A i \in DOMAIN q : q[i].to = "set" <=> q[i].post \in known
    BY <1>5 DEF TodoFollows
  <2> QED
    BY <1>2, <1>4, <2>1, <2>2 DEF TodoFollows
<1>8. ~InTodo(e0)'
  <2>1. ASSUME NEW i \in DOMAIN q PROVE q[i] # e0
    <3>1. i + 1 # 1 /\ i + 1 \in DOMAIN todo /\ q[i] = todo[i + 1]
      BY <1>5, <1>6
    <3> QED
      BY <1>5, <3>1 DEF TodoFollows
  <2> QED
    BY <1>2, <1>4, <2>1 DEF InTodo
<1>9. \A e \in Events : InTodo(e)' => InTodo(e)
  BY <1>2, <1>4, <1>5 DEF InTodo
<1>10. ~Answered' /\ Observed' = known
  BY <1>2, <1>3 DEF Answered, Fetching, Observed
<1>11. ~Pending(e0)' /\ ~Unseen(e0)'
  <2>1. e0.to = "set" <=> e0.post \in known
    BY <1>5 DEF TodoFollows
  <2>2. ~Unseen(e0)'
    BY <1>2, <1>10, <2>1 DEF Unseen
  <2>3. ~PushComing(e0)'
    BY <1>2, <1>3 DEF PushComing
  <2>4. ~InDiff(e0)'
    BY <1>10 DEF InDiff
  <2> QED
    BY <1>8, <2>2, <2>3, <2>4 DEF Pending
<1>12. ASSUME NEW e \in Events
       PROVE  /\ Pending(e)' => Pending(e)
              /\ Unseen(e)' <=> Unseen(e)
              /\ SyncComing' <=> SyncComing
  <2>1. PushComing(e)' = PushComing(e) /\ (Unseen(e)' <=> Unseen(e)) /\ (SyncComing' <=> SyncComing)
    BY <1>2, <1>3, <1>10 DEF PushComing, Unseen, SyncComing, Fetching
  <2>2. ~InDiff(e)'
    BY <1>10 DEF InDiff
  <2> QED
    BY <1>9, <2>1, <2>2 DEF Pending
<1>13. /\ sent' \in [Events -> Nat] /\ claimed' = claimed /\ skipped' \subseteq Posts
       /\ \A e \in Events : /\ sent'[e] <= happened'[e] + Slack(e)'
                            /\ e # e0 => sent'[e] = sent[e]
  <2>1. skipped \subseteq Posts /\ e0.post \in Posts
    BY <1>5, CountsAre DEF EssenceTypeOK
  <2>2. CASE Broadcast({e0}) /\ UNCHANGED skipped
    <3>1. PICK X : X = {e0}
      OBVIOUS
    <3>2. X \in SUBSET Events /\ Broadcast(X) /\ UNCHANGED <<who, happened, misread, failed>>
      BY <1>2, <1>5, <2>2, <3>1
    <3>3. InTodo(e0)
      BY <1>5 DEF InTodo
    <3>4. \A e \in Events : /\ sent[e] <= happened[e] + Slack(e)
                            /\ e \in X /\ e \notin claimed => Spare(e)
      BY <3>1, <3>3 DEF Counted, Pending, Open
    <3>5. EssenceTypeOK /\ who # "milky"
      BY <1>3
    <3>6. /\ sent' \in [Events -> Nat] /\ claimed' = claimed
          /\ \A e \in Events : /\ sent'[e] <= happened'[e] + Slack(e)'
                               /\ e \notin X => sent'[e] = sent[e]
      <4> HIDE DEF EssenceInv
      <4> QED
        BY <3>2, <3>4, <3>5, BroadcastIs
    <3> QED
      BY <2>1, <2>2, <3>1, <3>6
  <2>3. CASE skipped' = skipped \cup {e0.post} /\ UNCHANGED <<sent, claimed>>
    <3>1. sent \in [Events -> Nat]
      BY DEF EssenceTypeOK
    <3> QED
      BY <1>2, <2>1, <2>3, <3>1 DEF Counted, Open
  <2> QED
    BY <1>2, <2>2, <2>3
<1>14. EssenceTypeOK'
  BY <1>2, <1>4, <1>5, <1>13 DEF EssenceTypeOK
<1>15. OneSync' /\ PushThenList'
  BY <1>2, <1>3, <1>13 DEF OneSync, PushThenList, Fetching
<1>16. Counted'
  <2>1. ASSUME NEW e \in Events
        PROVE  /\ Pending(e)' /\ Open(e)' => Spare(e)'
               /\ Unseen(e)' /\ ~SyncComing' => Spare(e)'
    <3>1. CASE e = e0
      BY <1>11, <3>1
    <3>2. CASE e # e0
      <4>1. Spare(e) => Spare(e)'
        BY <1>2, <1>13, <3>2 DEF Spare
      <4> QED
        BY <1>12, <1>13, <4>1 DEF Counted, Open
    <3> QED
      BY <3>1, <3>2
  <2> QED
    BY <1>13, <2>1 DEF Counted, Open
<1> QED
  BY <1>7, <1>14, <1>15, <1>16

-----------------------------------------------------------------------------
LEMMA EssenceNextKeeps == EssenceInv /\ [EssenceNext]_essenceVars => EssenceInv'
<1> SUFFICES ASSUME EssenceInv, [EssenceNext]_essenceVars PROVE EssenceInv'
  OBVIOUS
<1>1. ASSUME NEW p \in Posts, ListChanges(p) PROVE EssenceInv'
  BY <1>1, ListChangesKeeps
<1>2. ASSUME NEW i \in DOMAIN fetches, FetchAnswered(i) PROVE EssenceInv'
  BY <1>2, FetchAnsweredKeeps
<1>3. ASSUME NEW i \in DOMAIN fetches, SyncEssenceList(i) PROVE EssenceInv'
  BY <1>3, SyncEssenceListKeeps
<1>4. ASSUME NEW e \in Events, KeyExpires(e) PROVE EssenceInv'
  BY <1>4, KeyExpiresKeeps
<1>5. CASE OnPush
  BY <1>5, OnPushKeeps
<1>6. CASE HandleEssenceChange
  BY <1>6, HandleEssenceChangeKeeps
<1>7. CASE StartSync
  BY <1>7, StartSyncKeeps
<1>8. CASE BroadcastNext
  BY <1>8, BroadcastNextKeeps
<1>9. CASE UNCHANGED essenceVars
  <2>1. UNCHANGED <<who, digest, happened, notices, waiting, fetches, known, baseline, todo, claimed,
                    sent, skipped, misread, failed>>
    BY <1>9 DEF essenceVars, listVars, syncVars, outVars, faultVars
  <2>2. EssenceTypeOK' /\ OneSync' /\ TodoFollows' /\ PushThenList'
    BY <2>1 DEF EssenceInv, EssenceTypeOK, OneSync, TodoFollows, PushThenList, Fetching
  <2>3. Counted'
    <3>1. ASSUME NEW e \in Events
          PROVE  /\ Pending(e)' <=> Pending(e)
                 /\ Unseen(e)' <=> Unseen(e)
                 /\ Spare(e)' <=> Spare(e)
                 /\ SyncComing' <=> SyncComing
                 /\ Open(e)' <=> Open(e)
                 /\ Slack(e)' = Slack(e)
      BY <2>1 DEF Pending, PushComing, InTodo, InDiff, Unseen, Observed, Answered, Fetching, Spare,
                  SyncComing, DiffEssenceList, Open, Slack
    <3> QED
      BY <2>1, <3>1 DEF EssenceInv, Counted
  <2> QED
    BY <2>2, <2>3 DEF EssenceInv
<1> QED
  BY <1>1, <1>2, <1>3, <1>4, <1>5, <1>6, <1>7, <1>8, <1>9 DEF EssenceNext

LEMMA EssenceInvariance == EssenceSpec => []EssenceInv
<1> QED
  BY EssenceInitially, EssenceNextKeeps, PTL DEF EssenceSpec

\* Whatever the messages of the group and however pushes, callbacks, fetches and look-ups
\* interleave, neither adapter broadcasts a group_essence event more often than the list
\* changed that way and lists were misread, but for Milky's repeats after a failed fetch.
THEOREM EssenceCountsHold == EssenceSpec => []EssenceReportedOnce
<1>1. EssenceInv => EssenceReportedOnce
  BY DEF EssenceInv, Counted, EssenceReportedOnce
<1> QED
  BY <1>1, EssenceInvariance, PTL

-----------------------------------------------------------------------------
(***************************************************************************)
(* The catalogues. Of each signal the inductive invariant says what its    *)
(* handler has still to await and that it has reported nothing before its  *)
(* end and once after it; that handlers and catalogue agree is read off    *)
(* the tables (TablesTell).                                                *)
(***************************************************************************)

LEMMA MessageIs ==
    ASSUME NEW s \in Signals, s.from = "message"
    PROVE  s.says = "message" /\ s.chat \in {"group", "friend", "temp"}
  BY DEF Signals, Messages, Tips, SysMsgs, Notifies, Pushes

LEMMA TipIs ==
    ASSUME NEW s \in Signals, s.from = "tip"
    PROVE  \/ s.says = "recall" /\ s.chat \in {"group", "friend"} /\ s.sub = "revoke" /\ s.uids = TRUE
           \/ s.says \in GroupChanges /\ s.chat = "group" /\ s.sub = "group" /\ s.uids \in BOOLEAN
           \/ s.says = "poke" /\ s.chat \in {"group", "friend"} /\ s.sub \in {"group", "other"} /\ s.uids = TRUE
           \/ s.says = "nothing" /\ s.chat \in {"group", "friend"} /\ s.sub = "other" /\ s.uids = FALSE
  BY DEF Signals, Messages, Tips, SysMsgs, Notifies, Pushes

LEMMA SysMsgIs ==
    ASSUME NEW s \in Signals, s.from = "sysmsg"
    PROVE  s.says \in {"reaction", "card", "nothing"}
  BY DEF Signals, Messages, Tips, SysMsgs, Notifies, Pushes

LEMMA NotifyIs ==
    ASSUME NEW s \in Signals, s.from = "notify"
    PROVE  s.says \in {"invited_by_member", "invited", "join", "nothing"}
  BY DEF Signals, Messages, Tips, SysMsgs, Notifies, Pushes

LEMMA PushIs ==
    ASSUME NEW s \in Signals, s.from = "push"
    PROVE  s.says \in {"friend_request", "offline_file", "friend_added", "disconnected", "logout"}
  BY DEF Signals, Messages, Tips, SysMsgs, Notifies, Pushes

LEMMA FromIs ==
    ASSUME NEW s \in Signals
    PROVE  s.from \in {"message", "tip", "sysmsg", "notify", "push"}
  BY DEF Signals, Messages, Tips, SysMsgs, Notifies, Pushes

LEMMA EntryIs ==
    ASSUME NEW table, NEW key
    PROVE  /\ key \in DOMAIN table => Entry(table, key) = {table[key]}
           /\ key \notin DOMAIN table => Entry(table, key) = {}
  BY DEF Entry

LEMMA TablesAre ==
    /\ DOMAIN OneBotGroupChanges = {"member_add", "quit", "block", "unblock", "shut_up", "whole_shut_up"}
    /\ DOMAIN MilkyGroupChanges = {"member_add", "quit", "shut_up", "whole_shut_up", "renamed", "disbanded"}
    /\ DOMAIN OneBotPushes = {"friend_request", "offline_file", "friend_added"}
    /\ DOMAIN MilkyPushes = {"friend_request", "disconnected", "logout"}
    /\ DOMAIN MemberChangeType = {"member_add", "quit"}
  BY DEF OneBotGroupChanges, MilkyGroupChanges, OneBotPushes, MilkyPushes, MemberChangeType

LEMMA CatalogueIs ==
    /\ Catalogue["onebot"] =
           {"message", "recall", "member_add", "quit", "block", "unblock", "shut_up",
            "whole_shut_up", "poke", "card", "join", "invited", "invited_by_member",
            "friend_request", "offline_file", "friend_added"}
    /\ Catalogue["milky"] =
           {"message", "recall", "member_add", "quit", "shut_up", "whole_shut_up",
            "renamed", "disbanded", "poke", "reaction", "join", "invited",
            "invited_by_member", "friend_request", "disconnected", "logout"}
    /\ Catalogue["satori"] = {"message", "recall", "member_add", "quit"}
  BY DEF Catalogue

IsTold(s) == s.says \in Catalogue[adapter] /\ ~LeftOut(s)

LEMMA OneBotTells ==
    ASSUME adapter = "onebot", NEW s \in Signals, ~KnownGap(s)
    PROVE  OneBotEvent(s) # {} <=> IsTold(s)
<1> USE CatalogueIs DEF IsTold, LeftOut
<1>1. CASE s.from = "message"
  BY <1>1, MessageIs DEF OneBotEvent, OneBotMessage
<1>2. CASE s.from = "tip"
  <2>1. CASE s.says = "recall" /\ s.sub = "revoke"
    BY <1>2, <2>1 DEF OneBotEvent, ToOb11NoticeEvent, ToOb11Recall, KnownGap
  <2>2. CASE s.says \in GroupChanges /\ s.sub = "group" /\ s.chat = "group"
    BY <1>2, <2>2, EntryIs, TablesAre DEF OneBotEvent, ToOb11NoticeEvent, ToOb11Recall, KnownGap, GroupChanges
  <2>3. CASE s.says = "poke" /\ s.sub \in {"group", "other"}
    BY <1>2, <2>3, EntryIs, TablesAre DEF OneBotEvent, ToOb11NoticeEvent, ToOb11Recall, KnownGap
  <2>4. CASE s.says = "nothing" /\ s.sub = "other"
    BY <1>2, <2>4, EntryIs, TablesAre DEF OneBotEvent, ToOb11NoticeEvent, ToOb11Recall, KnownGap
  <2> QED
    BY <1>2, <2>1, <2>2, <2>3, <2>4, TipIs
<1>3. CASE s.from = "sysmsg"
  BY <1>3, SysMsgIs, EntryIs DEF OneBotEvent, RecognizeOb11SysMsg
<1>4. CASE s.from = "notify"
  BY <1>4, NotifyIs, EntryIs DEF OneBotEvent, ToOb11GroupRequestEvent
<1>5. CASE s.from = "push"
  BY <1>5, PushIs, EntryIs, TablesAre DEF OneBotEvent
<1> QED
  BY <1>1, <1>2, <1>3, <1>4, <1>5, FromIs

LEMMA MilkyTells ==
    ASSUME adapter = "milky", NEW s \in Signals, ~KnownGap(s)
    PROVE  MilkyEvent(s) # {} <=> IsTold(s)
<1> USE CatalogueIs DEF IsTold, LeftOut
<1>1. CASE s.from = "message"
  BY <1>1, MessageIs DEF MilkyEvent, MilkyMessage, ToGroupFileUploadEvent
<1>2. CASE s.from = "tip"
  <2>1. CASE s.says = "recall" /\ s.sub = "revoke"
    BY <1>2, <2>1 DEF MilkyEvent, MilkyTip, ToMilkyNoticeEvent, AioOpToEvent, OperatorMissing
  <2>2. CASE s.says \in GroupChanges /\ s.sub = "group" /\ s.chat = "group"
    BY <1>2, <2>2, EntryIs, TablesAre DEF MilkyEvent, MilkyTip, ToMilkyNoticeEvent, AioOpToEvent, OperatorMissing, GroupChanges
  <2>3. CASE s.says = "poke" /\ s.sub \in {"group", "other"}
    BY <1>2, <2>3, EntryIs, TablesAre DEF MilkyEvent, MilkyTip, ToMilkyNoticeEvent, AioOpToEvent, OperatorMissing
  <2>4. CASE s.says = "nothing" /\ s.sub = "other"
    BY <1>2, <2>4, EntryIs, TablesAre DEF MilkyEvent, MilkyTip, ToMilkyNoticeEvent, AioOpToEvent, OperatorMissing
  <2> QED
    BY <1>2, <2>1, <2>2, <2>3, <2>4, TipIs
<1>3. CASE s.from = "sysmsg"
  BY <1>3, SysMsgIs, EntryIs DEF MilkyEvent, RecognizeMilkySysMsg
<1>4. CASE s.from = "notify"
  BY <1>4, NotifyIs, EntryIs DEF MilkyEvent, ToGroupRequestEvent
<1>5. CASE s.from = "push"
  BY <1>5, PushIs, EntryIs, TablesAre DEF MilkyEvent
<1> QED
  BY <1>1, <1>2, <1>3, <1>4, <1>5, FromIs

LEMMA SatoriTells ==
    ASSUME adapter = "satori", NEW s \in Signals, ~KnownGap(s)
    PROVE  SatoriEvent(s) # {} <=> IsTold(s)
<1> USE CatalogueIs DEF IsTold, LeftOut
<1>1. CASE s.from = "message"
  BY <1>1, MessageIs DEF SatoriEvent, HasSatoriGrayTip
<1>2. CASE s.from = "tip"
  <2>1. CASE s.says = "recall" /\ s.sub = "revoke"
    BY <1>2, <2>1 DEF SatoriEvent, HasSatoriGrayTip, ToSatoriGrayTipEvent, KnownGap
  <2>2. CASE s.says \in GroupChanges /\ s.sub = "group" /\ s.chat = "group"
    BY <1>2, <2>2, EntryIs, TablesAre DEF SatoriEvent, HasSatoriGrayTip, ToSatoriGrayTipEvent, KnownGap, GroupChanges
  <2>3. CASE s.says = "poke" /\ s.sub \in {"group", "other"}
    BY <1>2, <2>3, EntryIs, TablesAre DEF SatoriEvent, HasSatoriGrayTip, ToSatoriGrayTipEvent, KnownGap
  <2>4. CASE s.says = "nothing" /\ s.sub = "other"
    BY <1>2, <2>4, EntryIs, TablesAre DEF SatoriEvent, HasSatoriGrayTip, ToSatoriGrayTipEvent, KnownGap
  <2> QED
    BY <1>2, <2>1, <2>2, <2>3, <2>4, TipIs
<1>3. CASE s.from = "sysmsg"
  BY <1>3, SysMsgIs DEF SatoriEvent
<1>4. CASE s.from = "notify"
  BY <1>4, NotifyIs DEF SatoriEvent
<1>5. CASE s.from = "push"
  BY <1>5, PushIs DEF SatoriEvent
<1> QED
  BY <1>1, <1>2, <1>3, <1>4, <1>5, FromIs

\* The tables of the three adapters have an event for what the catalogue lists.
LEMMA TablesTell ==
    ASSUME adapter \in Adapters, NEW s \in Signals, ~KnownGap(s)
    PROVE  EventOf(s) # {} <=> s.says \in Catalogue[adapter] /\ ~LeftOut(s)
  BY OneBotTells, MilkyTells, SatoriTells DEF EventOf, Adapters, IsTold

-----------------------------------------------------------------------------
\* Only the lookups of a gray tip let a failure out, and not with Milky.
Losable(s) == s.from = "tip" /\ adapter # "milky"
LookupKinds(s) == IF Losable(s) THEN {"soft", "hard"} ELSE {"soft"}

LEMMA LookupsAre ==
    ASSUME adapter \in Adapters, NEW s \in Signals
    PROVE  LookupsOf(s) \in Seq(LookupKinds(s))
<1>1. \A c, d : Soft(c) \in Seq({"soft"}) /\ Soft(c) \o Soft(d) \in Seq({"soft"})
  <2>1. ASSUME NEW c PROVE Soft(c) \in Seq({"soft"})
    <3>1. Soft(c) = <<"soft">> \/ Soft(c) = <<>>
      BY Zenon DEF Soft
    <3>2. <<"soft">> \in Seq({"soft"}) /\ <<>> \in Seq({"soft"})
      OBVIOUS
    <3> QED
      BY <3>1, <3>2, Zenon
  <2>2. \A q, r \in Seq({"soft"}) : q \o r \in Seq({"soft"})
    OBVIOUS
  <2> QED
    BY <2>1, <2>2
<1>2. ASSUME NEW c PROVE Hard(c) \in Seq({"soft", "hard"})
  <2>1. Hard(c) = <<"hard">> \/ Hard(c) = <<>>
    BY Zenon DEF Hard
  <2>2. <<"hard">> \in Seq({"soft", "hard"}) /\ <<>> \in Seq({"soft", "hard"})
    OBVIOUS
  <2> QED
    BY <2>1, <2>2, Zenon
<1>3. \A q \in Seq({"soft"}) : q \in Seq({"soft", "hard"})
  OBVIOUS
<1>4. <<>> \in Seq({"soft"})
  OBVIOUS
<1>5. CASE adapter = "onebot"
  BY <1>1, <1>2, <1>4, <1>5, FromIs DEF LookupsOf, OneBotLookups, LookupKinds, Losable
<1>6. CASE adapter = "milky"
  BY <1>1, <1>4, <1>6, FromIs DEF LookupsOf, MilkyLookups, LookupKinds, Losable
<1>7. CASE adapter = "satori"
  <2>1. CASE s.from = "message"
    <3>1. LookupsOf(s) = Soft(s.at)
      BY <1>7, <2>1 DEF LookupsOf, SatoriLookups, HasSatoriGrayTip
    <3> QED
      BY <1>1, <1>3, <3>1 DEF LookupKinds
  <2>2. CASE HasSatoriGrayTip(s)
    BY <1>2, <1>7, <2>2 DEF LookupsOf, SatoriLookups, LookupKinds, Losable, HasSatoriGrayTip
  <2>3. CASE s.from # "message" /\ ~HasSatoriGrayTip(s)
    BY <1>3, <1>4, <1>7, <2>3 DEF LookupsOf, SatoriLookups, LookupKinds
  <2> QED
    BY <2>1, <2>2, <2>3
<1> QED
  BY <1>5, <1>6, <1>7 DEF Adapters

-----------------------------------------------------------------------------
Names == UNION {EventOf(s) : s \in Signals}
EventReports == [event : Names, of : Nat]
Handlers == [signal : Signals, awaits : Seq({"soft", "hard"}), lost : BOOLEAN, ended : BOOLEAN]

ReportedBy(n) == {i \in DOMAIN reported : reported[i].of = n}
ReportedOf(n, s) == IF EventOf(s) = {} THEN ReportedBy(n) = {} ELSE \E i : ReportedBy(n) = {i}

EventTypes ==
    /\ adapter \in Adapters
    /\ handlers \in Seq(Handlers)
    /\ reported \in Seq(EventReports)
    /\ \A i \in DOMAIN reported : reported[i].of \in DOMAIN handlers

\* A handler that still runs has something to await and reported nothing; one
\* that lost its event neither; the others have reported what there was.
HandlerIsRight(n) ==
    LET h == handlers[n] IN
    /\ h.awaits \in Seq(LookupKinds(h.signal))
    /\ ~h.ended => h.awaits # <<>> /\ ~h.lost /\ ReportedBy(n) = {}
    /\ h.lost => Losable(h.signal) /\ ReportedBy(n) = {}
    /\ h.ended /\ ~h.lost => ReportedOf(n, h.signal)

EventInv == EventTypes /\ \A n \in DOMAIN handlers : HandlerIsRight(n)

LEMMA EventInitially == EventInit => EventInv
  BY DEF EventInit, EventInv, EventTypes

\* The tables are read under the same adapter and settings.
LEMMA TablesStay ==
    ASSUME UNCHANGED <<adapter, settings>>
    PROVE  /\ \A s : EventOf(s)' = EventOf(s) /\ Losable(s)' = Losable(s) /\ LookupKinds(s)' = LookupKinds(s)
           /\ EventReports' = EventReports
<1>1. \A s : EventOf(s)' = EventOf(s)
  BY DEF EventOf, OneBotEvent, OneBotMessage, MilkyEvent, SatoriEvent
<1>2. \A s : Losable(s)' = Losable(s) /\ LookupKinds(s)' = LookupKinds(s)
  BY DEF Losable, LookupKinds
<1>3. Names' = Names
  BY <1>1 DEF Names
<1> QED
  BY <1>1, <1>2, <1>3 DEF EventReports

\* A broadcast is one report of its handler, or none when there is no event.
LEMMA ReportIs ==
    ASSUME EventTypes, UNCHANGED <<adapter, settings>>,
           NEW n \in Nat, NEW s \in Signals, BroadcastEvent(n, s)
    PROVE  /\ reported' \in Seq(EventReports)
           /\ \A i \in DOMAIN reported' : reported'[i].of = n \/ (i \in DOMAIN reported /\ reported'[i].of = reported[i].of)
           /\ \A m : m # n => ReportedBy(m)' = ReportedBy(m)
           /\ ReportedBy(n) = {} => ReportedOf(n, s)'
<1>1. CASE EventOf(s) = {}
  <2>1. reported' = reported
    BY <1>1 DEF BroadcastEvent, EventTypes
  <2> QED
    BY <1>1, <2>1, TablesStay DEF EventTypes, ReportedBy, ReportedOf
<1>2. CASE EventOf(s) # {}
  <2> DEFINE r == [event |-> CHOOSE e \in EventOf(s) : TRUE, of |-> n]
             k == Len(reported)
  <2>1. (CHOOSE e \in EventOf(s) : TRUE) \in Names
    BY <1>2 DEF Names
  <2>2. r \in EventReports /\ r.of = n
    BY <2>1 DEF EventReports
  <2>3. reported' = reported \o <<r>>
    BY <1>2 DEF BroadcastEvent
  <2> HIDE DEF r
  <2>4. /\ k \in Nat /\ DOMAIN reported = 1 .. k
        /\ reported' \in Seq(EventReports)
        /\ DOMAIN reported' = 1 .. k + 1
        /\ \A i \in 1 .. k : reported'[i] = reported[i]
        /\ reported'[k + 1] = r
    BY <2>2, <2>3 DEF EventTypes
  <2> HIDE DEF k
  <2>5. \A m : m # n => ReportedBy(m)' = ReportedBy(m)
    BY <2>2, <2>4 DEF ReportedBy
  <2>6. ReportedBy(n) = {} => ReportedBy(n)' = {k + 1}
    BY <2>2, <2>4 DEF ReportedBy
  <2>7. \A i \in DOMAIN reported' : reported'[i].of = n \/ (i \in DOMAIN reported /\ reported'[i].of = reported[i].of)
    BY <2>2, <2>4
  <2>8. ReportedBy(n) = {} => ReportedOf(n, s)'
    BY <1>2, <2>6, TablesStay DEF ReportedOf
  <2> QED
    BY <2>4, <2>5, <2>7, <2>8
<1> QED
  BY <1>1, <1>2

\* A handler that takes no step stays right.
LEMMA OtherHandlersStay ==
    ASSUME UNCHANGED <<adapter, settings>>, NEW m, HandlerIsRight(m),
           handlers'[m] = handlers[m], ReportedBy(m)' = ReportedBy(m)
    PROVE  HandlerIsRight(m)'
<1>1. PICK h : h = handlers[m]
  OBVIOUS
<1>2. h.awaits \in Seq(LookupKinds(h.signal)')
  BY <1>1, TablesStay DEF HandlerIsRight
<1>3. ~h.ended => h.awaits # <<>> /\ ~h.lost /\ ReportedBy(m)' = {}
  BY <1>1 DEF HandlerIsRight
<1>4. h.lost => Losable(h.signal)' /\ ReportedBy(m)' = {}
  <2>1. ASSUME h.lost PROVE Losable(h.signal)
    BY <1>1, <2>1 DEF HandlerIsRight
  <2>2. ASSUME h.lost PROVE ReportedBy(m) = {}
    BY <1>1, <2>2 DEF HandlerIsRight
  <2> QED
    BY <2>1, <2>2, TablesStay
<1>5. ASSUME h.ended, ~h.lost PROVE ReportedOf(m, h.signal)'
  <2>1. ReportedOf(m, h.signal)
    BY <1>1, <1>5 DEF HandlerIsRight
  <2> QED
    BY <2>1, TablesStay DEF ReportedOf
<1>6. handlers'[m] = h
  BY <1>1
<1> QED
  BY <1>2, <1>3, <1>4, <1>5, <1>6 DEF HandlerIsRight

LEMMA SignalKeeps ==
    ASSUME EventInv, NEW s \in Signals, OnSignal(s) PROVE EventInv'
<1>0. PICK n, h : /\ n = Len(handlers) + 1
                  /\ h = [signal |-> s, awaits |-> LookupsOf(s), lost |-> FALSE,
                          ended |-> LookupsOf(s) = <<>>]
  OBVIOUS
<1>1. /\ handlers' = Append(handlers, h) /\ UNCHANGED <<adapter, settings>>
      /\ IF LookupsOf(s) = <<>> THEN BroadcastEvent(n, s) ELSE UNCHANGED reported
  BY <1>0 DEF OnSignal
<1>2. LookupsOf(s) \in Seq(LookupKinds(s)) /\ LookupsOf(s) \in Seq({"soft", "hard"})
  BY LookupsAre DEF EventInv, EventTypes, LookupKinds
<1>3. /\ h \in Handlers /\ h.signal = s /\ h.awaits = LookupsOf(s) /\ ~h.lost
      /\ h.ended <=> LookupsOf(s) = <<>>
  BY <1>0, <1>2 DEF Handlers
<1>4. /\ n \in Nat /\ n \notin DOMAIN handlers
      /\ handlers' \in Seq(Handlers)
      /\ DOMAIN handlers' = DOMAIN handlers \cup {n}
      /\ handlers'[n] = h
      /\ \A m \in DOMAIN handlers : handlers'[m] = handlers[m]
  BY <1>0, <1>1, <1>3 DEF EventInv, EventTypes
<1>5. ReportedBy(n) = {}
  BY <1>4 DEF EventInv, EventTypes, ReportedBy
<1>6. /\ reported' \in Seq(EventReports)
      /\ \A i \in DOMAIN reported' : reported'[i].of = n \/ (i \in DOMAIN reported /\ reported'[i].of = reported[i].of)
      /\ \A m : m # n => ReportedBy(m)' = ReportedBy(m)
      /\ LookupsOf(s) = <<>> => ReportedOf(n, s)'
      /\ LookupsOf(s) # <<>> => ReportedBy(n)' = {}
  <2>1. CASE LookupsOf(s) = <<>>
    <3>1. BroadcastEvent(n, s) /\ EventTypes
      BY <1>1, <2>1 DEF EventInv
    <3> QED
      BY <1>1, <1>4, <1>5, <2>1, <3>1, ReportIs
  <2>2. CASE LookupsOf(s) # <<>>
    <3>1. reported' = reported
      BY <1>1, <2>2
    <3>2. \A m : ReportedBy(m)' = ReportedBy(m)
      BY <3>1 DEF ReportedBy
    <3>3. reported \in Seq(EventReports)
      BY DEF EventInv, EventTypes
    <3> QED
      BY <1>5, <2>2, <3>1, <3>2, <3>3
  <2> QED
    BY <2>1, <2>2
<1>7. EventTypes'
  BY <1>1, <1>4, <1>6, TablesStay DEF EventInv, EventTypes
<1>8. ASSUME NEW m \in DOMAIN handlers' PROVE HandlerIsRight(m)'
  <2>1. CASE m = n
    <3>1. handlers'[m] = h /\ ReportedBy(m)' = ReportedBy(n)' /\ ReportedOf(m, s)' = ReportedOf(n, s)'
      BY <1>4, <2>1
    <3>2. h.awaits \in Seq(LookupKinds(h.signal)')
      BY <1>1, <1>2, <1>3, TablesStay
    <3>3. ~h.ended => h.awaits # <<>> /\ ~h.lost /\ ReportedBy(m)' = {}
      BY <1>3, <1>6, <2>1
    <3>4. h.ended => ReportedOf(m, h.signal)'
      BY <1>3, <1>6, <2>1
    <3> QED
      BY <1>3, <3>1, <3>2, <3>3, <3>4 DEF HandlerIsRight
  <2>2. CASE m \in DOMAIN handlers
    BY <1>1, <1>4, <1>6, <2>2, OtherHandlersStay DEF EventInv
  <2> QED
    BY <1>4, <2>1, <2>2
<1> QED
  BY <1>7, <1>8 DEF EventInv

\* One handler goes on or gives its event up; the others do not notice.
LEMMA HandlerKeeps ==
    ASSUME EventInv, NEW n \in DOMAIN handlers, UNCHANGED <<adapter, settings>>,
           NEW h \in Handlers, handlers' = [handlers EXCEPT ![n] = h],
           reported' \in Seq(EventReports),
           \A i \in DOMAIN reported' : reported'[i].of = n \/ (i \in DOMAIN reported /\ reported'[i].of = reported[i].of),
           \A m : m # n => ReportedBy(m)' = ReportedBy(m),
           HandlerIsRight(n)'
    PROVE  EventInv'
<1>1. /\ handlers' \in Seq(Handlers) /\ DOMAIN handlers' = DOMAIN handlers
      /\ \A m \in DOMAIN handlers : m # n => handlers'[m] = handlers[m]
  BY DEF EventInv, EventTypes
<1>2. EventTypes'
  BY <1>1, TablesStay DEF EventInv, EventTypes
<1>3. ASSUME NEW m \in DOMAIN handlers' PROVE HandlerIsRight(m)'
  BY <1>1, OtherHandlersStay DEF EventInv
<1> QED
  BY <1>2, <1>3 DEF EventInv

LEMMA HandlerIs ==
    ASSUME EventInv, NEW n \in DOMAIN handlers
    PROVE  /\ n \in Nat /\ handlers[n] \in Handlers /\ handlers[n].signal \in Signals
           /\ HandlerIsRight(n) /\ EventTypes
<1>1. HandlerIsRight(n) /\ EventTypes
  BY DEF EventInv
<1>2. n \in Nat /\ handlers[n] \in Handlers
  BY <1>1 DEF EventTypes
<1>3. \A h \in Handlers : h.signal \in Signals
  BY DEF Handlers
<1> QED
  BY <1>1, <1>2, <1>3

LEMMA GoOnKeeps ==
    ASSUME EventInv, NEW n \in DOMAIN handlers, Awaiting(n), GoOnWith(n) PROVE EventInv'
<1>1. PICK s, rest : s = handlers[n].signal /\ rest = Tail(handlers[n].awaits)
  OBVIOUS
<1>2. /\ n \in Nat /\ handlers[n] \in Handlers /\ s \in Signals
      /\ handlers[n].awaits # <<>> /\ ~handlers[n].lost /\ ReportedBy(n) = {}
      /\ handlers[n].awaits \in Seq(LookupKinds(s))
  BY <1>1, HandlerIs DEF HandlerIsRight, Awaiting
<1>3. rest \in Seq(LookupKinds(s)) /\ rest \in Seq({"soft", "hard"})
  BY <1>1, <1>2 DEF Handlers
<1>4. /\ handlers' = [handlers EXCEPT ![n].awaits = rest, ![n].ended = rest = <<>>]
      /\ IF rest = <<>> THEN BroadcastEvent(n, s) ELSE reported' = reported
      /\ UNCHANGED <<adapter, settings>>
  BY <1>1 DEF GoOnWith
<1>5. PICK h : h = [handlers[n] EXCEPT !.awaits = rest, !.ended = rest = <<>>]
  OBVIOUS
<1>6. /\ h \in Handlers /\ h.signal = s /\ h.awaits = rest /\ ~h.lost
      /\ h.ended <=> rest = <<>>
  BY <1>1, <1>2, <1>3, <1>5 DEF Handlers
<1>7. handlers' = [handlers EXCEPT ![n] = h] /\ handlers'[n] = h
  BY <1>4, <1>5 DEF EventInv, EventTypes
<1>8. /\ reported' \in Seq(EventReports)
      /\ \A i \in DOMAIN reported' : reported'[i].of = n \/ (i \in DOMAIN reported /\ reported'[i].of = reported[i].of)
      /\ \A m : m # n => ReportedBy(m)' = ReportedBy(m)
      /\ rest = <<>> => ReportedOf(n, s)'
      /\ rest # <<>> => ReportedBy(n)' = {}
  <2>1. CASE rest = <<>>
    <3>1. BroadcastEvent(n, s) /\ EventTypes
      BY <1>4, <2>1 DEF EventInv
    <3> QED
      BY <1>2, <1>4, <2>1, <3>1, ReportIs
  <2>2. CASE rest # <<>>
    <3>1. reported' = reported
      BY <1>4, <2>2
    <3>2. \A m : ReportedBy(m)' = ReportedBy(m)
      BY <3>1 DEF ReportedBy
    <3>3. reported \in Seq(EventReports)
      BY DEF EventInv, EventTypes
    <3> QED
      BY <1>2, <2>2, <3>1, <3>2, <3>3
  <2> QED
    BY <2>1, <2>2
<1>9. HandlerIsRight(n)'
  <2>1. h.awaits \in Seq(LookupKinds(h.signal)')
    BY <1>3, <1>4, <1>6, TablesStay
  <2>2. ~h.ended => h.awaits # <<>> /\ ~h.lost /\ ReportedBy(n)' = {}
    BY <1>6, <1>8
  <2>3. h.ended => ReportedOf(n, h.signal)'
    BY <1>6, <1>8
  <2> QED
    BY <1>6, <1>7, <2>1, <2>2, <2>3 DEF HandlerIsRight
<1> QED
  BY <1>4, <1>6, <1>7, <1>8, <1>9, HandlerKeeps

LEMMA FailureKeeps ==
    ASSUME EventInv, NEW n \in DOMAIN handlers, LookupFailed(n) PROVE EventInv'
<1>1. CASE Head(handlers[n].awaits) = "soft"
  BY <1>1, GoOnKeeps DEF LookupFailed
<1>2. CASE Head(handlers[n].awaits) # "soft"
  <2>1. PICK s : s = handlers[n].signal
    OBVIOUS
  <2>2. /\ handlers[n] \in Handlers /\ s \in Signals
        /\ handlers[n].awaits # <<>> /\ ReportedBy(n) = {}
        /\ handlers[n].awaits \in Seq(LookupKinds(s))
    BY <2>1, HandlerIs DEF HandlerIsRight, LookupFailed, Awaiting
  <2>3. Losable(s)
    <3>1. Head(handlers[n].awaits) \in LookupKinds(s)
      BY <2>2
    <3> QED
      BY <1>2, <3>1 DEF LookupKinds
  <2>4. /\ handlers' = [handlers EXCEPT ![n].awaits = <<>>, ![n].lost = TRUE, ![n].ended = TRUE]
        /\ UNCHANGED <<adapter, settings, reported>>
    BY <1>2 DEF LookupFailed
  <2>5. PICK h : h = [handlers[n] EXCEPT !.awaits = <<>>, !.lost = TRUE, !.ended = TRUE]
    OBVIOUS
  <2>6. h \in Handlers /\ h.signal = s /\ h.awaits = <<>> /\ h.lost /\ h.ended
    <3>1. <<>> \in Seq({"soft", "hard"})
      OBVIOUS
    <3> QED
      BY <2>1, <2>2, <2>5, <3>1 DEF Handlers
  <2>7. handlers' = [handlers EXCEPT ![n] = h] /\ handlers'[n] = h
    BY <2>4, <2>5 DEF EventInv, EventTypes
  <2>8. \A m : ReportedBy(m)' = ReportedBy(m)
    BY <2>4 DEF ReportedBy
  <2>9. reported' \in Seq(EventReports) /\ reported' = reported
    BY <2>4 DEF EventInv, EventTypes
  <2>10. HandlerIsRight(n)'
    <3>1. h.awaits \in Seq(LookupKinds(h.signal)')
      BY <2>6
    <3>2. Losable(h.signal)' /\ ReportedBy(n)' = {}
      BY <2>2, <2>3, <2>4, <2>6, <2>8, TablesStay
    <3> QED
      BY <2>6, <2>7, <3>1, <3>2 DEF HandlerIsRight
  <2> QED
    BY <2>4, <2>6, <2>7, <2>8, <2>9, <2>10, HandlerKeeps
<1> QED
  BY <1>1, <1>2

LEMMA EventNextKeeps == EventInv /\ [EventNext]_eventVars => EventInv'
<1> SUFFICES ASSUME EventInv, [EventNext]_eventVars PROVE EventInv'
  OBVIOUS
<1>1. ASSUME NEW s \in Signals, OnSignal(s) PROVE EventInv'
  BY <1>1, SignalKeeps
<1>2. ASSUME NEW n \in DOMAIN handlers, LookupAnswered(n) \/ LookupFailed(n) PROVE EventInv'
  BY <1>2, GoOnKeeps, FailureKeeps DEF LookupAnswered
<1>3. CASE UNCHANGED eventVars
  <2>1. UNCHANGED <<adapter, settings>> /\ handlers' = handlers /\ reported' = reported
    BY <1>3 DEF eventVars
  <2>2. \A m : ReportedBy(m)' = ReportedBy(m)
    BY <2>1 DEF ReportedBy
  <2>3. EventTypes'
    BY <2>1, TablesStay DEF EventInv, EventTypes
  <2>4. ASSUME NEW m \in DOMAIN handlers' PROVE HandlerIsRight(m)'
    BY <2>1, <2>2, OtherHandlersStay DEF EventInv
  <2> QED
    BY <2>3, <2>4 DEF EventInv
<1> QED
  BY <1>1, <1>2, <1>3 DEF EventNext

LEMMA EventInvariance == EventSpec => []EventInv
  BY EventInitially, EventNextKeeps, PTL DEF EventSpec

\* For every callback, any number of them, any overlap of their handlers and any
\* lookups that fail: a handler that ended has broadcast one event if its protocol
\* has one for what happened, none otherwise, and only a gray tip of OneBot or
\* Satori is ever lost.
THEOREM EveryEventOnce == EventSpec => []EventsReported
<1>1. ASSUME EventInv PROVE EventsReported
  <2>1. ASSUME NEW n \in DOMAIN handlers, NEW s, s = handlers[n].signal
        PROVE  /\ handlers[n].ended /\ ~KnownGap(s) /\ ~handlers[n].lost =>
                   ReportsOf(n) = IF s.says \in Catalogue[adapter] /\ ~LeftOut(s) THEN 1 ELSE 0
               /\ handlers[n].lost => s.from = "tip" /\ adapter # "milky" /\ ReportsOf(n) = 0
    <3>1. HandlerIsRight(n) /\ s \in Signals /\ adapter \in Adapters
      BY <1>1, <2>1, HandlerIs DEF EventTypes
    <3>2. ReportsOf(n) = Cardinality(ReportedBy(n))
      BY DEF ReportsOf, ReportedBy
    <3>3. ASSUME handlers[n].ended, ~KnownGap(s), ~handlers[n].lost
          PROVE  ReportsOf(n) = IF s.says \in Catalogue[adapter] /\ ~LeftOut(s) THEN 1 ELSE 0
      <4>1. ReportedOf(n, s)
        BY <2>1, <3>1, <3>3 DEF HandlerIsRight
      <4>2. CASE EventOf(s) = {}
        <5>1. ReportsOf(n) = 0
          BY <3>2, <4>1, <4>2, FS_EmptySet DEF ReportedOf
        <5>2. ~(s.says \in Catalogue[adapter] /\ ~LeftOut(s))
          BY <3>1, <3>3, <4>2, TablesTell
        <5> QED
          BY <5>1, <5>2
      <4>3. CASE EventOf(s) # {}
        <5>1. PICK i : ReportedBy(n) = {i}
          BY <4>1, <4>3 DEF ReportedOf
        <5>2. ReportsOf(n) = 1
          BY <3>2, <5>1, FS_Singleton
        <5>3. s.says \in Catalogue[adapter] /\ ~LeftOut(s)
          BY <3>1, <3>3, <4>3, TablesTell
        <5> QED
          BY <5>2, <5>3
      <4> QED
        BY <4>2, <4>3
    <3>4. ASSUME handlers[n].lost PROVE s.from = "tip" /\ adapter # "milky" /\ ReportsOf(n) = 0
      <4>1. Losable(s) /\ ReportedBy(n) = {}
        BY <2>1, <3>1, <3>4 DEF HandlerIsRight
      <4> QED
        BY <3>2, <4>1, FS_EmptySet DEF Losable
    <3> QED
      BY <3>3, <3>4
  <2> QED
    BY <2>1 DEF EventsReported
<1> QED
  BY <1>1, EventInvariance, PTL
=============================================================================
