---------------------------- MODULE KernelProofs ----------------------------
(***************************************************************************)
(* Proofs about the kernel package, for every value of the constants: a    *)
(* login that waits can be refreshed (QrLogin), the caches of groups catch *)
(* up with the server (KernelCache), and a call that reports success has   *)
(* sent its message and the calls keep the promise of Delivery             *)
(* (MessageSend).                                                          *)
(***************************************************************************)
EXTENDS MessageSend, QrLogin, KernelCache, TLAPS

-----------------------------------------------------------------------------
(***************************************************************************)
(* The login by a code. The inductive invariant adds to the handle what a  *)
(* waiting login relies on: its limit and its listener are there exactly   *)
(* while it waits, so that no step of a login that is over touches the     *)
(* session or the handle (WaitIsGuarded).                                  *)
(***************************************************************************)

\* While a login waits for its code, and only then, its limit is armed and its
\* listener registered: nothing else would end the wait.
WaitIsGuarded ==
    \A f \in LoginFlows :
        /\ step[f] = "qr" <=> limit[f]
        /\ step[f] = "qr" <=> hearing[f]
        /\ step[f] # "qr" => news[f] = <<>>
        /\ step[f] = "qr" => session[f] \in {"waiting_scan", "scanned"}

\* The attempts of a quick login are counted from its start.
TriesCounted ==
    \A f \in LoginFlows :
        /\ step[f] \in {"connecting", "listing"} => quickTries[f] = 0
        /\ step[f] = "network" => quickTries[f] < NetworkRetryMax

QrInv == QrTypeOK /\ WaitIsGuarded /\ TriesCounted /\ HandleIsWaited

LEMMA QrInitially == QrInit => QrInv
<1> SUFFICES ASSUME QrInit PROVE QrInv
  OBVIOUS
<1>1. QrTypeOK
  BY QrAssumption DEF QrInit, QrTypeOK, LoginStates
<1>2. WaitIsGuarded /\ TriesCounted /\ HandleIsWaited
  BY QrAssumption DEF LoginFlows, QrInit, WaitIsGuarded, TriesCounted, HandleIsWaited
<1> QED
  BY <1>1, <1>2 DEF QrInv

LEMMA EndQrKeeps ==
    ASSUME QrInv, NEW f \in LoginFlows, NEW s \in {"logged_in", "failed"},
           NEW result \in {"failed"} \cup QrAccounts, EndQr(f, s, result)
    PROVE  QrInv'
<1> USE QrAssumption DEF QrInv, EndQr
<1>1. QrTypeOK'
  BY DEF QrTypeOK, LoginStates
<1>2. WaitIsGuarded'
  BY DEF QrTypeOK, WaitIsGuarded
<1>3. TriesCounted' /\ HandleIsWaited'
  BY DEF QrTypeOK, TriesCounted, HandleIsWaited
<1> QED
  BY <1>1, <1>2, <1>3

LEMMA StartQrKeeps ==
    ASSUME QrInv, NEW f \in LoginFlows, step[f] # "qr", StartQr(f),
           outcome' \in [LoginFlows -> {"none", "failed"} \cup QrAccounts],
           quickTries' \in [LoginFlows -> 0 .. NetworkRetryMax],
           \A g \in LoginFlows : g # f => quickTries'[g] = quickTries[g],
           UNCHANGED renewals
    PROVE  QrInv'
<1> USE QrAssumption DEF QrInv, StartQr, Refresh
<1>1. QrTypeOK'
  BY DEF QrTypeOK, LoginStates
<1>2. WaitIsGuarded'
  BY DEF QrTypeOK, WaitIsGuarded
<1>3. TriesCounted' /\ HandleIsWaited'
  BY DEF QrTypeOK, TriesCounted, HandleIsWaited
<1> QED
  BY <1>1, <1>2, <1>3

LEMMA LoginKeeps ==
    ASSUME QrInv, NEW f \in LoginFlows, NEW qrOnly \in BOOLEAN, Login(f, qrOnly)
    PROVE  QrInv'
<1> USE QrAssumption DEF Login
<1>0. /\ outcome' \in [LoginFlows -> {"none", "failed"} \cup QrAccounts]
      /\ quickTries' \in [LoginFlows -> 0 .. NetworkRetryMax]
      /\ \A g \in LoginFlows : g # f => quickTries'[g] = quickTries[g]
  BY DEF QrInv, QrTypeOK
<1>1. CASE qrOnly
  BY <1>0, <1>1, StartQrKeeps
<1>2. CASE ~qrOnly
  <2> USE <1>2 DEF QrInv, sessionVars
  <2>1. QrTypeOK'
    BY DEF QrTypeOK, LoginStates
  <2>2. WaitIsGuarded'
    BY DEF QrTypeOK, WaitIsGuarded
  <2>3. TriesCounted' /\ HandleIsWaited'
    BY DEF QrTypeOK, TriesCounted, HandleIsWaited
  <2> QED
    BY <2>1, <2>2, <2>3
<1> QED
  BY <1>1, <1>2

LEMMA QuickLoginKeeps ==
    ASSUME QrInv, NEW f \in LoginFlows, QuickLogin(f)
    PROVE  QrInv'
<1> USE QrAssumption
<1>1. ASSUME NEW qrFallback \in BOOLEAN, QuickLoginFails(f, qrFallback), qrFallback
      PROVE  QrInv'
  <2>1. StartQr(f) /\ UNCHANGED <<quickTries, outcome, renewals>> /\ step[f] # "qr"
    BY <1>1 DEF QuickLoginFails
  <2> QED
    BY <2>1, StartQrKeeps DEF QrInv, QrTypeOK
<1>2. ASSUME \/ ServiceConnects(f)
             \/ Tries(f)
             \/ \E a \in QrAccounts : QuickLoginSucceeds(f, a)
             \/ NetworkError(f)
             \/ QuickLoginFails(f, FALSE)
      PROVE  QrInv'
  <2> USE <1>2 DEF QrInv, ServiceConnects, Tries, QuickLoginSucceeds, NetworkError,
                   QuickLoginFails, sessionVars
  <2>1. QrTypeOK'
    <3>1. step' \in [LoginFlows -> {"off", "connecting", "listing", "quick", "network", "qr"}]
      BY DEF QrTypeOK
    <3>2. quickTries' \in [LoginFlows -> 0 .. NetworkRetryMax]
      <4>1. CASE Tries(f)
        <5>1. quickTries[f] + 1 \in 0 .. NetworkRetryMax
          BY <4>1, QrAssumption DEF QrTypeOK, TriesCounted
        <5> QED
          BY <4>1, <5>1 DEF QrTypeOK
      <4>2. CASE UNCHANGED quickTries
        BY <4>2 DEF QrTypeOK
      <4> QED
        BY <4>1, <4>2
    <3>3. outcome' \in [LoginFlows -> {"none", "failed"} \cup QrAccounts]
      BY DEF QrTypeOK
    <3> QED
      BY <3>1, <3>2, <3>3 DEF QrTypeOK
  <2>2. WaitIsGuarded'
    BY DEF QrTypeOK, WaitIsGuarded
  <2>3. TriesCounted'
    BY DEF QrTypeOK, TriesCounted
  <2>4. HandleIsWaited'
    BY DEF QrTypeOK, HandleIsWaited
  <2> QED
    BY <2>1, <2>2, <2>3, <2>4
<1> QED
  BY <1>1, <1>2 DEF QuickLogin

LEMMA HearsKeeps ==
    ASSUME QrInv, NEW f \in LoginFlows, Hears(f)
    PROVE  QrInv'
<1> DEFINE n == Head(news[f])
<1>0. /\ n \in News
      /\ Tail(news[f]) \in Seq(News)
      /\ step[f] = "qr"
  BY DEF Hears, QrInv, QrTypeOK, WaitIsGuarded
<1>1. CASE n.kind = "confirmed" /\ EndQr(f, "logged_in", n.account)
  <2>1. n.account \in QrAccounts
    BY <1>0, <1>1 DEF News
  <2> QED
    BY <1>1, <2>1, EndQrKeeps
<1>2. CASE EndQr(f, "failed", "failed")
  BY <1>2, EndQrKeeps
<1>3. ASSUME news' = [news EXCEPT ![f] = Tail(@)],
             \/ session' = [session EXCEPT ![f] = "scanned"] /\ UNCHANGED <<limit, code, renewals>>
             \/ Renew /\ Refresh(f),
             UNCHANGED <<quickVars, hearing, handle>>
      PROVE  QrInv'
  <2> USE <1>0, <1>3, QrAssumption DEF QrInv, Renew, Refresh, quickVars
  <2>1. QrTypeOK'
    <3>1. news' \in [LoginFlows -> Seq(News)]
      BY DEF QrTypeOK
    <3>2. session' \in [LoginFlows -> LoginStates] /\ limit' \in [LoginFlows -> BOOLEAN]
      BY DEF QrTypeOK, LoginStates
    <3> QED
      BY <3>1, <3>2 DEF QrTypeOK
  <2>2. WaitIsGuarded'
    BY DEF QrTypeOK, WaitIsGuarded
  <2>3. TriesCounted' /\ HandleIsWaited'
    BY DEF QrTypeOK, TriesCounted, HandleIsWaited
  <2> QED
    BY <2>1, <2>2, <2>3
<1> QED
  BY <1>1, <1>2, <1>3 DEF Hears

LEMMA RefreshQrKeeps ==
    ASSUME QrInv, RefreshQr
    PROVE  QrInv'
<1> USE QrAssumption DEF QrInv, RefreshQr, Renew, Refresh, quickVars
<1>1. QrTypeOK'
  BY DEF QrTypeOK, LoginStates
<1>2. WaitIsGuarded'
  BY DEF QrTypeOK, WaitIsGuarded, HandleIsWaited
<1>3. TriesCounted' /\ HandleIsWaited'
  BY DEF QrTypeOK, TriesCounted, HandleIsWaited
<1> QED
  BY <1>1, <1>2, <1>3

LEMMA CodeMovesKeeps ==
    ASSUME QrInv, NEW from, NEW to \in {"none", "scanned"}, NEW n \in News,
           CodeMoves(from, to, n)
    PROVE  QrInv'
<1> USE QrAssumption DEF QrInv, CodeMoves, quickVars
<1>0. news' \in [LoginFlows -> Seq(News)]
  <2>1. \A f \in LoginFlows : Append(news[f], n) \in Seq(News)
    BY DEF QrTypeOK
  <2> QED
    BY <2>1 DEF QrTypeOK
<1>1. QrTypeOK'
  BY <1>0 DEF QrTypeOK
<1>2. WaitIsGuarded'
  BY DEF QrTypeOK, WaitIsGuarded
<1>3. TriesCounted' /\ HandleIsWaited'
  BY DEF TriesCounted, HandleIsWaited
<1> QED
  BY <1>1, <1>2, <1>3

LEMMA QrNextKeeps == QrInv /\ [QrNext]_qrVars => QrInv'
<1> SUFFICES ASSUME QrInv, [QrNext]_qrVars PROVE QrInv'
  OBVIOUS
<1>1. ASSUME NEW f \in LoginFlows, NEW qrOnly \in BOOLEAN, Login(f, qrOnly)
      PROVE  QrInv'
  BY <1>1, LoginKeeps
<1>2. ASSUME NEW f \in LoginFlows, QuickLogin(f) PROVE QrInv'
  BY <1>2, QuickLoginKeeps
<1>3. ASSUME NEW f \in LoginFlows, Hears(f) PROVE QrInv'
  BY <1>3, HearsKeeps
<1>4. ASSUME NEW f \in LoginFlows, LimitReached(f) PROVE QrInv'
  BY <1>4, EndQrKeeps DEF LimitReached
<1>5. CASE RefreshQr
  BY <1>5, RefreshQrKeeps
<1>6. CASE Scan \/ Expire \/ LoginFails
  <2>1. /\ [kind |-> "scanned"] \in News
        /\ [kind |-> "expired"] \in News
        /\ [kind |-> "failed"] \in News
    BY DEF News
  <2> QED
    BY <1>6, <2>1, CodeMovesKeeps DEF Scan, Expire, LoginFails
<1>7. ASSUME NEW a \in QrAccounts, Confirm(a) PROVE QrInv'
  <2>1. [kind |-> "confirmed", account |-> a] \in News
    BY DEF News
  <2> QED
    BY <1>7, <2>1, CodeMovesKeeps DEF Confirm
<1>8. CASE UNCHANGED qrVars
  BY <1>8 DEF qrVars, QrInv, QrTypeOK, WaitIsGuarded, TriesCounted, HandleIsWaited
<1> QED
  BY <1>1, <1>2, <1>3, <1>4, <1>5, <1>6, <1>7, <1>8 DEF QrNext

LEMMA QrInvariance == QrSpec => []QrInv
  BY QrInitially, QrNextKeeps, PTL DEF QrSpec

\* For any login flows, accounts and limits: whatever is scanned, refused or expires, the
\* session that core.qrSession names still waits, so a manual refresh never asks for a code
\* nobody waits for; and while both logins wait, one is named.
THEOREM RefreshReachesWaiter == QrSpec => []HandleIsWaited
<1>1. QrInv => HandleIsWaited
  BY DEF QrInv
<1> QED
  BY <1>1, QrInvariance, PTL

\* A login that waits for its code always has its limit armed and its listener registered,
\* and a quick login retries the network no more often than its maximum.
THEOREM LoginIsBounded == QrSpec => [](QrTypeOK /\ WaitIsGuarded)
<1>1. QrInv => QrTypeOK /\ WaitIsGuarded
  BY DEF QrInv
<1> QED
  BY <1>1, QrInvariance, PTL

-----------------------------------------------------------------------------
(***************************************************************************)
(* The caches of groups. The property speaks of a quiet wire only, so the  *)
(* inductive invariant says of every frame under way that it is the newest *)
(* or has a newer callback behind it, and the same of what is cached; a    *)
(* load answered late is overtaken by nothing but callbacks that are still *)
(* to come.                                                                *)
(***************************************************************************)

WireFrames == Callbacks \cup Answers

\* A callback with data of u comes after position i of the wire.
Later(i, u) == \E j \in DOMAIN wire : /\ j > i
                                      /\ wire[j].kind = "members"
                                      /\ u \in DOMAIN wire[j].infos
DetailLater(i) == \E j \in DOMAIN wire : j > i /\ wire[j].kind = "detail"

\* The newest number is that of the details or of a member.
NewestIsSomebodys ==
    \E v \in Versions : /\ v \in {profile} \cup {roster[u] : u \in CacheUids}
                        /\ profile <= v /\ \A u \in CacheUids : roster[u] <= v

\* Nothing is asked, sent or kept before the registration.
NothingBefore ==
    cacheLife = "new" => /\ wire = <<>>
                         /\ \A k \in Calls : loading[k] = 0
                         /\ ~loaded /\ detail = 0

\* Whatever is on the wire is the newest, or a callback behind it is newer; the
\* answer with the whole list misses nobody but those a callback behind it brings.
MembersCatchUp ==
    \A i \in DOMAIN wire : \A u \in CacheUids :
        /\ wire[i].kind \in {"members", "answer"} /\ u \in DOMAIN wire[i].infos =>
               wire[i].infos[u] = roster[u] \/ Later(i, u)
        /\ wire[i].kind = "answer" /\ wire[i].key = "members" /\ roster[u] # 0 =>
               u \in DOMAIN wire[i].infos \/ Later(i, u)

DetailCatchesUp ==
    \A i \in DOMAIN wire :
        wire[i].kind \in {"detail", "answer"} => wire[i].version = profile \/ DetailLater(i)

\* The cache lags behind the server by callbacks under way and nothing else.
CacheFollows ==
    /\ loaded => \A u \in CacheUids :
           roster[u] # 0 => (u \in DOMAIN members /\ members[u] = roster[u]) \/ Later(0, u)
    /\ detail # 0 => detail = profile \/ DetailLater(0)

CacheInv ==
    /\ CacheTypeOK
    /\ NewestIsSomebodys
    /\ NothingBefore
    /\ cacheLife = "registered" => MembersCatchUp /\ DetailCatchesUp /\ CacheFollows

-----------------------------------------------------------------------------
(* What types the data needs. *)

LEMMA PartialIs ==
    ASSUME NEW f
    PROVE  f \in Partial <=> DOMAIN f \subseteq CacheUids /\ f \in [DOMAIN f -> Versions \ {0}]
<1>1. f \in Partial <=> \E D \in SUBSET CacheUids : f \in [D -> Versions \ {0}]
  BY DEF Partial
<1>2. \A D : f \in [D -> Versions \ {0}] => DOMAIN f = D
  OBVIOUS
<1> QED
  BY <1>1, <1>2

LEMMA MergedIs ==
    ASSUME NEW f \in Partial, NEW g \in Partial
    PROVE  [u \in DOMAIN f \cup DOMAIN g |-> IF u \in DOMAIN g THEN g[u] ELSE f[u]] \in Partial
<1> DEFINE h == [u \in DOMAIN f \cup DOMAIN g |-> IF u \in DOMAIN g THEN g[u] ELSE f[u]]
<1>1. /\ DOMAIN f \subseteq CacheUids /\ \A u \in DOMAIN f : f[u] \in Versions \ {0}
      /\ DOMAIN g \subseteq CacheUids /\ \A u \in DOMAIN g : g[u] \in Versions \ {0}
  BY PartialIs
<1>2. DOMAIN h = DOMAIN f \cup DOMAIN g /\ h \in [DOMAIN h -> Versions \ {0}]
  BY <1>1
<1> QED
  BY <1>1, <1>2, PartialIs

LEMMA AbsentIs == Absent \in Partial /\ DOMAIN Absent = {}
<1>1. DOMAIN Absent = {} /\ Absent \in [DOMAIN Absent -> Versions \ {0}]
  BY DEF Absent
<1> QED
  BY <1>1, PartialIs

LEMMA FoundIs ==
    ASSUME roster \in [CacheUids -> Versions], NEW k
    PROVE  /\ Found(k) \in Partial
           /\ \A u \in DOMAIN Found(k) : Found(k)[u] = roster[u]
           /\ k = "members" => \A u \in CacheUids : roster[u] # 0 => u \in DOMAIN Found(k)
<1> DEFINE D == IF k = "members" THEN CacheUids ELSE CacheUids \cap {k}
           one == [u \in CacheUids \cap {k} |-> roster[u]]
<1>1. DOMAIN Found(k) = {u \in D : roster[u] # 0}
  <2>1. CASE k = "members"
    BY <2>1 DEF Found, Present
  <2>2. CASE k # "members"
    <3>1. {v \in DOMAIN one : one[v] # 0} = {u \in D : roster[u] # 0}
      BY <2>2
    <3>2. Found(k) = [u \in {v \in DOMAIN one : one[v] # 0} |-> one[u]]
      BY <2>2 DEF Found, Present
    <3> QED
      BY <3>1, <3>2
  <2> QED
    BY <2>1, <2>2
<1>2. \A u \in DOMAIN Found(k) : Found(k)[u] = roster[u]
  BY <1>1 DEF Found, Present
<1>3. Found(k) = [u \in DOMAIN Found(k) |-> Found(k)[u]]
  BY DEF Found, Present
<1>4. DOMAIN Found(k) \subseteq CacheUids /\ Found(k) \in [DOMAIN Found(k) -> Versions \ {0}]
  BY <1>1, <1>2, <1>3
<1> QED
  BY <1>1, <1>2, <1>4, PartialIs

LEMMA FrameFields ==
    ASSUME NEW c \in WireFrames
    PROVE  /\ c.kind \in {"members", "detail", "groups", "answer", "refusal"}
           /\ c.kind \in {"members", "answer", "refusal"} => c.infos \in Partial
           /\ c.kind \in {"detail", "answer", "refusal"} => c.version \in Versions
           /\ c.kind = "groups" => c.has \in BOOLEAN
           /\ c.kind \in {"answer", "refusal"} => c.key \in Calls
  BY DEF WireFrames, Callbacks, Answers

LEMMA NextIs ==
    ASSUME CacheInv
    PROVE  /\ NextVersion \in Nat \ {0}
           /\ profile < NextVersion
           /\ \A u \in CacheUids : roster[u] < NextVersion
<1> DEFINE Newest(v) == /\ v \in {profile} \cup {roster[u] : u \in CacheUids}
                        /\ profile <= v /\ \A u \in CacheUids : roster[u] <= v
<1>1. \E v \in Versions : Newest(v)
  BY DEF CacheInv, NewestIsSomebodys
<1>2. NextVersion = 1 + CHOOSE v \in Versions : Newest(v)
  BY DEF NextVersion
<1> DEFINE w == CHOOSE v \in Versions : Newest(v)
<1>3. w \in Versions /\ Newest(w)
  BY <1>1
<1>4. w \in Nat /\ profile <= w /\ \A u \in CacheUids : roster[u] <= w
  BY <1>3, CacheAssumption DEF Versions
<1>5. profile \in Nat /\ \A u \in CacheUids : roster[u] \in Nat
  BY CacheAssumption DEF CacheInv, CacheTypeOK, Versions
<1> HIDE DEF w
<1>6. NextVersion = 1 + w
  BY <1>2 DEF w
<1> QED
  BY <1>4, <1>5, <1>6

LEMMA CacheInitially == CacheInit => CacheInv
<1> SUFFICES ASSUME CacheInit PROVE CacheInv
  OBVIOUS
<1>1. CacheTypeOK
  <2>1. members \in Partial
    BY AbsentIs DEF CacheInit
  <2>2. wire \in Seq(Callbacks \cup Answers)
    BY DEF CacheInit
  <2>3. profile \in Versions \ {0} /\ 0 \in Versions
    BY CacheAssumption DEF CacheInit, Versions
  <2> QED
    BY <2>1, <2>2, <2>3 DEF CacheInit, CacheTypeOK
<1>2. NewestIsSomebodys
  BY CacheAssumption DEF CacheInit, NewestIsSomebodys, Versions
<1> QED
  BY <1>1, <1>2 DEF CacheInit, CacheInv, NothingBefore

-----------------------------------------------------------------------------
(* The wire. *)

\* A frame that is the newest when it goes on the wire keeps what is there.
LEMMA WireSent ==
    ASSUME CacheTypeOK, MembersCatchUp, DetailCatchesUp, CacheFollows,
           NEW c \in WireFrames, wire' = Append(wire, c), UNCHANGED groupVars,
           \A u \in CacheUids : roster'[u] = roster[u] \/ (c.kind = "members" /\ u \in DOMAIN c.infos),
           profile' = profile \/ c.kind = "detail",
           \A u \in CacheUids :
               /\ c.kind \in {"members", "answer"} /\ u \in DOMAIN c.infos => c.infos[u] = roster'[u]
               /\ c.kind = "answer" /\ c.key = "members" /\ roster'[u] # 0 => u \in DOMAIN c.infos,
           c.kind \in {"detail", "answer"} => c.version = profile'
    PROVE  MembersCatchUp' /\ DetailCatchesUp' /\ CacheFollows'
<1> DEFINE n == Len(wire)
<1>1. /\ n \in Nat
      /\ DOMAIN wire = 1 .. n
      /\ DOMAIN wire' = 1 .. n + 1
      /\ \A i \in 1 .. n : wire'[i] = wire[i]
      /\ wire'[n + 1] = c
  BY DEF CacheTypeOK, WireFrames
<1> HIDE DEF n
<1>2. ASSUME NEW i \in 0 .. n, NEW u
      PROVE  /\ Later(i, u) => Later(i, u)'
             /\ c.kind = "members" /\ u \in DOMAIN c.infos => Later(i, u)'
  BY <1>1 DEF Later
<1>3. ASSUME NEW i \in 0 .. n
      PROVE  /\ DetailLater(i) => DetailLater(i)'
             /\ c.kind = "detail" => DetailLater(i)'
  BY <1>1 DEF DetailLater
<1>4. ASSUME NEW i \in DOMAIN wire'
      PROVE  i = n + 1 \/ (i \in DOMAIN wire /\ i \in 0 .. n /\ wire'[i] = wire[i])
  BY <1>1
<1>5. MembersCatchUp'
  <2> SUFFICES ASSUME NEW i \in DOMAIN wire', NEW u \in CacheUids
               PROVE  /\ wire'[i].kind \in {"members", "answer"} /\ u \in DOMAIN wire'[i].infos =>
                             wire'[i].infos[u] = roster'[u] \/ Later(i, u)'
                      /\ wire'[i].kind = "answer" /\ wire'[i].key = "members" /\ roster'[u] # 0 =>
                             u \in DOMAIN wire'[i].infos \/ Later(i, u)'
    BY DEF MembersCatchUp
  <2>1. CASE i = n + 1
    BY <1>1, <2>1
  <2>2. CASE i \in DOMAIN wire /\ i \in 0 .. n /\ wire'[i] = wire[i]
    BY <1>2, <2>2 DEF MembersCatchUp
  <2> QED
    BY <1>4, <2>1, <2>2
<1>6. DetailCatchesUp'
  <2> SUFFICES ASSUME NEW i \in DOMAIN wire', wire'[i].kind \in {"detail", "answer"}
               PROVE  wire'[i].version = profile' \/ DetailLater(i)'
    BY DEF DetailCatchesUp
  <2>1. CASE i = n + 1
    BY <1>1, <2>1
  <2>2. CASE i \in DOMAIN wire /\ i \in 0 .. n /\ wire'[i] = wire[i]
    BY <1>3, <2>2 DEF DetailCatchesUp
  <2> QED
    BY <1>4, <2>1, <2>2
<1>7. CacheFollows'
  <2>1. 0 \in 0 .. n
    BY <1>1
  <2> QED
    BY <1>2, <1>3, <2>1 DEF CacheFollows, groupVars
<1> QED
  BY <1>5, <1>6, <1>7

\* What is taken from the wire, and what stays there.
LEMMA WireTaken ==
    ASSUME CacheTypeOK, NEW kinds, OffWire(kinds)
    PROVE  /\ wire' \in Seq(WireFrames)
           /\ 1 \in DOMAIN wire /\ Head(wire) = wire[1] /\ wire[1] \in WireFrames
           /\ wire[1].kind \in kinds
           /\ \A i \in DOMAIN wire' : /\ i \in Nat /\ i > 0
                                      /\ i + 1 \in DOMAIN wire
                                      /\ wire'[i] = wire[i + 1]
           /\ \A i \in DOMAIN wire :
                  i # 1 => i \in Nat /\ i - 1 \in DOMAIN wire' /\ wire'[i - 1] = wire[i]
<1>1. wire \in Seq(WireFrames) /\ wire # <<>> /\ wire' = Tail(wire) /\ Head(wire).kind \in kinds
  BY DEF OffWire, CacheTypeOK, WireFrames
<1> DEFINE n == Len(wire)
<1>2. /\ n \in Nat \ {0} /\ DOMAIN wire = 1 .. n
      /\ Head(wire) = wire[1] /\ wire[1] \in WireFrames
      /\ wire' \in Seq(WireFrames)
      /\ DOMAIN wire' = 1 .. n - 1
      /\ \A i \in 1 .. n - 1 : wire'[i] = wire[i + 1]
  BY <1>1
<1> HIDE DEF n
<1> QED
  BY <1>1, <1>2

LEMMA LaterAfter ==
    ASSUME CacheTypeOK, NEW kinds, OffWire(kinds)
    PROVE  /\ \A u : \A i \in Nat \ {0} : Later(i, u) => Later(i - 1, u)'
           /\ \A u : Later(0, u) => Later(0, u)' \/ (wire[1].kind = "members" /\ u \in DOMAIN wire[1].infos)
           /\ \A i \in Nat \ {0} : DetailLater(i) => DetailLater(i - 1)'
           /\ DetailLater(0) => DetailLater(0)' \/ wire[1].kind = "detail"
<1>1. ASSUME NEW j \in DOMAIN wire, NEW i \in Nat \ {0}, j > i
      PROVE  j - 1 \in DOMAIN wire' /\ j - 1 > i - 1 /\ wire'[j - 1] = wire[j]
  <2>1. j # 1 /\ j \in Nat
    BY <1>1, WireTaken DEF CacheTypeOK
  <2> QED
    BY <1>1, <2>1, WireTaken
<1>2. ASSUME NEW j \in DOMAIN wire, j # 1
      PROVE  j - 1 \in DOMAIN wire' /\ j - 1 > 0 /\ wire'[j - 1] = wire[j]
  BY <1>2, WireTaken
<1>3. ASSUME NEW u, NEW i \in Nat \ {0}, Later(i, u) PROVE Later(i - 1, u)'
  BY <1>1, <1>3 DEF Later
<1>4. ASSUME NEW u, Later(0, u), ~(wire[1].kind = "members" /\ u \in DOMAIN wire[1].infos)
      PROVE  Later(0, u)'
  BY <1>2, <1>4 DEF Later
<1>5. ASSUME NEW i \in Nat \ {0}, DetailLater(i) PROVE DetailLater(i - 1)'
  BY <1>1, <1>5 DEF DetailLater
<1>6. ASSUME DetailLater(0), wire[1].kind # "detail" PROVE DetailLater(0)'
  BY <1>2, <1>6 DEF DetailLater
<1> QED
  BY <1>3, <1>4, <1>5, <1>6

LEMMA CatchUpAfter ==
    ASSUME CacheTypeOK, MembersCatchUp, DetailCatchesUp, NEW kinds, OffWire(kinds)
    PROVE  MembersCatchUp' /\ DetailCatchesUp'
<1>1. roster' = roster /\ profile' = profile
  BY DEF OffWire, cacheServerVars
<1>2. ASSUME NEW i \in DOMAIN wire'
      PROVE  /\ i + 1 \in DOMAIN wire /\ wire'[i] = wire[i + 1]
             /\ \A u : Later(i + 1, u) => Later(i, u)'
             /\ DetailLater(i + 1) => DetailLater(i)'
  <2>1. i \in Nat /\ i + 1 \in Nat \ {0} /\ (i + 1) - 1 = i
    BY WireTaken
  <2>2. /\ \A u : Later(i + 1, u) => Later((i + 1) - 1, u)'
        /\ DetailLater(i + 1) => DetailLater((i + 1) - 1)'
    BY <2>1, LaterAfter
  <2> QED
    BY <2>1, <2>2, WireTaken
<1>3. MembersCatchUp'
  BY <1>1, <1>2 DEF MembersCatchUp
<1>4. DetailCatchesUp'
  BY <1>1, <1>2 DEF DetailCatchesUp
<1> QED
  BY <1>3, <1>4

-----------------------------------------------------------------------------
(* The server. *)

LEMMA CallbackKeeps ==
    ASSUME CacheInv, NEW c \in WireFrames, c.kind \notin {"answer", "refusal"}, Callback(c),
           roster' \in [CacheUids -> Versions], profile' \in Versions \ {0}, NewestIsSomebodys',
           \A u \in CacheUids : roster'[u] = roster[u] \/ (c.kind = "members" /\ u \in DOMAIN c.infos),
           profile' = profile \/ c.kind = "detail",
           c.kind = "members" => \A u \in CacheUids \cap DOMAIN c.infos : c.infos[u] = roster'[u],
           c.kind = "detail" => c.version = profile'
    PROVE  CacheInv'
<1> USE DEF CacheInv
<1>1. /\ wire' = IF cacheLife = "registered" THEN Append(wire, c) ELSE wire
      /\ UNCHANGED <<cacheLife, groupVars, loadVars>>
  BY DEF Callback
<1>2. CacheTypeOK'
  <2>1. wire' \in Seq(Callbacks \cup Answers)
    BY <1>1 DEF CacheTypeOK, WireFrames
  <2> QED
    BY <1>1, <2>1 DEF CacheTypeOK, groupVars, loadVars
<1>3. NothingBefore'
  BY <1>1 DEF NothingBefore, groupVars, loadVars
<1>4. ASSUME cacheLife' = "registered" PROVE MembersCatchUp' /\ DetailCatchesUp' /\ CacheFollows'
  <2>1. cacheLife = "registered" /\ wire' = Append(wire, c) /\ UNCHANGED groupVars
    BY <1>1, <1>4
  <2> QED
    BY <2>1, WireSent
<1> QED
  BY <1>2, <1>3, <1>4

LEMMA MemberChangesKeeps ==
    ASSUME CacheInv, NEW u \in CacheUids, MemberChanges(u) PROVE CacheInv'
<1> DEFINE c == [kind |-> "members", infos |-> [v \in {u} |-> NextVersion]]
<1>1. Callback(c) /\ roster' = [roster EXCEPT ![u] = NextVersion] /\ profile' = profile
  BY DEF MemberChanges
<1>2. roster \in [CacheUids -> Versions] /\ profile \in Versions \ {0}
  BY DEF CacheInv, CacheTypeOK
<1>3. NextVersion \in Versions \ {0}
  BY <1>1, NextIs, CacheAssumption DEF Callback, Versions
<1>4. c \in WireFrames
  <2>1. /\ DOMAIN c.infos = {u} /\ DOMAIN c.infos \subseteq CacheUids
        /\ c.infos \in [DOMAIN c.infos -> Versions \ {0}]
    BY <1>3
  <2>2. c.infos \in Partial
    BY <2>1, PartialIs
  <2> QED
    BY <2>2 DEF WireFrames, Callbacks
<1>5. /\ roster' \in [CacheUids -> Versions]
      /\ roster'[u] = NextVersion
      /\ \A v \in CacheUids : v # u => roster'[v] = roster[v]
  BY <1>1, <1>2, <1>3
<1>6. NewestIsSomebodys'
  <2>1. profile' <= NextVersion /\ \A v \in CacheUids : roster'[v] <= NextVersion
    BY <1>1, <1>2, <1>5, NextIs, CacheAssumption DEF Versions
  <2>2. NextVersion \in {roster'[v] : v \in CacheUids}
    BY <1>5
  <2> QED
    BY <1>3, <2>1, <2>2 DEF NewestIsSomebodys
<1>7. /\ c.kind = "members" /\ DOMAIN c.infos = {u} /\ c.infos[u] = NextVersion
      /\ profile' \in Versions \ {0}
  BY <1>1, <1>2
<1> HIDE DEF c
<1> QED
  BY <1>1, <1>4, <1>5, <1>6, <1>7, CallbackKeeps

LEMMA DetailChangesKeeps ==
    ASSUME CacheInv, DetailChanges PROVE CacheInv'
<1> DEFINE c == [kind |-> "detail", version |-> NextVersion]
<1>1. Callback(c) /\ profile' = NextVersion /\ roster' = roster
  BY DEF DetailChanges
<1>2. roster' \in [CacheUids -> Versions]
  BY <1>1 DEF CacheInv, CacheTypeOK
<1>3. NextVersion \in Versions \ {0}
  BY <1>1, NextIs, CacheAssumption DEF Callback, Versions
<1>4. c \in WireFrames /\ c.kind = "detail" /\ c.version = profile'
  BY <1>1, <1>3 DEF WireFrames, Callbacks
<1>5. NewestIsSomebodys'
  <2>1. profile' <= NextVersion /\ \A v \in CacheUids : roster'[v] <= NextVersion
    BY <1>1, <1>2, NextIs, CacheAssumption DEF Versions
  <2> QED
    BY <1>1, <1>3, <2>1 DEF NewestIsSomebodys
<1> HIDE DEF c
<1> QED
  BY <1>1, <1>2, <1>3, <1>4, <1>5, CallbackKeeps

LEMMA GroupsPushedKeeps ==
    ASSUME CacheInv, NEW has \in BOOLEAN, GroupsPushed(has) PROVE CacheInv'
<1> DEFINE c == [kind |-> "groups", has |-> has]
<1>1. Callback(c) /\ profile' = profile /\ roster' = roster
  BY DEF GroupsPushed, cacheServerVars
<1>2. c \in WireFrames /\ c.kind = "groups"
  BY DEF WireFrames, Callbacks
<1>3. roster' \in [CacheUids -> Versions] /\ profile' \in Versions \ {0} /\ NewestIsSomebodys'
  BY <1>1 DEF CacheInv, CacheTypeOK, NewestIsSomebodys
<1> HIDE DEF c
<1> QED
  BY <1>1, <1>2, <1>3, CallbackKeeps

LEMMA LoadAnsweredKeeps ==
    ASSUME CacheInv, NEW k \in Calls, LoadAnswered(k) PROVE CacheInv'
<1> USE DEF CacheInv
<1>1. PICK kind \in {"answer", "refusal"} :
          wire' = Append(wire, [kind |-> kind, key |-> k, infos |-> Found(k), version |-> profile])
  BY DEF LoadAnswered
<1> DEFINE c == [kind |-> kind, key |-> k, infos |-> Found(k), version |-> profile]
<1>2. /\ loading[k] > 0 /\ loading' = [loading EXCEPT ![k] = @ - 1]
      /\ UNCHANGED <<cacheServerVars, cacheLife, groupVars, inFlight, reading, awaits>>
  BY DEF LoadAnswered
<1>3. /\ Found(k) \in Partial
      /\ \A u \in DOMAIN Found(k) : Found(k)[u] = roster[u]
      /\ k = "members" => \A u \in CacheUids : roster[u] # 0 => u \in DOMAIN Found(k)
  BY FoundIs DEF CacheTypeOK
<1>4. c \in WireFrames
  BY <1>3 DEF CacheTypeOK, WireFrames, Answers
<1>5. CacheTypeOK'
  <2>1. wire' \in Seq(Callbacks \cup Answers)
    BY <1>1, <1>4 DEF CacheTypeOK, WireFrames
  <2>2. loading' \in [Calls -> Nat]
    BY <1>2 DEF CacheTypeOK
  <2> QED
    BY <1>2, <2>1, <2>2 DEF CacheTypeOK, groupVars, cacheServerVars
<1>6. NewestIsSomebodys'
  BY <1>2 DEF NewestIsSomebodys, cacheServerVars
<1>7. NothingBefore'
  <2>1. cacheLife # "new"
    BY <1>2 DEF NothingBefore
  <2> QED
    BY <1>2, <2>1 DEF NothingBefore
<1>8. ASSUME cacheLife' = "registered" PROVE MembersCatchUp' /\ DetailCatchesUp' /\ CacheFollows'
  <2>1. /\ c.kind \in {"answer", "refusal"} /\ c.key = k
        /\ c.infos = Found(k) /\ c.version = profile
        /\ wire' = Append(wire, c)
    BY <1>1
  <2>2. roster' = roster /\ profile' = profile /\ UNCHANGED groupVars /\ cacheLife = "registered"
    BY <1>2, <1>8 DEF cacheServerVars
  <2> HIDE DEF c
  <2> QED
    BY <1>3, <1>4, <2>1, <2>2, WireSent
<1> QED
  BY <1>5, <1>6, <1>7, <1>8

-----------------------------------------------------------------------------
(* The life of the cache, and its readers. *)

LEMMA LifeKeeps ==
    ASSUME CacheInv, RegisterCaches \/ DisposeCaches PROVE CacheInv'
<1> USE DEF CacheInv, cacheServerVars, groupVars, loadVars
<1>1. NewestIsSomebodys'
  BY DEF RegisterCaches, DisposeCaches, NewestIsSomebodys
<1>2. NothingBefore'
  BY DEF RegisterCaches, DisposeCaches, NothingBefore
<1>3. CacheTypeOK'
  <2>1. CASE RegisterCaches
    BY <2>1 DEF RegisterCaches, CacheTypeOK
  <2>2. CASE DisposeCaches
    <3>1. members' \in Partial /\ 0 \in Versions
      BY <2>2, AbsentIs, CacheAssumption DEF DisposeCaches, Versions
    <3> QED
      BY <2>2, <3>1 DEF DisposeCaches, CacheTypeOK
  <2> QED
    BY <2>1, <2>2
<1>4. ASSUME cacheLife' = "registered" PROVE MembersCatchUp' /\ DetailCatchesUp' /\ CacheFollows'
  <2>1. /\ wire' = <<>> /\ ~loaded' /\ detail' = 0
    BY <1>4 DEF RegisterCaches, DisposeCaches, NothingBefore
  <2> QED
    BY <2>1 DEF MembersCatchUp, DetailCatchesUp, CacheFollows
<1> QED
  BY <1>1, <1>2, <1>3, <1>4

LEMMA ReadingKeeps ==
    ASSUME CacheInv, UNCHANGED <<cacheServerVars, wire, cacheLife, groupVars>>,
           cacheLife = "registered" \/ UNCHANGED loading,
           loading' \in [Calls -> Nat], inFlight' \subseteq CacheKeys,
           reading' \in [CacheReaders -> {"nothing", "group", "refresh", "detail", "members"} \cup CacheUids],
           awaits' \in [CacheReaders -> Calls \cup {"nothing", "poll"}]
    PROVE  CacheInv'
<1> USE DEF CacheInv, cacheServerVars, groupVars
<1>1. CacheTypeOK' /\ NewestIsSomebodys' /\ NothingBefore'
  BY DEF CacheTypeOK, NewestIsSomebodys, NothingBefore
<1>2. ASSUME cacheLife' = "registered" PROVE MembersCatchUp' /\ DetailCatchesUp' /\ CacheFollows'
  BY <1>2 DEF MembersCatchUp, DetailCatchesUp, CacheFollows, Later, DetailLater
<1> QED
  BY <1>1, <1>2

LEMMA CalledKeeps ==
    ASSUME CacheInv, NEW r \in CacheReaders, NEW k \in Calls,
           NEW what \in {"group", "refresh", "detail", "members"} \cup CacheUids,
           Called(r, what, k),
           \/ k \in CacheKeys /\ Dedupe({r}, k)
           \/ loading' = [loading EXCEPT ![k] = @ + 1] /\ UNCHANGED inFlight
    PROVE  CacheInv'
<1>1. loading' \in [Calls -> Nat] /\ inFlight' \subseteq CacheKeys
  BY DEF Dedupe, CacheInv, CacheTypeOK
<1>2. /\ reading' \in [CacheReaders -> {"nothing", "group", "refresh", "detail", "members"} \cup CacheUids]
      /\ awaits' \in [CacheReaders -> Calls \cup {"nothing", "poll"}]
      /\ cacheLife = "registered" /\ UNCHANGED <<cacheServerVars, wire, cacheLife, groupVars>>
  BY DEF Called, CacheInv, CacheTypeOK
<1> QED
  BY <1>1, <1>2, ReadingKeeps

LEMMA ReaderKeeps ==
    ASSUME CacheInv, NEW r \in CacheReaders,
           \/ GetMembers(r) \/ GetGroupDetail(r) \/ GetGroup(r)
           \/ ListGroupsRefreshed(r) \/ PollEnds(r)
           \/ \E u \in CacheUids : GetMember(r, u)
    PROVE  CacheInv'
<1>0. /\ {"members", "detail", "group-list"} \subseteq CacheKeys
      /\ CacheUids \subseteq CacheKeys /\ CacheKeys \subseteq Calls /\ r \in Calls
  BY DEF CacheKeys, Calls
<1>1. CASE GetMembers(r)
  BY <1>0, <1>1, CalledKeeps DEF GetMembers
<1>2. CASE GetGroupDetail(r)
  BY <1>0, <1>2, CalledKeeps DEF GetGroupDetail
<1>3. CASE GetGroup(r)
  BY <1>0, <1>3, CalledKeeps DEF GetGroup
<1>4. CASE ListGroupsRefreshed(r)
  BY <1>0, <1>4, CalledKeeps DEF ListGroupsRefreshed
<1>5. ASSUME NEW u \in CacheUids, GetMember(r, u) PROVE CacheInv'
  <2>1. PICK k \in {"members", u} : Called(r, u, k) /\ Dedupe({r}, k)
    BY <1>5 DEF GetMember
  <2>2. k \in CacheKeys /\ k \in Calls
    BY <1>0
  <2> QED
    BY <2>1, <2>2, CalledKeeps
<1>6. CASE PollEnds(r)
  <2>1. /\ reading' \in [CacheReaders -> {"nothing", "group", "refresh", "detail", "members"} \cup CacheUids]
        /\ awaits' \in [CacheReaders -> Calls \cup {"nothing", "poll"}]
    BY <1>6 DEF PollEnds, CacheInv, CacheTypeOK
  <2>2. /\ UNCHANGED <<cacheServerVars, wire, cacheLife, groupVars>>
        /\ loading' = loading /\ inFlight' = inFlight
    BY <1>6 DEF PollEnds
  <2>3. loading' \in [Calls -> Nat] /\ inFlight' \subseteq CacheKeys
    BY <2>2 DEF CacheInv, CacheTypeOK
  <2> QED
    BY <2>1, <2>2, <2>3, ReadingKeeps
<1> QED
  BY <1>1, <1>2, <1>3, <1>4, <1>5, <1>6

-----------------------------------------------------------------------------
(* The head of the wire is delivered. *)

LEMMA DeliveredKeeps ==
    ASSUME CacheInv, NEW kinds, OffWire(kinds),
           members' \in Partial, loaded' \in BOOLEAN, detail' \in Versions, listed' \in BOOLEAN,
           loading' \in [Calls -> Nat], inFlight' \subseteq CacheKeys,
           reading' \in [CacheReaders -> {"nothing", "group", "refresh", "detail", "members"} \cup CacheUids],
           awaits' \in [CacheReaders -> Calls \cup {"nothing", "poll"}],
           cacheLife = "registered" => CacheFollows'
    PROVE  CacheInv'
<1> USE DEF CacheInv
<1>1. /\ roster' = roster /\ profile' = profile /\ cacheLife' = cacheLife /\ wire # <<>>
      /\ wire' \in Seq(Callbacks \cup Answers)
  BY WireTaken DEF OffWire, cacheServerVars, WireFrames
<1>2. CacheTypeOK' /\ NewestIsSomebodys' /\ NothingBefore'
  BY <1>1 DEF CacheTypeOK, NewestIsSomebodys, NothingBefore
<1> QED
  BY <1>1, <1>2, CatchUpAfter

LEMMA MembersHeard ==
    ASSUME CacheInv, OnMembers PROVE CacheInv'
<1> USE DEF CacheInv
<1> DEFINE infos == Head(wire).infos
<1>1. /\ OffWire({"members"}) /\ UNCHANGED <<loadVars, loaded, detail, listed>>
      /\ IF cacheLife = "registered" THEN UpsertMembers(infos) ELSE UNCHANGED members
  BY DEF OnMembers, Heard
<1>2. wire[1].kind = "members" /\ Head(wire) = wire[1] /\ 1 \in DOMAIN wire /\ wire[1] \in WireFrames
  BY <1>1, WireTaken
<1>3. infos \in Partial /\ members \in Partial
  BY <1>2, FrameFields DEF CacheTypeOK
<1>4. members' \in Partial
  BY <1>1, <1>3, MergedIs DEF UpsertMembers
<1>5. ASSUME cacheLife = "registered" PROVE CacheFollows'
  <2>1. /\ DOMAIN members' = DOMAIN members \cup DOMAIN infos
        /\ \A u \in DOMAIN members' : members'[u] = IF u \in DOMAIN infos THEN infos[u] ELSE members[u]
    BY <1>1, <1>5 DEF UpsertMembers
  <2>2. ASSUME NEW u \in CacheUids, loaded, roster[u] # 0
        PROVE  (u \in DOMAIN members' /\ members'[u] = roster[u]) \/ Later(0, u)'
    <3>1. CASE u \in DOMAIN infos
      <4>1. infos[u] = roster[u] \/ Later(1, u)
        BY <1>2, <1>5, <3>1 DEF MembersCatchUp
      <4>2. Later(1, u) => Later(1 - 1, u)'
        BY <1>1, LaterAfter
      <4> QED
        BY <2>1, <3>1, <4>1, <4>2
    <3>2. CASE u \notin DOMAIN infos
      <4>1. (u \in DOMAIN members /\ members[u] = roster[u]) \/ Later(0, u)
        BY <1>5, <2>2 DEF CacheFollows
      <4>2. Later(0, u) => Later(0, u)'
        BY <1>1, <1>2, <3>2, LaterAfter
      <4> QED
        BY <2>1, <3>2, <4>1, <4>2
    <3> QED
      BY <3>1, <3>2
  <2>3. DetailLater(0) => DetailLater(0)'
    BY <1>1, <1>2, LaterAfter
  <2> QED
    BY <1>1, <1>5, <2>2, <2>3 DEF CacheFollows, OffWire, cacheServerVars
<1> QED
  BY <1>1, <1>4, <1>5, DeliveredKeeps DEF CacheTypeOK, loadVars

LEMMA DetailHeard ==
    ASSUME CacheInv, OnDetail PROVE CacheInv'
<1> USE DEF CacheInv
<1>1. /\ OffWire({"detail"}) /\ UNCHANGED <<loadVars, members, loaded, listed>>
      /\ detail' = IF cacheLife = "registered" THEN Head(wire).version ELSE detail
  BY DEF OnDetail, Heard
<1>2. wire[1].kind = "detail" /\ Head(wire) = wire[1] /\ 1 \in DOMAIN wire /\ wire[1] \in WireFrames
  BY <1>1, WireTaken
<1>3. detail' \in Versions
  BY <1>1, <1>2, FrameFields DEF CacheTypeOK
<1>4. ASSUME cacheLife = "registered" PROVE CacheFollows'
  <2>1. \A u : Later(0, u) => Later(0, u)'
    BY <1>1, <1>2, LaterAfter
  <2>2. detail' = profile \/ DetailLater(1)
    BY <1>1, <1>2, <1>4 DEF DetailCatchesUp
  <2>3. DetailLater(1) => DetailLater(1 - 1)'
    BY <1>1, LaterAfter
  <2> QED
    BY <1>1, <1>4, <2>1, <2>2, <2>3 DEF CacheFollows, OffWire, cacheServerVars
<1> QED
  BY <1>1, <1>3, <1>4, DeliveredKeeps DEF CacheTypeOK, loadVars

\* A frame that touches neither members nor details
LEMMA OtherDelivered ==
    ASSUME CacheInv, NEW kinds, OffWire(kinds), cacheLife = "registered",
           "members" \notin kinds, "detail" \notin kinds,
           UNCHANGED <<members, loaded, detail>>
    PROVE  CacheFollows'
<1>1. wire[1].kind \notin {"members", "detail"}
  BY WireTaken DEF CacheInv
<1>2. DetailLater(0) => DetailLater(0)'
  BY <1>1, LaterAfter DEF CacheInv
<1>3. \A u : Later(0, u) => Later(0, u)'
  BY <1>1, LaterAfter DEF CacheInv
<1> QED
  BY <1>2, <1>3 DEF CacheInv, CacheFollows, OffWire, cacheServerVars

LEMMA GroupsHeard ==
    ASSUME CacheInv, OnGroups PROVE CacheInv'
<1> USE DEF CacheInv
<1>1. /\ OffWire({"groups"}) /\ UNCHANGED <<loadVars, members, loaded, detail>>
      /\ listed' = IF cacheLife = "registered" THEN Head(wire).has ELSE listed
  BY DEF OnGroups, Heard
<1>2. wire[1].kind = "groups" /\ Head(wire) = wire[1] /\ wire[1] \in WireFrames
  BY <1>1, WireTaken
<1>3. listed' \in BOOLEAN
  BY <1>1, <1>2, FrameFields DEF CacheTypeOK
<1>4. cacheLife = "registered" => CacheFollows'
  BY <1>1, OtherDelivered
<1> QED
  BY <1>1, <1>3, <1>4, DeliveredKeeps DEF CacheTypeOK, loadVars

LEMMA GoOnIs ==
    ASSUME CacheTypeOK, NEW k, NEW next, GoOn(k, next),
           \A r \in CacheReaders : awaits[r] = k => next[r] \in Calls \cup {"nothing", "poll"}
    PROVE  /\ reading' \in [CacheReaders -> {"nothing", "group", "refresh", "detail", "members"} \cup CacheUids]
           /\ awaits' \in [CacheReaders -> Calls \cup {"nothing", "poll"}]
  BY DEF GoOn, CacheTypeOK

LEMMA RefusalKeeps ==
    ASSUME CacheInv, OnRefusal PROVE CacheInv'
<1> USE DEF CacheInv
<1>1. /\ OffWire({"refusal"}) /\ UNCHANGED <<loading, members, loaded, detail, listed>>
      /\ inFlight' \subseteq inFlight
      /\ GoOn(Head(wire).key, [r \in CacheReaders |-> "nothing"])
  BY DEF OnRefusal, Settle, groupVars
<1>2. /\ reading' \in [CacheReaders -> {"nothing", "group", "refresh", "detail", "members"} \cup CacheUids]
      /\ awaits' \in [CacheReaders -> Calls \cup {"nothing", "poll"}]
  BY <1>1, GoOnIs
<1>3. cacheLife = "registered" => CacheFollows'
  BY <1>1, OtherDelivered
<1> QED
  BY <1>1, <1>2, <1>3, DeliveredKeeps DEF CacheTypeOK

LEMMA AnswerKeeps ==
    ASSUME CacheInv, OnAnswer PROVE CacheInv'
<1> USE DEF CacheInv
<1> DEFINE k == Head(wire).key
           data == Head(wire).infos
           one(r) == k = "members" /\ reading[r] \in CacheUids /\ reading[r] \notin DOMAIN data
           next == [r \in CacheReaders |-> IF one(r) THEN reading[r]
                                           ELSE IF k = r THEN "poll" ELSE "nothing"]
           lookups == {reading[r] : r \in {q \in CacheReaders : awaits[q] = k /\ one(q)}}
<1>1. /\ OffWire({"answer"}) /\ StoreMembers(k, data) /\ GoOn(k, next)
      /\ loaded' = (loaded \/ (k = "members" /\ cacheLife = "registered"))
      /\ detail' = IF k = "detail" THEN Head(wire).version ELSE detail
      /\ inFlight' = (inFlight \ {k}) \cup lookups
      /\ loading' = [q \in Calls |-> loading[q] + IF q \in lookups \ inFlight THEN 1 ELSE 0]
      /\ listed' = listed
  BY DEF OnAnswer
<1>2. /\ wire[1].kind = "answer" /\ Head(wire) = wire[1] /\ 1 \in DOMAIN wire
      /\ data \in Partial /\ Head(wire).version \in Versions
  BY <1>1, WireTaken, FrameFields
<1>3. lookups \subseteq CacheUids /\ CacheUids \subseteq CacheKeys /\ CacheUids \subseteq Calls
  BY DEF CacheKeys, Calls
<1>4. /\ reading' \in [CacheReaders -> {"nothing", "group", "refresh", "detail", "members"} \cup CacheUids]
      /\ awaits' \in [CacheReaders -> Calls \cup {"nothing", "poll"}]
  <2>1. \A r \in CacheReaders : next[r] \in Calls \cup {"nothing", "poll"}
    BY <1>3
  <2> HIDE DEF next
  <2> QED
    BY <1>1, <2>1, GoOnIs
<1>5. /\ loading' \in [Calls -> Nat] /\ inFlight' \subseteq CacheKeys
      /\ loaded' \in BOOLEAN /\ detail' \in Versions /\ listed' \in BOOLEAN
  <2>1. loading \in [Calls -> Nat] /\ inFlight \subseteq CacheKeys /\ detail \in Versions
        /\ listed \in BOOLEAN
    BY DEF CacheTypeOK
  <2> HIDE DEF lookups
  <2> QED
    BY <1>1, <1>2, <1>3, <2>1
<1> DEFINE Merged == [u \in DOMAIN members \cup DOMAIN data |->
                         IF u \in DOMAIN data THEN data[u] ELSE members[u]]
<1>6. members' = IF k = "members" THEN data
                 ELSE IF k \in CacheUids /\ members # Absent THEN Merged ELSE members
  BY <1>1 DEF StoreMembers
<1>7. members' \in Partial
  <2>1. Merged \in Partial
    BY <1>2, MergedIs DEF CacheTypeOK
  <2> QED
    BY <1>2, <1>6, <2>1 DEF CacheTypeOK
<1>8. ASSUME cacheLife = "registered" PROVE CacheFollows'
  <2>1. roster' = roster /\ profile' = profile
    BY <1>1 DEF OffWire, cacheServerVars
  <2>2. \A u : (Later(0, u) => Later(0, u)') /\ (Later(1, u) => Later(1 - 1, u)')
    BY <1>1, <1>2, LaterAfter
  <2>3. (DetailLater(0) => DetailLater(0)') /\ (DetailLater(1) => DetailLater(1 - 1)')
    BY <1>1, <1>2, LaterAfter
  <2>4. ASSUME NEW u \in CacheUids, u \in DOMAIN data PROVE data[u] = roster[u] \/ Later(0, u)'
    <3>1. data[u] = roster[u] \/ Later(1, u)
      BY <1>2, <1>8, <2>4 DEF MembersCatchUp
    <3> QED
      BY <2>2, <3>1
  <2>5. ASSUME NEW u \in CacheUids, loaded', roster[u] # 0
        PROVE  (u \in DOMAIN members' /\ members'[u] = roster[u]) \/ Later(0, u)'
    <3>1. CASE k = "members"
      <4>1. u \in DOMAIN data \/ Later(1, u)
        BY <1>2, <1>8, <2>5, <3>1 DEF MembersCatchUp
      <4> QED
        BY <1>6, <2>2, <2>4, <3>1, <4>1
    <3>2. CASE k # "members"
      <4>1. (u \in DOMAIN members /\ members[u] = roster[u]) \/ Later(0, u)
        BY <1>1, <1>8, <2>5, <3>2 DEF CacheFollows
      <4>2. CASE members' = members
        BY <2>2, <4>1, <4>2
      <4>3. CASE members' = Merged
        <5>1. DOMAIN members' = DOMAIN members \cup DOMAIN data
          BY <4>3
        <5>2. CASE u \in DOMAIN data
          <6>1. members'[u] = data[u]
            BY <4>3, <5>2
          <6> QED
            BY <2>4, <5>1, <5>2, <6>1
        <5>3. CASE u \notin DOMAIN data /\ u \in DOMAIN members
          <6>1. members'[u] = members[u]
            BY <4>3, <5>3
          <6> QED
            BY <2>2, <4>1, <5>1, <5>3, <6>1
        <5>4. CASE u \notin DOMAIN data /\ u \notin DOMAIN members
          BY <2>2, <4>1, <5>4
        <5> QED
          BY <5>2, <5>3, <5>4
      <4> QED
        BY <1>6, <3>2, <4>2, <4>3
    <3> QED
      BY <3>1, <3>2
  <2>6. ASSUME detail' # 0 PROVE detail' = profile \/ DetailLater(0)'
    <3>1. CASE k = "detail"
      <4>1. detail' = profile \/ DetailLater(1)
        BY <1>1, <1>2, <1>8, <3>1 DEF DetailCatchesUp
      <4> QED
        BY <2>3, <4>1
    <3>2. CASE k # "detail"
      BY <1>1, <1>8, <2>3, <2>6, <3>2 DEF CacheFollows
    <3> QED
      BY <3>1, <3>2
  <2> QED
    BY <2>1, <2>5, <2>6 DEF CacheFollows
<1> QED
  BY <1>1, <1>4, <1>5, <1>7, <1>8, DeliveredKeeps

LEMMA CacheNextKeeps == CacheInv /\ [CacheNext]_cacheVars => CacheInv'
<1> SUFFICES ASSUME CacheInv, [CacheNext]_cacheVars PROVE CacheInv'
  OBVIOUS
<1>1. CASE (\E u \in CacheUids : MemberChanges(u)) \/ DetailChanges \/ \E has \in BOOLEAN : GroupsPushed(has)
  BY <1>1, MemberChangesKeeps, DetailChangesKeeps, GroupsPushedKeeps
<1>2. ASSUME NEW k \in Calls, LoadAnswered(k) PROVE CacheInv'
  BY <1>2, LoadAnsweredKeeps
<1>3. CASE RegisterCaches \/ DisposeCaches
  BY <1>3, LifeKeeps
<1>4. ASSUME NEW r \in CacheReaders,
             \/ GetMembers(r) \/ GetGroupDetail(r) \/ GetGroup(r)
             \/ ListGroupsRefreshed(r) \/ PollEnds(r)
             \/ \E u \in CacheUids : GetMember(r, u)
      PROVE  CacheInv'
  BY <1>4, ReaderKeeps
<1>5. CASE OnMembers \/ OnDetail \/ OnGroups \/ OnAnswer \/ OnRefusal
  BY <1>5, MembersHeard, DetailHeard, GroupsHeard, AnswerKeeps, RefusalKeeps
<1>6. CASE UNCHANGED cacheVars
  <2>1. UNCHANGED <<cacheServerVars, wire, cacheLife, groupVars, loadVars>>
    BY <1>6 DEF cacheVars
  <2>2. /\ loading' \in [Calls -> Nat] /\ inFlight' \subseteq CacheKeys
        /\ reading' \in [CacheReaders -> {"nothing", "group", "refresh", "detail", "members"} \cup CacheUids]
        /\ awaits' \in [CacheReaders -> Calls \cup {"nothing", "poll"}]
    BY <2>1 DEF CacheInv, CacheTypeOK, loadVars
  <2> QED
    BY <2>1, <2>2, ReadingKeeps DEF loadVars
<1> QED
  BY <1>1, <1>2, <1>3, <1>4, <1>5, <1>6 DEF CacheNext

LEMMA CacheInvariance == CacheSpec => []CacheInv
  BY CacheInitially, CacheNextKeeps, PTL DEF CacheSpec

\* For any group, any readers and any order of loads, look-ups and changes: the
\* member list and the details kept by GroupCache are the newest as soon as no
\* callback is under way.
THEOREM CacheCatchesUp == CacheSpec => []CacheCurrent
<1>1. ASSUME CacheInv PROVE CacheCurrent
  BY <1>1 DEF CacheInv, CacheFollows, Later, DetailLater, CacheCurrent, OnWire
<1> QED
  BY <1>1, CacheInvariance, PTL

-----------------------------------------------------------------------------
(***************************************************************************)
(* Sending. A call learns its end from reports of its message's id, so the *)
(* inductive invariant says that the ids of nextMsgTime are apart and that *)
(* each report is true of the message that has the id. With it every step  *)
(* of a call is a step of Delivery or changes nothing there.               *)
(***************************************************************************)

Reports == [guildId : Nat, sendStatus : {"sending", "success", "failed"}]

SendTypes ==
    /\ now \in Nat
    /\ lastMsgTime \in Nat
    /\ call \in [Sends -> [kind : Kinds, step : Steps]]
    /\ msgIdOf \in [Sends -> Nat]
    /\ awaiting \in [Sends -> BOOLEAN]
    /\ confirmed \in [Sends -> {"none", "pending", "ok", "failed"}]
    /\ answer \in [Sends -> {"none", "ok", "refused", "threw"}]
    /\ native \in [Sends -> {"none", "taken", "sent", "refused"}]
    /\ updates \in Seq(Reports)

\* The native side knows the message by an id of nextMsgTime.
Numbered(s) == call[s].kind # "forward" /\ native[s] # "none"

\* nextMsgTime gives each message an id of its own.
IdsApart ==
    /\ \A s \in Sends : Numbered(s) => msgIdOf[s] <= lastMsgTime
    /\ \A s, t \in Sends : Numbered(s) /\ Numbered(t) /\ msgIdOf[s] = msgIdOf[t] => s = t

\* What is reported of an id is true of the message that has it.
ReportsTrue ==
    \A i \in 1 .. Len(updates) : \E s \in Sends :
        /\ Numbered(s)
        /\ msgIdOf[s] = updates[i].guildId
        /\ updates[i].sendStatus = "success" => native[s] = "sent"

\* How far a call is, and what it may have been told by then.
CallsAccounted ==
    \A s \in Sends :
        /\ At(s, "idle") \/ At(s, "preparing") \/ At(s, "building") =>
               native[s] = "none" /\ ~awaiting[s]
        /\ At(s, "preparing") => call[s].kind # "forward"
        /\ At(s, "building") => call[s].kind = "forward"
        /\ native[s] = "none" => answer[s] = "none"
        /\ awaiting[s] => Numbered(s)
        /\ confirmed[s] = "ok" => native[s] = "sent"

SendInv ==
    /\ SendTypes
    /\ IdsApart
    /\ ReportsTrue
    /\ CallsAccounted
    /\ OkWasSent

-----------------------------------------------------------------------------
LEMMA SendInitially == SendInit => SendInv
<1> SUFFICES ASSUME SendInit PROVE SendInv
  OBVIOUS
<1>1. SendTypes
  <2>1. awaiting \in [Sends -> BOOLEAN]
    BY Zenon DEF SendInit
  <2>2. updates \in Seq(Reports)
    BY DEF SendInit
  <2> QED
    BY <2>1, <2>2 DEF SendInit, SendTypes, Kinds, Steps
<1>2. IdsApart /\ ReportsTrue /\ CallsAccounted /\ OkWasSent
  BY DEF SendInit, IdsApart, ReportsTrue, CallsAccounted, OkWasSent, Numbered, At
<1> QED
  BY <1>1, <1>2 DEF SendInv

(* One lemma per action: what it preserves.                                *)

USE DEF Kinds, Steps, Reports, At, Go

LEMMA AppendTyped ==
    ASSUME NEW S, NEW q \in Seq(S), NEW e \in S PROVE Append(q, e) \in Seq(S)
OBVIOUS

LEMMA HeadTyped ==
    ASSUME NEW S, NEW q \in Seq(S), q # << >>
    PROVE  Head(q) = q[1] /\ 1 \in 1 .. Len(q) /\ Head(q) \in S
OBVIOUS

LEMMA GoTyped ==
    ASSUME call \in [Sends -> [kind : Kinds, step : Steps]],
           NEW s \in Sends, NEW st \in Steps, Go(s, st)
    PROVE  call' \in [Sends -> [kind : Kinds, step : Steps]]
OBVIOUS

\* What the native side has said stays true where numbers and ends are kept.
LEMMA ReportsStayTrue ==
    ASSUME ReportsTrue, UNCHANGED updates,
           \A t \in Sends : Numbered(t) =>
               /\ Numbered(t)'
               /\ msgIdOf'[t] = msgIdOf[t]
               /\ native[t] = "sent" => native'[t] = "sent"
    PROVE  ReportsTrue'
<1> SUFFICES ASSUME NEW i \in 1 .. Len(updates)
             PROVE  \E t \in Sends : /\ Numbered(t)'
                                     /\ msgIdOf'[t] = updates[i].guildId
                                     /\ updates[i].sendStatus = "success" => native'[t] = "sent"
  BY DEF ReportsTrue
<1>1. PICK t \in Sends : /\ Numbered(t)
                         /\ msgIdOf[t] = updates[i].guildId
                         /\ updates[i].sendStatus = "success" => native[t] = "sent"
  BY DEF ReportsTrue
<1> QED
  BY <1>1

LEMMA MillisecondPassesKeeps ==
    ASSUME SendInv, MillisecondPasses
    PROVE  SendInv'
<1> USE DEF SendInv, MillisecondPasses
<1>1. SendTypes'
  BY DEF SendTypes
<1>2. IdsApart'
  BY DEF SendTypes, IdsApart, CallsAccounted, Numbered
<1>3. ReportsTrue'
  <2>1. \A t \in Sends : Numbered(t) =>
           Numbered(t)' /\ msgIdOf'[t] = msgIdOf[t] /\ (native[t] = "sent" => native'[t] = "sent")
    BY DEF SendTypes, CallsAccounted, Numbered
  <2> QED
    BY <2>1, ReportsStayTrue
<1>4. CallsAccounted'
  BY DEF SendTypes, IdsApart, ReportsTrue, CallsAccounted, Numbered
<1>5. OkWasSent'
  BY DEF SendTypes, CallsAccounted, OkWasSent
<1> QED
  BY <1>1, <1>2, <1>3, <1>4, <1>5

LEMMA StartSendKeeps ==
    ASSUME SendInv, NEW s \in Sends, NEW el \in Media, StartSend(s, el)
    PROVE  SendInv'
<1> USE DEF SendInv, StartSend
<1>1. SendTypes'
  BY DEF SendTypes
<1>2. IdsApart'
  BY DEF SendTypes, IdsApart, CallsAccounted, Numbered
<1>3. ReportsTrue'
  <2>1. \A t \in Sends : Numbered(t) =>
           Numbered(t)' /\ msgIdOf'[t] = msgIdOf[t] /\ (native[t] = "sent" => native'[t] = "sent")
    BY DEF SendTypes, CallsAccounted, Numbered
  <2> QED
    BY <2>1, ReportsStayTrue
<1>4. CallsAccounted'
  BY DEF SendTypes, IdsApart, ReportsTrue, CallsAccounted, Numbered
<1>5. OkWasSent'
  BY DEF SendTypes, CallsAccounted, OkWasSent
<1> QED
  BY <1>1, <1>2, <1>3, <1>4, <1>5

LEMMA PlaceMediaFileKeeps ==
    ASSUME SendInv, NEW s \in Sends, PlaceMediaFile(s)
    PROVE  SendInv'
<1> USE DEF SendInv, PlaceMediaFile
<1>1. SendTypes'
  BY DEF SendTypes
<1>2. IdsApart'
  BY DEF SendTypes, IdsApart, CallsAccounted, Numbered
<1>3. ReportsTrue'
  <2>1. \A t \in Sends : Numbered(t) =>
           Numbered(t)' /\ msgIdOf'[t] = msgIdOf[t] /\ (native[t] = "sent" => native'[t] = "sent")
    BY DEF SendTypes, CallsAccounted, Numbered
  <2> QED
    BY <2>1, ReportsStayTrue
<1>4. CallsAccounted'
  BY DEF SendTypes, IdsApart, ReportsTrue, CallsAccounted, Numbered
<1>5. OkWasSent'
  BY DEF SendTypes, CallsAccounted, OkWasSent
<1> QED
  BY <1>1, <1>2, <1>3, <1>4, <1>5

LEMMA PrepareFailsKeeps ==
    ASSUME SendInv, NEW s \in Sends, PrepareFails(s)
    PROVE  SendInv'
<1> USE DEF SendInv, PrepareFails
<1>1. SendTypes'
  BY DEF SendTypes
<1>2. IdsApart'
  BY DEF SendTypes, IdsApart, CallsAccounted, Numbered
<1>3. ReportsTrue'
  <2>1. \A t \in Sends : Numbered(t) =>
           Numbered(t)' /\ msgIdOf'[t] = msgIdOf[t] /\ (native[t] = "sent" => native'[t] = "sent")
    BY DEF SendTypes, CallsAccounted, Numbered
  <2> QED
    BY <2>1, ReportsStayTrue
<1>4. CallsAccounted'
  BY DEF SendTypes, IdsApart, ReportsTrue, CallsAccounted, Numbered
<1>5. OkWasSent'
  BY DEF SendTypes, CallsAccounted, OkWasSent
<1> QED
  BY <1>1, <1>2, <1>3, <1>4, <1>5

LEMMA SendMessageKeeps ==
    ASSUME SendInv, NEW s \in Sends, SendMessage(s)
    PROVE  SendInv'
<1> USE DEF SendInv, SendMessage, NextMsgTime, ConfirmSend
<1>1. SendTypes'
  <2>1. msgIdOf' \in [Sends -> Nat] /\ lastMsgTime' \in Nat
    BY DEF SendTypes
  <2>2. awaiting' \in [Sends -> BOOLEAN]
    BY Zenon DEF SendTypes
  <2>3. /\ confirmed' \in [Sends -> {"none", "pending", "ok", "failed"}]
        /\ native' \in [Sends -> {"none", "taken", "sent", "refused"}]
    BY DEF SendTypes
  <2>4. call' \in [Sends -> [kind : Kinds, step : Steps]]
    BY DEF SendTypes
  <2> QED
    BY <2>1, <2>2, <2>3, <2>4 DEF SendTypes
<1>2. IdsApart'
  BY DEF SendTypes, IdsApart, CallsAccounted, Numbered
<1>3. ReportsTrue'
  <2>1. \A t \in Sends : Numbered(t) =>
           Numbered(t)' /\ msgIdOf'[t] = msgIdOf[t] /\ (native[t] = "sent" => native'[t] = "sent")
    BY DEF SendTypes, CallsAccounted, Numbered
  <2> QED
    BY <2>1, ReportsStayTrue
<1>4. CallsAccounted'
  BY DEF SendTypes, IdsApart, ReportsTrue, CallsAccounted, Numbered
<1>5. OkWasSent'
  BY DEF SendTypes, CallsAccounted, OkWasSent
<1> QED
  BY <1>1, <1>2, <1>3, <1>4, <1>5

LEMMA StartForwardKeeps ==
    ASSUME SendInv, NEW s \in Sends, StartForward(s)
    PROVE  SendInv'
<1> USE DEF SendInv, StartForward
<1>1. SendTypes'
  BY DEF SendTypes
<1>2. IdsApart'
  BY DEF SendTypes, IdsApart, CallsAccounted, Numbered
<1>3. ReportsTrue'
  <2>1. \A t \in Sends : Numbered(t) =>
           Numbered(t)' /\ msgIdOf'[t] = msgIdOf[t] /\ (native[t] = "sent" => native'[t] = "sent")
    BY DEF SendTypes, CallsAccounted, Numbered
  <2> QED
    BY <2>1, ReportsStayTrue
<1>4. CallsAccounted'
  BY DEF SendTypes, IdsApart, ReportsTrue, CallsAccounted, Numbered
<1>5. OkWasSent'
  BY DEF SendTypes, CallsAccounted, OkWasSent
<1> QED
  BY <1>1, <1>2, <1>3, <1>4, <1>5

LEMMA ForwardBuiltKeeps ==
    ASSUME SendInv, NEW s \in Sends, ForwardBuilt(s)
    PROVE  SendInv'
<1> USE DEF SendInv, ForwardBuilt
<1>1. SendTypes'
  <2>1. CASE Go(s, "failed") /\ UNCHANGED <<msgIdOf, native>>
    <3>1. call' \in [Sends -> [kind : Kinds, step : Steps]]
      BY <2>1, GoTyped DEF SendTypes
    <3> QED
      BY <2>1, <3>1, Zenon DEF SendTypes
  <2>2. CASE /\ Go(s, "calling")
             /\ msgIdOf' = [msgIdOf EXCEPT ![s] = now]
             /\ native' = [native EXCEPT ![s] = "taken"]
    BY <2>2 DEF SendTypes
  <2> QED
    BY <2>1, <2>2
<1>2. IdsApart'
  <2>1. CASE Go(s, "failed") /\ UNCHANGED <<msgIdOf, native>>
    BY <2>1 DEF SendTypes, IdsApart, CallsAccounted, Numbered
  <2>2. CASE /\ Go(s, "calling")
             /\ msgIdOf' = [msgIdOf EXCEPT ![s] = now]
             /\ native' = [native EXCEPT ![s] = "taken"]
    BY <2>2 DEF SendTypes, IdsApart, CallsAccounted, Numbered
  <2> QED
    BY <2>1, <2>2
<1>3. ReportsTrue'
  <2>1. \A t \in Sends \ {s} :
           /\ call'[t] = call[t] /\ msgIdOf'[t] = msgIdOf[t]
           /\ native'[t] = native[t]
    BY Zenon DEF SendTypes
  <2>2. ~Numbered(s)
    BY DEF CallsAccounted, Numbered
  <2>3. \A t \in Sends : Numbered(t) =>
           Numbered(t)' /\ msgIdOf'[t] = msgIdOf[t] /\ (native[t] = "sent" => native'[t] = "sent")
    BY <2>1, <2>2 DEF Numbered
  <2> QED
    BY <2>3, ReportsStayTrue
<1>4. CallsAccounted'
  <2>1. CASE Go(s, "failed") /\ UNCHANGED <<msgIdOf, native>>
    BY <2>1 DEF SendTypes, IdsApart, ReportsTrue, CallsAccounted, Numbered
  <2>2. CASE /\ Go(s, "calling")
             /\ msgIdOf' = [msgIdOf EXCEPT ![s] = now]
             /\ native' = [native EXCEPT ![s] = "taken"]
    BY <2>2 DEF SendTypes, IdsApart, ReportsTrue, CallsAccounted, Numbered
  <2> QED
    BY <2>1, <2>2
<1>5. OkWasSent'
  <2>1. CASE Go(s, "failed") /\ UNCHANGED <<msgIdOf, native>>
    BY <2>1 DEF SendTypes, CallsAccounted, OkWasSent
  <2>2. CASE /\ Go(s, "calling")
             /\ msgIdOf' = [msgIdOf EXCEPT ![s] = now]
             /\ native' = [native EXCEPT ![s] = "taken"]
    BY <2>2 DEF SendTypes, CallsAccounted, OkWasSent
  <2> QED
    BY <2>1, <2>2
<1> QED
  BY <1>1, <1>2, <1>3, <1>4, <1>5

LEMMA CallReturnsKeeps ==
    ASSUME SendInv, NEW s \in Sends, CallReturns(s)
    PROVE  SendInv'
<1> USE DEF SendInv, CallReturns
<1>1. SendTypes'
  <2>1. \E st \in {"ok", "failed"} : Go(s, st)
    BY Zenon DEF SendTypes
  <2>2. call' \in [Sends -> [kind : Kinds, step : Steps]]
    BY <2>1 DEF SendTypes
  <2> QED
    BY <2>2 DEF SendTypes
<1>2. IdsApart'
  <2>1. \E st \in {"ok", "failed"} : call' = [call EXCEPT ![s].step = st]
    BY Zenon DEF SendTypes
  <2>2. \A t \in Sends : call'[t].kind = call[t].kind
    BY <2>1 DEF SendTypes
  <2> QED
    BY <2>2, Zenon DEF IdsApart, Numbered
<1>3. ReportsTrue'
  <2>1. \E st \in {"ok", "failed"} : call' = [call EXCEPT ![s].step = st]
    BY Zenon DEF SendTypes
  <2>2. \A t \in Sends : call'[t].kind = call[t].kind
    BY <2>1 DEF SendTypes
  <2> QED
    BY <2>2, ReportsStayTrue, Zenon DEF Numbered
<1>4. CallsAccounted'
  <2>1. \E st \in {"ok", "failed"} : call' = [call EXCEPT ![s].step = st]
    BY Zenon DEF SendTypes
  <2>2. \A t \in Sends : call'[t].kind = call[t].kind
    BY <2>1 DEF SendTypes
  <2>3. \A t \in Sends : call'[t].step = call[t].step \/ call'[t].step \in {"ok", "failed"}
    BY <2>1 DEF SendTypes
  <2>4. UNCHANGED <<msgIdOf, awaiting, confirmed, answer, native>>
    OBVIOUS
  <2> QED
    BY <2>2, <2>3, <2>4 DEF CallsAccounted, Numbered
<1>5. OkWasSent'
  <2>1. \A t \in Sends \ {s} : call'[t] = call[t]
    BY DEF SendTypes
  <2>2. call'[s].kind = call[s].kind /\ UNCHANGED native
    BY DEF SendTypes
  <2>3. call'[s].step = "ok" =>
            /\ answer[s] # "none"
            /\ call[s].kind = "message" => confirmed[s] = "ok"
    BY DEF SendTypes
  <2>4. call'[s].step = "ok" =>
            native[s] # "none" /\ (call[s].kind = "message" => native[s] = "sent")
    BY <2>3 DEF CallsAccounted
  <2> QED
    BY <2>1, <2>2, <2>4 DEF OkWasSent
<1> QED
  BY <1>1, <1>2, <1>3, <1>4, <1>5

LEMMA MsgInfoListUpdateKeeps ==
    ASSUME SendInv, MsgInfoListUpdate
    PROVE  SendInv'
<1> USE DEF SendInv, MsgInfoListUpdate
<1>1. SendTypes'
  BY DEF SendTypes
<1>2. IdsApart'
  BY DEF SendTypes, IdsApart, CallsAccounted, Numbered
<1>3. ReportsTrue'
  <2>1. Len(updates') = Len(updates) - 1 /\ Len(updates) \in Nat \ {0}
    BY DEF SendTypes
  <2>2. \A i \in 1 .. Len(updates') : updates'[i] = updates[i + 1] /\ i + 1 \in 1 .. Len(updates)
    BY <2>1 DEF SendTypes
  <2>3. UNCHANGED <<call, msgIdOf, native>>
    OBVIOUS
  <2>4. ASSUME NEW i \in 1 .. Len(updates')
        PROVE  \E t \in Sends : /\ Numbered(t)'
                                /\ msgIdOf'[t] = updates'[i].guildId
                                /\ updates'[i].sendStatus = "success" => native'[t] = "sent"
    <3>1. PICK t \in Sends : /\ Numbered(t)
                             /\ msgIdOf[t] = updates[i + 1].guildId
                             /\ updates[i + 1].sendStatus = "success" => native[t] = "sent"
      BY <2>2 DEF ReportsTrue
    <3>2. Numbered(t)'
      BY <2>3, <3>1 DEF Numbered
    <3> QED
      BY <2>2, <2>3, <3>1, <3>2
  <2> QED
    BY <2>4 DEF ReportsTrue
<1>4. CallsAccounted'
  <2> DEFINE u == Head(updates)
  <2>1. /\ u = updates[1] /\ 1 \in 1 .. Len(updates)
        /\ u \in Reports
    BY HeadTyped, Zenon DEF SendTypes
  <2>2. PICK t \in Sends : /\ Numbered(t)
                           /\ msgIdOf[t] = u.guildId
                           /\ u.sendStatus = "success" => native[t] = "sent"
    BY <2>1 DEF ReportsTrue
  <2>3. UNCHANGED <<call, msgIdOf, answer, native>>
    OBVIOUS
  <2>4. \A s \in Sends : awaiting'[s] => awaiting[s]
    BY Zenon
  <2>5. ASSUME NEW s \in Sends, confirmed'[s] = "ok" PROVE native[s] = "sent"
    <3>1. CASE confirmed'[s] = confirmed[s]
      BY <2>5, <3>1 DEF CallsAccounted
    <3>2. CASE confirmed'[s] # confirmed[s]
      <4>1. awaiting[s] /\ msgIdOf[s] = u.guildId /\ u.sendStatus = "success"
        BY <2>5, <3>2
      <4>2. s = t
        BY <2>2, <4>1 DEF CallsAccounted, IdsApart
      <4> QED
        BY <2>2, <4>1, <4>2
    <3> QED
      BY <3>1, <3>2
  <2> QED
    BY <2>3, <2>4, <2>5, Zenon DEF CallsAccounted, Numbered
<1>5. OkWasSent'
  BY DEF SendTypes, CallsAccounted, OkWasSent
<1> QED
  BY <1>1, <1>2, <1>3, <1>4, <1>5

LEMMA ConfirmTimeoutKeeps ==
    ASSUME SendInv, NEW s \in Sends, ConfirmTimeout(s)
    PROVE  SendInv'
<1> USE DEF SendInv, ConfirmTimeout
<1>1. SendTypes'
  BY DEF SendTypes
<1>2. IdsApart'
  BY DEF SendTypes, IdsApart, CallsAccounted, Numbered
<1>3. ReportsTrue'
  <2>1. \A t \in Sends : Numbered(t) =>
           Numbered(t)' /\ msgIdOf'[t] = msgIdOf[t] /\ (native[t] = "sent" => native'[t] = "sent")
    BY DEF SendTypes, CallsAccounted, Numbered
  <2> QED
    BY <2>1, ReportsStayTrue
<1>4. CallsAccounted'
  BY DEF SendTypes, IdsApart, ReportsTrue, CallsAccounted, Numbered
<1>5. OkWasSent'
  BY DEF SendTypes, CallsAccounted, OkWasSent
<1> QED
  BY <1>1, <1>2, <1>3, <1>4, <1>5

LEMMA NativeSendingKeeps ==
    ASSUME SendInv, NEW s \in Sends, NativeSending(s)
    PROVE  SendInv'
<1> USE DEF SendInv, NativeSending, Report
<1>1. SendTypes'
  <2>1. updates' \in Seq(Reports)
    <3>1. msgIdOf[s] \in Nat /\ updates \in Seq(Reports)
      BY DEF SendTypes
    <3>2. CASE call[s].kind = "forward"
      BY <3>1, <3>2
    <3>3. CASE call[s].kind # "forward"
      <4>1. [guildId |-> msgIdOf[s], sendStatus |-> "sending"] \in Reports
        BY <3>1
      <4>2. \E r \in Reports : updates' = Append(updates, r)
        BY <3>3, <4>1
      <4> QED
        BY <3>1, <4>2, AppendTyped, Zenon
    <3> QED
      BY <3>2, <3>3
  <2> QED
    BY <2>1 DEF SendTypes
<1>2. IdsApart'
  BY DEF SendTypes, IdsApart, CallsAccounted, Numbered
<1>3. ReportsTrue'
  BY DEF SendTypes, ReportsTrue, CallsAccounted, Numbered
<1>4. CallsAccounted'
  BY DEF SendTypes, IdsApart, ReportsTrue, CallsAccounted, Numbered
<1>5. OkWasSent'
  BY DEF SendTypes, CallsAccounted, OkWasSent
<1> QED
  BY <1>1, <1>2, <1>3, <1>4, <1>5

LEMMA NativeEndsKeeps ==
    ASSUME SendInv, NEW s \in Sends, NEW end \in {"sent", "refused"}, NativeEnds(s, end)
    PROVE  SendInv'
<1> USE DEF SendInv, NativeEnds, Report
<1>1. SendTypes'
  <2>1. updates' \in Seq(Reports)
    <3>1. msgIdOf[s] \in Nat /\ updates \in Seq(Reports)
      BY DEF SendTypes
    <3>2. CASE call[s].kind = "forward"
      BY <3>1, <3>2
    <3>3. CASE call[s].kind # "forward"
      <4>1. [guildId |-> msgIdOf[s], sendStatus |-> IF end = "sent" THEN "success" ELSE "failed"]
                \in Reports
        BY <3>1
      <4>2. \E r \in Reports : updates' = Append(updates, r)
        BY <3>3, <4>1
      <4> QED
        BY <3>1, <4>2, AppendTyped, Zenon
    <3> QED
      BY <3>2, <3>3
  <2>2. native' \in [Sends -> {"none", "taken", "sent", "refused"}]
    BY DEF SendTypes
  <2> QED
    BY <2>1, <2>2 DEF SendTypes
<1>2. IdsApart'
  BY DEF SendTypes, IdsApart, CallsAccounted, Numbered
<1>3. ReportsTrue'
  <2>1. \A t \in Sends : Numbered(t) => Numbered(t)'
    BY DEF SendTypes, Numbered
  <2>2. CASE call[s].kind = "forward"
    BY <2>1, <2>2 DEF SendTypes, ReportsTrue, Numbered
  <2>3. CASE call[s].kind # "forward"
    <3> DEFINE r == [guildId |-> msgIdOf[s], sendStatus |-> IF end = "sent" THEN "success" ELSE "failed"]
    <3>1. updates' = Append(updates, r) /\ r \in Reports
      BY <2>3 DEF SendTypes
    <3>2. Numbered(s)' /\ msgIdOf'[s] = r.guildId /\ (r.sendStatus = "success" => native'[s] = "sent")
      BY <2>3 DEF SendTypes, Numbered
    <3>3. ASSUME NEW i \in 1 .. Len(updates')
          PROVE  \E t \in Sends : /\ Numbered(t)'
                                  /\ msgIdOf'[t] = updates'[i].guildId
                                  /\ updates'[i].sendStatus = "success" => native'[t] = "sent"
      <4>1. CASE i = Len(updates) + 1
        <5>1. updates'[i] = r
          BY <3>1, <4>1 DEF SendTypes
        <5> QED
          BY <3>2, <5>1
      <4>2. CASE i \in 1 .. Len(updates)
        <5>1. updates'[i] = updates[i]
          BY <3>1, <4>2 DEF SendTypes
        <5>2. PICK t \in Sends : /\ Numbered(t)
                                 /\ msgIdOf[t] = updates[i].guildId
                                 /\ updates[i].sendStatus = "success" => native[t] = "sent"
          BY <4>2 DEF ReportsTrue
        <5>3. native[t] = "sent" => native'[t] = "sent"
          BY DEF SendTypes
        <5> QED
          BY <2>1, <5>1, <5>2, <5>3
      <4> QED
        BY <3>1, <4>1, <4>2 DEF SendTypes
    <3> QED
      BY <3>3 DEF ReportsTrue
  <2> QED
    BY <2>2, <2>3
<1>4. CallsAccounted'
  BY DEF SendTypes, IdsApart, ReportsTrue, CallsAccounted, Numbered
<1>5. OkWasSent'
  BY DEF SendTypes, CallsAccounted, OkWasSent
<1> QED
  BY <1>1, <1>2, <1>3, <1>4, <1>5

LEMMA NativeAnswersKeeps ==
    ASSUME SendInv, NEW s \in Sends, NEW result \in {"ok", "refused", "threw"},
           NativeAnswers(s, result)
    PROVE  SendInv'
<1> USE DEF SendInv, NativeAnswers
<1>1. SendTypes'
  BY DEF SendTypes
<1>2. IdsApart'
  BY DEF SendTypes, IdsApart, CallsAccounted, Numbered
<1>3. ReportsTrue'
  <2>1. \A t \in Sends : Numbered(t) =>
           Numbered(t)' /\ msgIdOf'[t] = msgIdOf[t] /\ (native[t] = "sent" => native'[t] = "sent")
    BY DEF SendTypes, CallsAccounted, Numbered
  <2> QED
    BY <2>1, ReportsStayTrue
<1>4. CallsAccounted'
  BY DEF SendTypes, IdsApart, ReportsTrue, CallsAccounted, Numbered
<1>5. OkWasSent'
  BY DEF SendTypes, CallsAccounted, OkWasSent
<1> QED
  BY <1>1, <1>2, <1>3, <1>4, <1>5

LEMMA SendKeeps == SendInv /\ [SendNext]_sendVars => SendInv'
<1> SUFFICES ASSUME SendInv, [SendNext]_sendVars PROVE SendInv'
  OBVIOUS
<1>1. CASE MillisecondPasses \/ MsgInfoListUpdate
  BY <1>1, MillisecondPassesKeeps, MsgInfoListUpdateKeeps
<1>2. ASSUME NEW s \in Sends,
             \/ \E el \in Media : StartSend(s, el)
             \/ PlaceMediaFile(s) \/ PrepareFails(s) \/ SendMessage(s)
      PROVE  SendInv'
  BY <1>2, StartSendKeeps, PlaceMediaFileKeeps, PrepareFailsKeeps, SendMessageKeeps
<1>3. ASSUME NEW s \in Sends,
             StartForward(s) \/ ForwardBuilt(s) \/ CallReturns(s) \/ ConfirmTimeout(s)
      PROVE  SendInv'
  BY <1>3, StartForwardKeeps, ForwardBuiltKeeps, CallReturnsKeeps, ConfirmTimeoutKeeps
<1>4. ASSUME NEW s \in Sends,
             \/ NativeSending(s)
             \/ \E end \in {"sent", "refused"} : NativeEnds(s, end)
             \/ \E result \in {"ok", "refused", "threw"} : NativeAnswers(s, result)
      PROVE  SendInv'
  BY <1>4, NativeSendingKeeps, NativeEndsKeeps, NativeAnswersKeeps
<1>5. CASE UNCHANGED sendVars
  BY <1>5 DEF sendVars, SendInv, SendTypes, IdsApart, ReportsTrue, CallsAccounted,
              OkWasSent, Numbered
<1> QED
  BY <1>1, <1>2, <1>3, <1>4, <1>5, Zenon DEF SendNext

\* However many messages are sent in one millisecond, in whatever order the native
\* answer and the reports arrive, and however they contradict each other: a call
\* that waited for its confirmation and reports success has sent; any other has
\* handed its message over.
THEOREM SuccessMeansSent == SendSpec => []OkWasSent
<1>1. SendInv => OkWasSent
  BY DEF SendInv
<1> QED
  BY <1>1, SendInitially, SendKeeps, PTL DEF SendSpec

-----------------------------------------------------------------------------
\* Steps of the promise, as changes of calls and messages.
LEMMA NothingTold ==
    ASSUME UNCHANGED <<call, native>> PROVE UNCHANGED Promised!deliveryVars
  BY DEF Promised!deliveryVars, Told, Watched, HandedOver, Delivered

\* A call that goes on tells its caller at most the step it reaches.
LEMMA StepTold ==
    ASSUME SendTypes, NEW s \in Sends, NEW new,
           call' = [call EXCEPT ![s] = new]
    PROVE  Told' = [Told EXCEPT ![s] = ToldAt(new.step)]
<1>1. \A t \in Sends : call'[t] = IF t = s THEN new ELSE call[t]
  BY DEF SendTypes
<1>2. \A t \in Sends : Told'[t] = IF t = s THEN ToldAt(new.step) ELSE Told[t]
  <2>1. \A t \in Sends : Told'[t] = ToldAt(call'[t].step) /\ Told[t] = ToldAt(call[t].step)
    BY DEF Told
  <2> QED
    BY <1>1, <2>1
<1>3. Told = [t \in Sends |-> Told[t]] /\ Told' = [t \in Sends |-> Told'[t]]
  BY DEF Told
<1> QED
  BY <1>2, <1>3

\* Whether a call awaits its confirmation is settled when it begins.
LEMMA StepWatched ==
    ASSUME SendTypes, NEW s \in Sends, NEW new, call' = [call EXCEPT ![s] = new],
           new.step # "idle"
    PROVE  /\ Watched' = Watched \/ Watched' = Watched \cup {s} \/ call[s].step # "idle"
           /\ call[s].step # "idle" /\ new.kind = call[s].kind => Watched' = Watched
<1>1. \A t \in Sends : call'[t] = IF t = s THEN new ELSE call[t]
  BY DEF SendTypes
<1>2. \A t \in Sends : t \in Watched' <=>
          IF t = s THEN new.kind = "message" ELSE t \in Watched
  BY <1>1 DEF Watched
<1>3. Watched \subseteq Sends /\ Watched' \subseteq Sends
  BY DEF Watched
<1>4. call[s].step = "idle" => s \notin Watched
  BY DEF Watched
<1>5. call[s].step # "idle" => (s \in Watched <=> call[s].kind = "message")
  BY DEF Watched
<1> QED
  BY <1>2, <1>3, <1>4, <1>5

LEMMA Telling ==
    ASSUME SendTypes, NEW s \in Sends, NEW new, call' = [call EXCEPT ![s] = new], UNCHANGED native,
           \/ ToldAt(call[s].step) = "nothing" /\ ToldAt(new.step) = "open"
           \/ /\ ToldAt(call[s].step) = "open" /\ ToldAt(new.step) = "failed"
              /\ new.kind = call[s].kind
           \/ /\ ToldAt(call[s].step) = "open" /\ ToldAt(new.step) = "ok"
              /\ new.kind = call[s].kind
              /\ native[s] # "none" /\ (new.kind = "message" => native[s] = "sent")
    PROVE  Promised!DeliveryNext
<1>1. Told[s] = ToldAt(call[s].step)
  BY DEF Told
<1>2. Told' = [Told EXCEPT ![s] = ToldAt(new.step)]
  BY StepTold
<1>3. UNCHANGED <<HandedOver, Delivered>>
  BY DEF HandedOver, Delivered
<1>4. /\ native[s] = "sent" => s \in Delivered
      /\ native[s] # "none" => s \in HandedOver
      /\ s \in Watched => call[s].kind = "message"
  BY DEF Watched, HandedOver, Delivered
<1>5. ToldAt("idle") = "nothing" /\ (ToldAt(call[s].step) = "nothing" => call[s].step = "idle")
  BY DEF ToldAt
<1>6. new.step # "idle"
  BY <1>5
<1>7. /\ call[s].step = "idle" => Watched' = Watched \/ Watched' = Watched \cup {s}
      /\ call[s].step # "idle" /\ new.kind = call[s].kind => Watched' = Watched
  BY <1>6, StepWatched
<1>8. CASE ToldAt(call[s].step) = "nothing" /\ ToldAt(new.step) = "open"
  <2>1. Promised!Ask(s)
    BY <1>1, <1>2, <1>3, <1>5, <1>7, <1>8 DEF Promised!Ask, Promised!Tell
  <2> QED
    BY <2>1 DEF Promised!DeliveryNext
<1>9. CASE ToldAt(call[s].step) = "open" /\ ToldAt(new.step) = "failed" /\ new.kind = call[s].kind
  <2>1. Promised!TellFailed(s)
    BY <1>1, <1>2, <1>3, <1>5, <1>7, <1>9 DEF Promised!TellFailed, Promised!Tell
  <2> QED
    BY <2>1 DEF Promised!DeliveryNext
<1>10. CASE /\ ToldAt(call[s].step) = "open" /\ ToldAt(new.step) = "ok"
            /\ new.kind = call[s].kind
            /\ native[s] # "none" /\ (new.kind = "message" => native[s] = "sent")
  <2>1. s \in IF s \in Watched THEN Delivered ELSE HandedOver
    BY <1>4, <1>10
  <2>2. Promised!TellOk(s)
    BY <1>1, <1>2, <1>3, <1>5, <1>7, <1>10, <2>1 DEF Promised!TellOk, Promised!Tell
  <2> QED
    BY <2>2 DEF Promised!DeliveryNext
<1> QED
  BY <1>8, <1>9, <1>10

LEMMA Handing ==
    ASSUME SendTypes, NEW s \in Sends, NEW new, call' = [call EXCEPT ![s] = new],
           native' = [native EXCEPT ![s] = "taken"], native[s] = "none",
           ToldAt(call[s].step) = "open", ToldAt(new.step) = "open",
           new.kind = call[s].kind
    PROVE  Promised!DeliveryNext
<1>1. Told[s] = "open"
  BY DEF Told
<1>2. Told' = Told
  <2>1. Told' = [Told EXCEPT ![s] = "open"]
    BY StepTold
  <2> QED
    BY <1>1, <2>1 DEF Told
<1>3. \A t \in Sends : native'[t] = IF t = s THEN "taken" ELSE native[t]
  BY DEF SendTypes
<1>4. HandedOver' = HandedOver \cup {s} /\ s \notin HandedOver /\ Delivered' = Delivered
  BY <1>3 DEF HandedOver, Delivered
<1>5. Watched' = Watched
  <2>1. call[s].step # "idle" /\ new.step # "idle"
    BY DEF ToldAt
  <2> QED
    BY <2>1, StepWatched
<1>6. Promised!HandOver(s)
  BY <1>1, <1>2, <1>4, <1>5 DEF Promised!HandOver
<1> QED
  BY <1>6 DEF Promised!DeliveryNext

\* Every step of the calls is one of the promise or none of its business.
LEMMA StepKeepsPromise ==
    SendInv /\ SendInv' /\ [SendNext]_sendVars =>
        [Promised!DeliveryNext]_(Promised!deliveryVars)
<1> SUFFICES ASSUME SendInv, SendInv', [SendNext]_sendVars
             PROVE  [Promised!DeliveryNext]_(Promised!deliveryVars)
  OBVIOUS
<1>0. /\ SendTypes
      /\ \A s \in Sends : /\ call[s] \in [kind : Kinds, step : Steps]
                          /\ native[s] \in {"none", "taken", "sent", "refused"}
                          /\ At(s, "preparing") \/ At(s, "building") => native[s] = "none"
  BY DEF SendInv, SendTypes, CallsAccounted
<1>1. CASE UNCHANGED sendVars
  BY <1>1, NothingTold DEF sendVars
<1>2. CASE MillisecondPasses \/ MsgInfoListUpdate
  BY <1>2, NothingTold DEF MillisecondPasses, MsgInfoListUpdate
<1>3. ASSUME NEW s \in Sends,
             PlaceMediaFile(s) \/ ConfirmTimeout(s) \/ NativeSending(s)
               \/ \E result \in {"ok", "refused", "threw"} : NativeAnswers(s, result)
      PROVE  [Promised!DeliveryNext]_(Promised!deliveryVars)
  BY <1>3, NothingTold DEF PlaceMediaFile, ConfirmTimeout, NativeSending, NativeAnswers
<1>4. ASSUME NEW s \in Sends, NEW el \in Media, StartSend(s, el)
      PROVE  Promised!DeliveryNext
  <2>1. PICK kind \in {"message", "unchannelled"} :
            call' = [call EXCEPT ![s] = [kind |-> kind, step |-> "preparing"]]
    BY <1>4 DEF StartSend
  <2>2. call[s].step = "idle" /\ UNCHANGED native
    BY <1>4 DEF StartSend
  <2>3. PICK new : new = [kind |-> kind, step |-> "preparing"]
    OBVIOUS
  <2> QED
    BY <1>0, <2>1, <2>2, <2>3, Telling DEF ToldAt
<1>5. ASSUME NEW s \in Sends, StartForward(s) PROVE Promised!DeliveryNext
  <2>1. PICK new : new = [kind |-> "forward", step |-> "building"]
    OBVIOUS
  <2>2. call[s].step = "idle" /\ UNCHANGED native /\ call' = [call EXCEPT ![s] = new]
    BY <1>5, <2>1 DEF StartForward
  <2> QED
    BY <1>0, <2>1, <2>2, Telling DEF ToldAt
<1>6. ASSUME NEW s \in Sends, NEW to \in Steps, Go(s, to)
      PROVE  \E new : new.step = to /\ new.kind = call[s].kind /\ call' = [call EXCEPT ![s] = new]
  <2>1. PICK new : new = [call[s] EXCEPT !.step = to]
    OBVIOUS
  <2>2. new.step = to /\ new.kind = call[s].kind /\ call' = [call EXCEPT ![s] = new]
    BY <1>0, <1>6, <2>1
  <2> QED
    BY <2>2
<1>7. ASSUME NEW s \in Sends, PrepareFails(s) PROVE Promised!DeliveryNext
  <2>1. call[s].step = "preparing" /\ Go(s, "failed") /\ UNCHANGED native
    BY <1>7 DEF PrepareFails
  <2>2. PICK new : new.step = "failed" /\ new.kind = call[s].kind /\ call' = [call EXCEPT ![s] = new]
    BY <1>6, <2>1
  <2> QED
    BY <1>0, <2>1, <2>2, Telling DEF ToldAt
<1>8. ASSUME NEW s \in Sends, SendMessage(s) PROVE Promised!DeliveryNext
  <2>1. /\ call[s].step = "preparing" /\ Go(s, "calling")
        /\ native' = [native EXCEPT ![s] = "taken"]
    BY <1>8 DEF SendMessage
  <2>2. PICK new : new.step = "calling" /\ new.kind = call[s].kind /\ call' = [call EXCEPT ![s] = new]
    BY <1>6, <2>1
  <2> QED
    BY <1>0, <2>1, <2>2, Handing DEF ToldAt
<1>9. ASSUME NEW s \in Sends, ForwardBuilt(s) PROVE Promised!DeliveryNext
  <2>1. /\ call[s].step = "building"
        /\ \/ Go(s, "failed") /\ UNCHANGED native
           \/ Go(s, "calling") /\ native' = [native EXCEPT ![s] = "taken"]
    BY <1>9 DEF ForwardBuilt
  <2>2. CASE Go(s, "failed") /\ UNCHANGED native
    <3>1. PICK new : new.step = "failed" /\ new.kind = call[s].kind /\ call' = [call EXCEPT ![s] = new]
      BY <1>6, <2>2
    <3> QED
      BY <1>0, <2>1, <2>2, <3>1, Telling DEF ToldAt
  <2>3. CASE Go(s, "calling") /\ native' = [native EXCEPT ![s] = "taken"]
    <3>1. PICK new : new.step = "calling" /\ new.kind = call[s].kind /\ call' = [call EXCEPT ![s] = new]
      BY <1>6, <2>3
    <3>2. ToldAt(call[s].step) = "open" /\ ToldAt(new.step) = "open" /\ native[s] = "none"
      BY <1>0, <2>1, <3>1 DEF ToldAt
    <3> QED
      BY <1>0, <2>3, <3>1, <3>2, Handing
  <2> QED
    BY <2>1, <2>2, <2>3
<1>10. ASSUME NEW s \in Sends, CallReturns(s) PROVE Promised!DeliveryNext
  <2>1. call[s].step = "calling" /\ UNCHANGED native /\ (Go(s, "ok") \/ Go(s, "failed"))
    BY <1>10 DEF CallReturns
  <2>2. CASE Go(s, "ok")
    <3>1. PICK new : new.step = "ok" /\ new.kind = call[s].kind /\ call' = [call EXCEPT ![s] = new]
      BY <1>6, <2>2
    <3>2. native[s] # "none" /\ (new.kind = "message" => native[s] = "sent")
      <4>1. call'[s] = new
        BY <1>0, <3>1 DEF SendTypes
      <4> QED
        BY <2>1, <3>1, <4>1 DEF SendInv, OkWasSent
    <3> QED
      BY <1>0, <2>1, <3>1, <3>2, Telling DEF ToldAt
  <2>3. CASE Go(s, "failed")
    <3>1. PICK new : new.step = "failed" /\ new.kind = call[s].kind /\ call' = [call EXCEPT ![s] = new]
      BY <1>6, <2>3
    <3> QED
      BY <1>0, <2>1, <3>1, Telling DEF ToldAt
  <2> QED
    BY <2>1, <2>2, <2>3
<1>11. ASSUME NEW s \in Sends, NEW end \in {"sent", "refused"}, NativeEnds(s, end)
       PROVE  [Promised!DeliveryNext]_(Promised!deliveryVars)
  <2>1. native[s] = "taken" /\ native' = [native EXCEPT ![s] = end] /\ UNCHANGED call
    BY <1>11 DEF NativeEnds
  <2>2. \A t \in Sends : native'[t] = IF t = s THEN end ELSE native[t]
    BY <1>0, <2>1 DEF SendTypes
  <2>3. /\ Told' = Told /\ Watched' = Watched /\ HandedOver' = HandedOver
        /\ s \in HandedOver \ Delivered
    BY <2>1, <2>2 DEF Told, Watched, HandedOver, Delivered
  <2>4. CASE end = "sent"
    <3>1. Delivered' = Delivered \cup {s}
      BY <2>2, <2>4 DEF Delivered
    <3>2. Promised!Deliver(s)
      BY <2>3, <3>1 DEF Promised!Deliver
    <3> QED
      BY <3>2 DEF Promised!DeliveryNext
  <2>5. CASE end = "refused"
    <3>1. Delivered' = Delivered
      BY <2>1, <2>2, <2>5 DEF Delivered
    <3> QED
      BY <2>3, <3>1 DEF Promised!deliveryVars
  <2> QED
    BY <2>4, <2>5
<1> QED
  BY <1>1, <1>2, <1>3, <1>4, <1>5, <1>7, <1>8, <1>9, <1>10, <1>11 DEF SendNext

\* For any number of calls and any clock, the calls implement Delivery: what was told is
\* final, success comes after delivery, and no message is handed over twice or after its
\* call failed on the way.
THEOREM SendsKeepTheirPromise == SendSpec => ImplementsDelivery
<1>1. SendInit => Promised!DeliveryInit
  BY DEF SendInit, Promised!DeliveryInit, Told, ToldAt, Watched, HandedOver, Delivered
<1> QED
  BY <1>1, SendInitially, SendKeeps, StepKeepsPromise, PTL
  DEF SendSpec, ImplementsDelivery, Promised!DeliverySpec
-----------------------------------------------------------------------------
(* What SendSettles rests on, beside the fairness of timers.               *)

\* A listener is registered as long as its confirmation is pending, and its timer
\* is armed by then; a call that got its native answer waits for nothing else.
Timed(s) ==
    /\ awaiting[s] <=> confirmed[s] = "pending"
    /\ awaiting[s] => timing[s]
    /\ confirmed[s] # "none" => native[s] # "none"
    /\ At(s, "calling") /\ call[s].kind = "message" => confirmed[s] # "none"
    /\ answer[s] # "none" => At(s, "calling") \/ At(s, "ok") \/ At(s, "failed")

WaitsAreTimed == timing \in [Sends -> BOOLEAN] /\ \A s \in Sends : Timed(s)

\* A confirmation that is settled is settled for good, and no timer is armed again
\* for a message that the native side has.
SettlesOnce ==
    \A s \in Sends :
        /\ confirmed[s] \in {"ok", "failed"} => confirmed'[s] = confirmed[s]
        /\ native[s] # "none" /\ ~timing[s] => ~timing'[s]

LEMMA WaitsBegin == SendInit => WaitsAreTimed
<1> SUFFICES ASSUME SendInit PROVE WaitsAreTimed
  OBVIOUS
<1>1. timing \in [Sends -> BOOLEAN]
  BY Zenon DEF SendInit
<1> QED
  BY <1>1 DEF SendInit, WaitsAreTimed, Timed

LEMMA TimersTyped ==
    ASSUME WaitsAreTimed, [SendNext]_sendVars PROVE timing' \in [Sends -> BOOLEAN]
<1> USE DEF WaitsAreTimed
<1>1. ASSUME NEW s \in Sends, SendMessage(s) PROVE timing' \in [Sends -> BOOLEAN]
  BY <1>1 DEF SendMessage, ConfirmSend
<1>2. ASSUME NEW s \in Sends, ConfirmTimeout(s) PROVE timing' \in [Sends -> BOOLEAN]
  BY <1>2 DEF ConfirmTimeout
<1>3. ASSUME \/ UNCHANGED sendVars
             \/ MillisecondPasses \/ MsgInfoListUpdate
             \/ \E s \in Sends :
                   \/ \E el \in Media : StartSend(s, el)
                   \/ PlaceMediaFile(s) \/ PrepareFails(s) \/ StartForward(s)
                   \/ ForwardBuilt(s) \/ CallReturns(s) \/ NativeSending(s)
                   \/ \E end \in {"sent", "refused"} : NativeEnds(s, end)
                   \/ \E result \in {"ok", "refused", "threw"} : NativeAnswers(s, result)
      PROVE  timing' = timing
  BY <1>3, Zenon
  DEF sendVars, MillisecondPasses, MsgInfoListUpdate, StartSend, PlaceMediaFile, PrepareFails,
      StartForward, ForwardBuilt, CallReturns, NativeSending, NativeEnds, NativeAnswers
<1> QED
  BY <1>1, <1>2, <1>3, Zenon DEF SendNext

LEMMA WaitGoesOn ==
    ASSUME SendInv, WaitsAreTimed, [SendNext]_sendVars, NEW t \in Sends
    PROVE  Timed(t)'
<1> USE DEF SendInv, SendTypes, WaitsAreTimed, Timed
<1>1. CASE MillisecondPasses
  BY <1>1 DEF MillisecondPasses
<1>2. CASE MsgInfoListUpdate
  BY <1>2 DEF MsgInfoListUpdate
<1>3. ASSUME NEW s \in Sends, NEW el \in Media, StartSend(s, el) PROVE Timed(t)'
  BY <1>3 DEF StartSend, CallsAccounted
<1>4. ASSUME NEW s \in Sends, PlaceMediaFile(s) PROVE Timed(t)'
  BY <1>4 DEF PlaceMediaFile
<1>5. ASSUME NEW s \in Sends, PrepareFails(s) PROVE Timed(t)'
  BY <1>5 DEF PrepareFails
<1>6. ASSUME NEW s \in Sends, SendMessage(s) PROVE Timed(t)'
  <2>1. CASE s = t
    BY <1>6, <2>1 DEF SendMessage, ConfirmSend, CallsAccounted
  <2>2. CASE s # t
    BY <1>6, <2>2 DEF SendMessage, ConfirmSend
  <2> QED
    BY <2>1, <2>2
<1>7. ASSUME NEW s \in Sends, StartForward(s) PROVE Timed(t)'
  BY <1>7 DEF StartForward, CallsAccounted
<1>8. ASSUME NEW s \in Sends, ForwardBuilt(s) PROVE Timed(t)'
  <2>1. CASE s = t
    <3>1. /\ call[s].kind = "forward" /\ ~awaiting[s] /\ native[s] = "none"
          /\ answer[s] = "none"
      BY <1>8 DEF ForwardBuilt, CallsAccounted
    <3>2. call'[s].kind = "forward" /\ UNCHANGED <<awaiting, timing, confirmed, answer>>
      BY <1>8, <3>1 DEF ForwardBuilt
    <3>3. confirmed[s] = "none"
      BY <3>1
    <3> QED
      BY <2>1, <3>1, <3>2, <3>3
  <2>2. CASE s # t
    BY <1>8, <2>2 DEF ForwardBuilt
  <2> QED
    BY <2>1, <2>2
<1>9. ASSUME NEW s \in Sends, CallReturns(s) PROVE Timed(t)'
  BY <1>9 DEF CallReturns
<1>10. ASSUME NEW s \in Sends, ConfirmTimeout(s) PROVE Timed(t)'
  BY <1>10 DEF ConfirmTimeout
<1>11. ASSUME NEW s \in Sends,
              \/ NativeSending(s)
              \/ \E end \in {"sent", "refused"} : NativeEnds(s, end)
       PROVE  Timed(t)'
  BY <1>11 DEF NativeSending, NativeEnds
<1>12. ASSUME NEW s \in Sends,
              \E result \in {"ok", "refused", "threw"} : NativeAnswers(s, result)
       PROVE  Timed(t)'
  BY <1>12 DEF NativeAnswers, CallsAccounted
<1>13. CASE UNCHANGED sendVars
  BY <1>13 DEF sendVars
<1> HIDE DEF Timed
<1> QED
  BY <1>1, <1>2, <1>3, <1>4, <1>5, <1>6, <1>7, <1>8, <1>9, <1>10, <1>11, <1>12, <1>13, Zenon
  DEF SendNext

LEMMA WaitsGoOn == SendInv /\ WaitsAreTimed /\ [SendNext]_sendVars => WaitsAreTimed'
<1> SUFFICES ASSUME SendInv, WaitsAreTimed, [SendNext]_sendVars PROVE WaitsAreTimed'
  OBVIOUS
<1>1. timing' \in [Sends -> BOOLEAN]
  BY TimersTyped
<1>2. \A t \in Sends : Timed(t)'
  BY WaitGoesOn
<1> QED
  BY <1>1, <1>2 DEF WaitsAreTimed

LEMMA StepsSettleOnce == SendInv /\ WaitsAreTimed /\ [SendNext]_sendVars => [SettlesOnce]_sendVars
<1> SUFFICES ASSUME SendInv, WaitsAreTimed, SendNext, NEW s \in Sends
             PROVE  /\ confirmed[s] \in {"ok", "failed"} => confirmed'[s] = confirmed[s]
                    /\ native[s] # "none" /\ ~timing[s] => ~timing'[s]
  BY DEF SettlesOnce
<1> USE DEF SendInv, SendTypes, WaitsAreTimed, Timed
<1> DEFINE Same == confirmed'[s] = confirmed[s] /\ timing'[s] = timing[s]
<1> DEFINE Once == /\ confirmed[s] \in {"ok", "failed"} => confirmed'[s] = confirmed[s]
                   /\ native[s] # "none" /\ ~timing[s] => ~timing'[s]
<1>1. ASSUME MsgInfoListUpdate PROVE Once
  BY <1>1 DEF MsgInfoListUpdate
<1>2. ASSUME NEW t \in Sends, SendMessage(t) PROVE Once
  <2>1. CASE t = s
    BY <1>2, <2>1 DEF SendMessage, CallsAccounted
  <2>2. CASE t # s
    BY <1>2, <2>2 DEF SendMessage, ConfirmSend
  <2> QED
    BY <2>1, <2>2
<1>3. ASSUME NEW t \in Sends, ConfirmTimeout(t) PROVE Once
  BY <1>3 DEF ConfirmTimeout
<1>4. ASSUME \/ MillisecondPasses
             \/ \E t \in Sends :
                   \/ \E el \in Media : StartSend(t, el)
                   \/ PlaceMediaFile(t) \/ PrepareFails(t) \/ StartForward(t)
                   \/ ForwardBuilt(t) \/ CallReturns(t) \/ NativeSending(t)
                   \/ \E end \in {"sent", "refused"} : NativeEnds(t, end)
                   \/ \E result \in {"ok", "refused", "threw"} : NativeAnswers(t, result)
      PROVE  Same
  BY <1>4, Zenon
  DEF MillisecondPasses, StartSend, PlaceMediaFile, PrepareFails, StartForward, ForwardBuilt,
      CallReturns, NativeSending, NativeEnds, NativeAnswers
<1>5. Same => Once
  OBVIOUS
<1> HIDE DEF Same, Once
<1>6. Once
  BY <1>1, <1>2, <1>3, <1>4, <1>5, Zenon DEF SendNext
<1> QED
  BY <1>6 DEF Once

\* No listener outlives its timer, and a call whose answer has come waits only for
\* what a timer will settle (confirmSend), whatever reports are lost.
THEOREM EveryWaitIsTimed == SendSpec => []WaitsAreTimed
<1> QED
  BY SendInitially, SendKeeps, WaitsBegin, WaitsGoOn, PTL DEF SendSpec

\* A late or second report, or the timer that is never cleared, changes nothing of
\* a confirmation that is settled.
THEOREM ConfirmationsAreFinal == SendSpec => [][SettlesOnce]_sendVars
<1> QED
  BY SendInitially, SendKeeps, WaitsBegin, WaitsGoOn, StepsSettleOnce, PTL DEF SendSpec
=============================================================================
