---------------------------- MODULE HostingProofs ----------------------------
(***************************************************************************)
(* Proofs about Hosting, for any finite set of accounts, every setting of  *)
(* restarts and hangs, and any commands and signals: each request stops a  *)
(* process once and stops only who was meant, nothing starts after a stop, *)
(* and every exit code, signal and wait has a living process to take it,   *)
(* which is what SupervisorEnds and StopReachesAll rest on.                *)
(***************************************************************************)
EXTENDS Hosting, TLAPS

\* Every way to be told to stop goes back to somebody who asked: the file, a
\* signal under way, an armed boot process, a supervisor that is stopping and a
\* stop command that waits for it.
AskedAccounted ==
    /\ sentinel = "all" \/ ops = "waitSupervisor" \/ sup = "stopping" => askedStop = Accounts
    /\ sentinel \in Accounts => sentinel \in askedStop
    /\ sigterm \subseteq askedStop
    /\ \A a \in Accounts : armed[a] # "no" => a \in askedStop

\* A self-host that still listens has not been counted by the file it is older
\* than: whoever was has stopped, and who replaced it is younger than the file.
ListensUncounted ==
    \A a \in Accounts :
        self[a] \in Listening /\ Hit(a, Self(a)) => hits[a] = 0

HostingInv ==
    /\ HostingTypeOK
    /\ AskedAccounted
    /\ OnlyAskedStop
    /\ ListensUncounted
    /\ OneStopPerRequest

-----------------------------------------------------------------------------
LEMMA HostingInitially == HostingInit => HostingInv
<1> SUFFICES ASSUME HostingInit PROVE HostingInv
  OBVIOUS
<1>1. HostingTypeOK
  BY DEF HostingInit, HostingTypeOK, Exits, SelfAlive, Listening
<1>2. AskedAccounted /\ OnlyAskedStop
  BY HostingAssumption DEF HostingInit, AskedAccounted, OnlyAskedStop
<1>3. ListensUncounted /\ OneStopPerRequest
  BY DEF HostingInit, ListensUncounted, OneStopPerRequest, Listening
<1> QED
  BY <1>1, <1>2, <1>3 DEF HostingInv

(* One lemma per action: what it preserves.                                *)

USE HostingAssumption
USE DEF Exits, Listening, SelfAlive, Hit, Boot, Self, Sup, treeVars, fileVars, opsVars

LEMMA SelfReadyKeeps ==
    ASSUME HostingInv, NEW a \in Accounts, SelfReady(a)
    PROVE  HostingInv'
<1> USE DEF HostingInv, SelfReady
<1>1. HostingTypeOK'
  BY DEF HostingTypeOK
<1>2. AskedAccounted' /\ OnlyAskedStop'
  BY DEF HostingTypeOK, AskedAccounted, OnlyAskedStop
<1>3. ListensUncounted' /\ OneStopPerRequest'
  BY DEF HostingTypeOK, ListensUncounted, OneStopPerRequest
<1> QED
  BY <1>1, <1>2, <1>3

LEMMA SelfFailsKeeps ==
    ASSUME HostingInv, NEW a \in Accounts, NEW code \in Exits, SelfFails(a, code)
    PROVE  HostingInv'
<1> USE DEF HostingInv, SelfFails, SelfGone
<1>1. HostingTypeOK'
  BY DEF HostingTypeOK
<1>2. AskedAccounted' /\ OnlyAskedStop'
  BY DEF HostingTypeOK, AskedAccounted, OnlyAskedStop
<1>3. ListensUncounted' /\ OneStopPerRequest'
  BY DEF HostingTypeOK, ListensUncounted, OneStopPerRequest
<1> QED
  BY <1>1, <1>2, <1>3

LEMMA SelfCrashesKeeps ==
    ASSUME HostingInv, NEW a \in Accounts, SelfCrashes(a)
    PROVE  HostingInv'
<1> USE DEF HostingInv, SelfCrashes, SelfGone
<1>1. HostingTypeOK'
  BY DEF HostingTypeOK
<1>2. AskedAccounted' /\ OnlyAskedStop'
  BY DEF HostingTypeOK, AskedAccounted, OnlyAskedStop
<1>3. ListensUncounted' /\ OneStopPerRequest'
  BY DEF HostingTypeOK, ListensUncounted, OneStopPerRequest
<1> QED
  BY <1>1, <1>2, <1>3

LEMMA SelfHangsKeeps ==
    ASSUME HostingInv, NEW a \in Accounts, SelfHangs(a)
    PROVE  HostingInv'
<1> USE DEF HostingInv, SelfHangs
<1>1. HostingTypeOK'
  BY DEF HostingTypeOK
<1>2. AskedAccounted' /\ OnlyAskedStop'
  BY DEF HostingTypeOK, AskedAccounted, OnlyAskedStop
<1>3. ListensUncounted' /\ OneStopPerRequest'
  BY DEF HostingTypeOK, ListensUncounted, OneStopPerRequest
<1> QED
  BY <1>1, <1>2, <1>3

LEMMA SelfSeesSentinelKeeps ==
    ASSUME HostingInv, NEW a \in Accounts, SelfSeesSentinel(a)
    PROVE  HostingInv'
<1> USE DEF HostingInv, SelfSeesSentinel, Stopped
<1>1. HostingTypeOK'
  BY DEF HostingTypeOK
<1>2. AskedAccounted' /\ OnlyAskedStop'
  BY DEF HostingTypeOK, AskedAccounted, OnlyAskedStop
<1>3. ListensUncounted' /\ OneStopPerRequest'
  BY DEF HostingTypeOK, ListensUncounted, OneStopPerRequest
<1> QED
  BY <1>1, <1>2, <1>3

LEMMA SelfSignalledKeeps ==
    ASSUME HostingInv, NEW a \in Accounts, SelfSignalled(a)
    PROVE  HostingInv'
<1> USE DEF HostingInv, SelfSignalled, Stopped
<1>1. HostingTypeOK'
  BY DEF HostingTypeOK
<1>2. AskedAccounted' /\ OnlyAskedStop'
  BY DEF HostingTypeOK, AskedAccounted, OnlyAskedStop
<1>3. ListensUncounted' /\ OneStopPerRequest'
  BY DEF HostingTypeOK, ListensUncounted, OneStopPerRequest
<1> QED
  BY <1>1, <1>2, <1>3

LEMMA SelfEndsKeeps ==
    ASSUME HostingInv, NEW a \in Accounts, SelfEnds(a)
    PROVE  HostingInv'
<1> USE DEF HostingInv, SelfEnds, SelfGone
<1>1. HostingTypeOK'
  BY DEF HostingTypeOK
<1>2. AskedAccounted' /\ OnlyAskedStop'
  BY DEF HostingTypeOK, AskedAccounted, OnlyAskedStop
<1>3. ListensUncounted' /\ OneStopPerRequest'
  BY DEF HostingTypeOK, ListensUncounted, OneStopPerRequest
<1> QED
  BY <1>1, <1>2, <1>3

LEMMA BootSpawnsKeeps ==
    ASSUME HostingInv, NEW a \in Accounts, BootSpawns(a)
    PROVE  HostingInv'
<1> USE DEF HostingInv, BootSpawns
<1>1. HostingTypeOK'
  BY DEF HostingTypeOK
<1>2. AskedAccounted' /\ OnlyAskedStop'
  BY DEF HostingTypeOK, AskedAccounted, OnlyAskedStop
<1>3. ListensUncounted' /\ OneStopPerRequest'
  BY DEF HostingTypeOK, ListensUncounted, OneStopPerRequest
<1> QED
  BY <1>1, <1>2, <1>3

LEMMA BootRefusesKeeps ==
    ASSUME HostingInv, NEW a \in Accounts, BootRefuses(a)
    PROVE  HostingInv'
<1> USE DEF HostingInv, BootRefuses, BootEnds
<1>1. HostingTypeOK'
  BY DEF HostingTypeOK
<1>2. AskedAccounted' /\ OnlyAskedStop'
  BY DEF HostingTypeOK, AskedAccounted, OnlyAskedStop
<1>3. ListensUncounted' /\ OneStopPerRequest'
  BY DEF HostingTypeOK, ListensUncounted, OneStopPerRequest
<1> QED
  BY <1>1, <1>2, <1>3

LEMMA BootSelfExitKeeps ==
    ASSUME HostingInv, NEW a \in Accounts, BootSelfExit(a)
    PROVE  HostingInv'
<1> USE DEF HostingInv, BootSelfExit, BootEnds
<1>1. HostingTypeOK'
  BY DEF HostingTypeOK
<1>2. AskedAccounted' /\ OnlyAskedStop'
  BY DEF HostingTypeOK, AskedAccounted, OnlyAskedStop
<1>3. ListensUncounted' /\ OneStopPerRequest'
  BY DEF HostingTypeOK, ListensUncounted, OneStopPerRequest
<1> QED
  BY <1>1, <1>2, <1>3

LEMMA BootSeesSentinelKeeps ==
    ASSUME HostingInv, NEW a \in Accounts, BootSeesSentinel(a)
    PROVE  HostingInv'
<1> USE DEF HostingInv, BootSeesSentinel
<1>1. HostingTypeOK'
  BY DEF HostingTypeOK
<1>2. AskedAccounted' /\ OnlyAskedStop'
  BY DEF HostingTypeOK, AskedAccounted, OnlyAskedStop
<1>3. ListensUncounted' /\ OneStopPerRequest'
  BY DEF HostingTypeOK, ListensUncounted, OneStopPerRequest
<1> QED
  BY <1>1, <1>2, <1>3

LEMMA BootSignalledKeeps ==
    ASSUME HostingInv, NEW a \in Accounts, BootSignalled(a)
    PROVE  HostingInv'
<1> USE DEF HostingInv, BootSignalled
<1>1. HostingTypeOK'
  BY DEF HostingTypeOK
<1>2. AskedAccounted' /\ OnlyAskedStop'
  BY DEF HostingTypeOK, AskedAccounted, OnlyAskedStop
<1>3. ListensUncounted' /\ OneStopPerRequest'
  BY DEF HostingTypeOK, ListensUncounted, OneStopPerRequest
<1> QED
  BY <1>1, <1>2, <1>3

LEMMA BootTakesSignalKeeps ==
    ASSUME HostingInv, NEW a \in Accounts, BootTakesSignal(a)
    PROVE  HostingInv'
<1> USE DEF HostingInv, BootTakesSignal, BootEnds, WriteSentinel, Alive, BootAlive
<1>1. HostingTypeOK'
  BY DEF HostingTypeOK
<1>2. AskedAccounted' /\ OnlyAskedStop'
  BY DEF HostingTypeOK, AskedAccounted, OnlyAskedStop
<1>3. ListensUncounted' /\ OneStopPerRequest'
  BY DEF HostingTypeOK, ListensUncounted, OneStopPerRequest
<1> QED
  BY <1>1, <1>2, <1>3

LEMMA BootFallbackKeeps ==
    ASSUME HostingInv, NEW a \in Accounts, BootFallback(a)
    PROVE  HostingInv'
<1> USE DEF HostingInv, BootFallback, Stopped
<1>1. HostingTypeOK'
  BY DEF HostingTypeOK
<1>2. AskedAccounted' /\ OnlyAskedStop'
  BY DEF HostingTypeOK, AskedAccounted, OnlyAskedStop
<1>3. ListensUncounted' /\ OneStopPerRequest'
  BY DEF HostingTypeOK, ListensUncounted, OneStopPerRequest
<1> QED
  BY <1>1, <1>2, <1>3

LEMMA SupChildExitKeeps ==
    ASSUME HostingInv, NEW a \in Accounts, SupChildExit(a)
    PROVE  HostingInv'
<1> USE DEF HostingInv, SupChildExit
<1>1. HostingTypeOK'
  BY DEF HostingTypeOK
<1>2. AskedAccounted' /\ OnlyAskedStop'
  BY DEF HostingTypeOK, AskedAccounted, OnlyAskedStop
<1>3. ListensUncounted' /\ OneStopPerRequest'
  BY DEF HostingTypeOK, ListensUncounted, OneStopPerRequest
<1> QED
  BY <1>1, <1>2, <1>3

LEMMA SupRestartsKeeps ==
    ASSUME HostingInv, NEW a \in Accounts, SupRestarts(a)
    PROVE  HostingInv'
<1> USE DEF HostingInv, SupRestarts, Spawned
<1>1. HostingTypeOK'
  BY DEF HostingTypeOK
<1>2. AskedAccounted' /\ OnlyAskedStop'
  BY DEF HostingTypeOK, AskedAccounted, OnlyAskedStop
<1>3. ListensUncounted' /\ OneStopPerRequest'
  BY DEF HostingTypeOK, ListensUncounted, OneStopPerRequest
<1> QED
  BY <1>1, <1>2, <1>3

LEMMA SupSpawnErrorKeeps ==
    ASSUME HostingInv, NEW a \in Accounts, SupSpawnError(a)
    PROVE  HostingInv'
<1> USE DEF HostingInv, SupSpawnError
<1>1. HostingTypeOK'
  BY DEF HostingTypeOK
<1>2. AskedAccounted' /\ OnlyAskedStop'
  BY DEF HostingTypeOK, AskedAccounted, OnlyAskedStop
<1>3. ListensUncounted' /\ OneStopPerRequest'
  BY DEF HostingTypeOK, ListensUncounted, OneStopPerRequest
<1> QED
  BY <1>1, <1>2, <1>3

LEMMA SupStopsKeeps ==
    ASSUME HostingInv, SupStops
    PROVE  HostingInv'
<1> USE DEF HostingInv, SupStops, WriteSentinel, Alive, BootAlive
<1>1. HostingTypeOK'
  BY DEF HostingTypeOK
<1>2. AskedAccounted' /\ OnlyAskedStop'
  BY DEF HostingTypeOK, AskedAccounted, OnlyAskedStop
<1>3. ListensUncounted' /\ OneStopPerRequest'
  BY DEF HostingTypeOK, ListensUncounted, OneStopPerRequest
<1> QED
  BY <1>1, <1>2, <1>3

LEMMA SupEndsKeeps ==
    ASSUME HostingInv, SupEnds
    PROVE  HostingInv'
<1> USE DEF HostingInv, SupEnds, SupGone
<1>1. HostingTypeOK'
  BY DEF HostingTypeOK
<1>2. AskedAccounted' /\ OnlyAskedStop'
  BY DEF HostingTypeOK, AskedAccounted, OnlyAskedStop
<1>3. ListensUncounted' /\ OneStopPerRequest'
  BY DEF HostingTypeOK, ListensUncounted, OneStopPerRequest
<1> QED
  BY <1>1, <1>2, <1>3

LEMMA SupForceKeeps ==
    ASSUME HostingInv, SupForce
    PROVE  HostingInv'
<1> USE DEF HostingInv, SupForce, SupGone, KillBoots
<1>1. HostingTypeOK'
  BY DEF HostingTypeOK
<1>2. AskedAccounted' /\ OnlyAskedStop'
  BY DEF HostingTypeOK, AskedAccounted, OnlyAskedStop
<1>3. ListensUncounted' /\ OneStopPerRequest'
  BY DEF HostingTypeOK, ListensUncounted, OneStopPerRequest
<1> QED
  BY <1>1, <1>2, <1>3

LEMMA OpsStopAllKeeps ==
    ASSUME HostingInv, OpsStopAll
    PROVE  HostingInv'
<1> USE DEF HostingInv, OpsStopAll, Recorded, WriteSentinel, Alive, BootAlive
<1>1. HostingTypeOK'
  BY DEF HostingTypeOK
<1>2. AskedAccounted' /\ OnlyAskedStop'
  BY DEF HostingTypeOK, AskedAccounted, OnlyAskedStop
<1>3. ListensUncounted' /\ OneStopPerRequest'
  BY DEF HostingTypeOK, ListensUncounted, OneStopPerRequest
<1> QED
  BY <1>1, <1>2, <1>3

LEMMA OpsStopOneKeeps ==
    ASSUME HostingInv, NEW a \in Accounts, OpsStopOne(a)
    PROVE  HostingInv'
<1> USE DEF HostingInv, OpsStopOne, Recorded, WriteSentinel, Alive, BootAlive
<1>1. HostingTypeOK'
  BY DEF HostingTypeOK
<1>2. AskedAccounted' /\ OnlyAskedStop'
  BY DEF HostingTypeOK, AskedAccounted, OnlyAskedStop
<1>3. ListensUncounted' /\ OneStopPerRequest'
  BY DEF HostingTypeOK, ListensUncounted, OneStopPerRequest
<1> QED
  BY <1>1, <1>2, <1>3

LEMMA OpsSupervisorGoneKeeps ==
    ASSUME HostingInv, OpsSupervisorGone
    PROVE  HostingInv'
<1> USE DEF HostingInv, OpsSupervisorGone
<1>1. HostingTypeOK'
  BY DEF HostingTypeOK
<1>2. AskedAccounted' /\ OnlyAskedStop'
  BY DEF HostingTypeOK, AskedAccounted, OnlyAskedStop
<1>3. ListensUncounted' /\ OneStopPerRequest'
  BY DEF HostingTypeOK, ListensUncounted, OneStopPerRequest
<1> QED
  BY <1>1, <1>2, <1>3

LEMMA OpsKillsSupervisorKeeps ==
    ASSUME HostingInv, OpsKillsSupervisor
    PROVE  HostingInv'
<1> USE DEF HostingInv, OpsKillsSupervisor, SupGone, KillBoots
<1>1. HostingTypeOK'
  BY DEF HostingTypeOK
<1>2. AskedAccounted' /\ OnlyAskedStop'
  BY DEF HostingTypeOK, AskedAccounted, OnlyAskedStop
<1>3. ListensUncounted' /\ OneStopPerRequest'
  BY DEF HostingTypeOK, ListensUncounted, OneStopPerRequest
<1> QED
  BY <1>1, <1>2, <1>3

LEMMA OpsSignalsSupervisorKeeps ==
    ASSUME HostingInv, OpsSignalsSupervisor
    PROVE  HostingInv'
<1> USE DEF HostingInv, OpsSignalsSupervisor, WriteSentinel, Alive, BootAlive
<1>1. HostingTypeOK'
  BY DEF HostingTypeOK
<1>2. AskedAccounted' /\ OnlyAskedStop'
  BY DEF HostingTypeOK, AskedAccounted, OnlyAskedStop
<1>3. ListensUncounted' /\ OneStopPerRequest'
  BY DEF HostingTypeOK, ListensUncounted, OneStopPerRequest
<1> QED
  BY <1>1, <1>2, <1>3

LEMMA OpsAccountsGoneKeeps ==
    ASSUME HostingInv, OpsAccountsGone
    PROVE  HostingInv'
<1> USE DEF HostingInv, OpsAccountsGone
<1>1. HostingTypeOK'
  BY DEF HostingTypeOK
<1>2. AskedAccounted' /\ OnlyAskedStop'
  BY DEF HostingTypeOK, AskedAccounted, OnlyAskedStop
<1>3. ListensUncounted' /\ OneStopPerRequest'
  BY DEF HostingTypeOK, ListensUncounted, OneStopPerRequest
<1> QED
  BY <1>1, <1>2, <1>3

LEMMA OpsKillsAccountsKeeps ==
    ASSUME HostingInv, OpsKillsAccounts
    PROVE  HostingInv'
<1> USE DEF HostingInv, OpsKillsAccounts
<1>1. HostingTypeOK'
  BY DEF HostingTypeOK
<1>2. AskedAccounted' /\ OnlyAskedStop'
  BY DEF HostingTypeOK, AskedAccounted, OnlyAskedStop
<1>3. ListensUncounted' /\ OneStopPerRequest'
  BY DEF HostingTypeOK, ListensUncounted, OneStopPerRequest
<1> QED
  BY <1>1, <1>2, <1>3

LEMMA HostingKeeps == HostingInv /\ [HostingNext]_hostingVars => HostingInv'
<1> SUFFICES ASSUME HostingInv, [HostingNext]_hostingVars PROVE HostingInv'
  OBVIOUS
<1>1. CASE SupStops \/ SupEnds \/ SupForce
  BY <1>1, SupStopsKeeps, SupEndsKeeps, SupForceKeeps
<1>2. CASE OpsStopAll \/ OpsSupervisorGone \/ OpsKillsSupervisor
  BY <1>2, OpsStopAllKeeps, OpsSupervisorGoneKeeps, OpsKillsSupervisorKeeps
<1>3. CASE OpsSignalsSupervisor \/ OpsAccountsGone \/ OpsKillsAccounts
  BY <1>3, OpsSignalsSupervisorKeeps, OpsAccountsGoneKeeps, OpsKillsAccountsKeeps
<1>4. ASSUME NEW a \in Accounts,
             \/ SelfReady(a) \/ SelfCrashes(a) \/ SelfHangs(a)
             \/ \E code \in Exits : SelfFails(a, code)
             \/ SelfSeesSentinel(a) \/ SelfSignalled(a) \/ SelfEnds(a)
      PROVE  HostingInv'
  BY <1>4, SelfReadyKeeps, SelfCrashesKeeps, SelfHangsKeeps, SelfFailsKeeps,
     SelfSeesSentinelKeeps, SelfSignalledKeeps, SelfEndsKeeps
<1>5. ASSUME NEW a \in Accounts,
             \/ BootSpawns(a) \/ BootRefuses(a) \/ BootSelfExit(a) \/ BootSeesSentinel(a)
             \/ BootSignalled(a) \/ BootTakesSignal(a) \/ BootFallback(a)
      PROVE  HostingInv'
  BY <1>5, BootSpawnsKeeps, BootRefusesKeeps, BootSelfExitKeeps, BootSeesSentinelKeeps,
     BootSignalledKeeps, BootTakesSignalKeeps, BootFallbackKeeps
<1>6. ASSUME NEW a \in Accounts,
             SupChildExit(a) \/ SupRestarts(a) \/ SupSpawnError(a) \/ OpsStopOne(a)
      PROVE  HostingInv'
  BY <1>6, SupChildExitKeeps, SupRestartsKeeps, SupSpawnErrorKeeps, OpsStopOneKeeps
<1>7. CASE UNCHANGED hostingVars
  <2>1. /\ UNCHANGED <<windows, sup, child, boot, armed, self, unfit, sentinel, seen>>
        /\ UNCHANGED <<sigterm, ops, targets, askedStop, hits>>
    BY <1>7 DEF hostingVars
  <2> QED
    BY <2>1 DEF HostingInv, HostingTypeOK, AskedAccounted, OnlyAskedStop, ListensUncounted,
                OneStopPerRequest
<1> QED
  BY <1>1, <1>2, <1>3, <1>4, <1>5, <1>6, <1>7, Zenon DEF HostingNext

LEMMA HostingInvariance == HostingSpec => []HostingInv
<1> QED
  BY HostingInitially, HostingKeeps, PTL DEF HostingSpec

-----------------------------------------------------------------------------
(* The theorems.                                                           *)

\* No self-host shuts down unless somebody asked for its account, alone or with
\* all others; the sentinel file they share leads nobody else astray.
THEOREM OnlyTheAskedStop == HostingSpec => []OnlyAskedStop
<1>1. HostingInv => OnlyAskedStop
  BY DEF HostingInv
<1> QED
  BY <1>1, HostingInvariance, PTL

\* One sentinel file stops one run of an account: not the run that follows it.
THEOREM EachFileStopsOnce == HostingSpec => []OneStopPerRequest
<1>1. HostingInv => OneStopPerRequest
  BY DEF HostingInv
<1> QED
  BY <1>1, HostingInvariance, PTL

\* A boot process starts only from the restart timer of a running supervisor.
THEOREM StopsForGood == HostingSpec => NoStartAfterStop
<1> DEFINE NoStart == \A a \in Accounts :
                          sup \in {"stopping", "gone"} /\ boot[a] # "starting"
                              => boot'[a] # "starting"
<1>1. HostingInv /\ [HostingNext]_hostingVars => [NoStart]_hostingVars
  <2> SUFFICES ASSUME HostingInv, HostingNext, NEW a \in Accounts, sup \in {"stopping", "gone"},
                      boot[a] # "starting"
               PROVE  boot'[a] # "starting"
    OBVIOUS
  <2> USE DEF HostingInv, HostingTypeOK
  <2>1. CASE SupStops \/ SupEnds \/ SupForce
    BY <2>1 DEF SupStops, SupEnds, SupForce, KillBoots
  <2>2. CASE OpsStopAll \/ OpsSupervisorGone \/ OpsSignalsSupervisor \/ OpsAccountsGone
    BY <2>2 DEF OpsStopAll, OpsSupervisorGone, OpsSignalsSupervisor, OpsAccountsGone
  <2>3. CASE OpsKillsSupervisor \/ OpsKillsAccounts
    BY <2>3 DEF OpsKillsSupervisor, OpsKillsAccounts, KillBoots
  <2>4. ASSUME NEW b \in Accounts,
               \/ SelfReady(b) \/ SelfCrashes(b) \/ SelfHangs(b)
               \/ \E code \in Exits : SelfFails(b, code)
               \/ SelfSeesSentinel(b) \/ SelfSignalled(b) \/ SelfEnds(b)
        PROVE  boot' = boot
    BY <2>4, Zenon DEF SelfReady, SelfCrashes, SelfHangs, SelfFails, SelfSeesSentinel,
                       SelfSignalled, SelfEnds, SelfGone
  <2>5. ASSUME NEW b \in Accounts,
               BootSpawns(b) \/ BootRefuses(b) \/ BootSelfExit(b) \/ BootTakesSignal(b)
        PROVE  boot'[a] # "starting"
    BY <2>5 DEF BootSpawns, BootRefuses, BootSelfExit, BootTakesSignal, BootEnds
  <2>6. ASSUME NEW b \in Accounts, BootSeesSentinel(b) \/ BootSignalled(b) \/ BootFallback(b)
        PROVE  boot' = boot
    BY <2>6 DEF BootSeesSentinel, BootSignalled, BootFallback
  <2>7. ASSUME NEW b \in Accounts,
               SupChildExit(b) \/ SupRestarts(b) \/ SupSpawnError(b) \/ OpsStopOne(b)
        PROVE  boot'[a] # "starting"
    BY <2>7 DEF SupChildExit, SupRestarts, SupSpawnError, OpsStopOne, Spawned
  <2> QED
    BY <2>1, <2>2, <2>3, <2>4, <2>5, <2>6, <2>7 DEF HostingNext
<1> QED
  BY <1>1, HostingInvariance, PTL DEF HostingSpec, NoStartAfterStop
-----------------------------------------------------------------------------
(* Who takes an event. Liveness is a matter of fairness only as long as    *)
(* what is waited for can still come.                                      *)

\* An account's events have living receivers: a child and its restart timer have
\* a supervisor, an exit code has the parent that spawned the process, a signal
\* and a wait of the stop command have a boot process that is alive, an armed
\* boot process is hosting, and a hosting one has a self-host or its exit code.
Received(a) ==
    /\ child[a] # "none" => sup \in {"running", "stopping"}
    /\ child[a] = "live" => boot[a] # "none"
    /\ sup \in {"running", "stopping"} /\ boot[a] # "none" => child[a] = "live"
    /\ boot[a] \in Exits => child[a] = "live"
    /\ self[a] \in Exits => boot[a] = "hosting"
    /\ boot[a] = "hosting" => self[a] # "none"
    /\ armed[a] # "no" => boot[a] = "hosting"
    /\ a \in sigterm \cup targets => BootAlive(a)

EventsHaveReceivers == \A a \in Accounts : Received(a)

LEMMA ReceivedBySelf ==
    ASSUME HostingTypeOK, EventsHaveReceivers, NEW a \in Accounts, NEW b \in Accounts,
           \/ SelfReady(b) \/ SelfCrashes(b) \/ SelfHangs(b)
           \/ \E code \in Exits : SelfFails(b, code)
           \/ SelfSeesSentinel(b) \/ SelfSignalled(b) \/ SelfEnds(b)
    PROVE  Received(a)'
<1> USE DEF HostingTypeOK, EventsHaveReceivers, Received, BootAlive
<1>1. CASE SelfCrashes(b) \/ SelfEnds(b) \/ \E code \in Exits : SelfFails(b, code)
  BY <1>1 DEF SelfCrashes, SelfEnds, SelfFails, SelfGone
<1>2. CASE SelfReady(b) \/ SelfHangs(b)
  BY <1>2 DEF SelfReady, SelfHangs
<1>3. CASE SelfSeesSentinel(b) \/ SelfSignalled(b)
  BY <1>3 DEF SelfSeesSentinel, SelfSignalled, Stopped
<1> QED
  BY <1>1, <1>2, <1>3, Zenon

LEMMA ReceivedByBoot ==
    ASSUME HostingTypeOK, EventsHaveReceivers, NEW a \in Accounts, NEW b \in Accounts,
           \/ BootSpawns(b) \/ BootRefuses(b) \/ BootSelfExit(b) \/ BootSeesSentinel(b)
           \/ BootSignalled(b) \/ BootTakesSignal(b) \/ BootFallback(b)
    PROVE  Received(a)'
<1> USE DEF HostingTypeOK, EventsHaveReceivers, Received, BootAlive
<1>1. CASE BootSpawns(b)
  BY <1>1 DEF BootSpawns
<1>2. CASE BootRefuses(b) \/ BootSelfExit(b)
  BY <1>2 DEF BootRefuses, BootSelfExit, BootEnds
<1>3. CASE BootSeesSentinel(b) \/ BootSignalled(b)
  BY <1>3 DEF BootSeesSentinel, BootSignalled
<1>4. CASE BootTakesSignal(b)
  BY <1>4 DEF BootTakesSignal, BootEnds
<1>5. CASE BootFallback(b)
  BY <1>5 DEF BootFallback, Stopped
<1> QED
  BY <1>1, <1>2, <1>3, <1>4, <1>5, Zenon

LEMMA ReceivedBySupervisor ==
    ASSUME HostingTypeOK, EventsHaveReceivers, NEW a \in Accounts,
           \/ SupStops \/ SupEnds \/ SupForce
           \/ \E b \in Accounts : SupChildExit(b) \/ SupRestarts(b) \/ SupSpawnError(b)
    PROVE  Received(a)'
<1> USE DEF HostingTypeOK, EventsHaveReceivers, Received, BootAlive
<1>1. CASE SupStops
  BY <1>1 DEF SupStops
<1>2. CASE SupEnds
  BY <1>2 DEF SupEnds, SupGone
<1>3. CASE SupForce
  BY <1>3 DEF SupForce, SupGone, KillBoots
<1>4. ASSUME NEW b \in Accounts, SupChildExit(b) \/ SupSpawnError(b) PROVE Received(a)'
  BY <1>4 DEF SupChildExit, SupSpawnError
<1>5. ASSUME NEW b \in Accounts, SupRestarts(b) PROVE Received(a)'
  BY <1>5 DEF SupRestarts, Spawned
<1> QED
  BY <1>1, <1>2, <1>3, <1>4, <1>5, Zenon

LEMMA ReceivedByOps ==
    ASSUME HostingTypeOK, EventsHaveReceivers, NEW a \in Accounts,
           \/ OpsStopAll \/ OpsSupervisorGone \/ OpsKillsSupervisor
           \/ OpsSignalsSupervisor \/ OpsAccountsGone \/ OpsKillsAccounts
           \/ \E b \in Accounts : OpsStopOne(b)
    PROVE  Received(a)'
<1> USE DEF HostingTypeOK, EventsHaveReceivers, Received, BootAlive
<1>1. CASE OpsStopAll \/ \E b \in Accounts : OpsStopOne(b)
  BY <1>1 DEF OpsStopAll, OpsStopOne, Recorded
<1>2. CASE OpsSupervisorGone \/ OpsAccountsGone
  BY <1>2 DEF OpsSupervisorGone, OpsAccountsGone
<1>3. CASE OpsKillsSupervisor
  BY <1>3 DEF OpsKillsSupervisor, SupGone, KillBoots
<1>4. CASE OpsSignalsSupervisor
  BY <1>4 DEF OpsSignalsSupervisor
<1>5. CASE OpsKillsAccounts
  BY <1>5 DEF OpsKillsAccounts
<1> QED
  BY <1>1, <1>2, <1>3, <1>4, <1>5, Zenon

LEMMA ReceptionKeeps ==
    HostingInv /\ EventsHaveReceivers /\ [HostingNext]_hostingVars => EventsHaveReceivers'
<1> SUFFICES ASSUME HostingTypeOK, EventsHaveReceivers, [HostingNext]_hostingVars, NEW a \in Accounts
             PROVE  Received(a)'
  BY DEF HostingInv, EventsHaveReceivers
<1>1. CASE UNCHANGED hostingVars
  BY <1>1 DEF hostingVars, EventsHaveReceivers, Received, BootAlive
<1>2. CASE HostingNext
  BY <1>2, ReceivedBySelf, ReceivedByBoot, ReceivedBySupervisor, ReceivedByOps, Zenon DEF HostingNext
<1> QED
  BY <1>1, <1>2

\* No exit code, signal, restart or wait is ever left without the process that is
\* to take it, whichever processes crash, hang or are killed in the meantime.
THEOREM NoEventIsLost == HostingSpec => []EventsHaveReceivers
<1>1. HostingInit => EventsHaveReceivers
  BY DEF HostingInit, EventsHaveReceivers, Received, BootAlive
<1> QED
  BY <1>1, HostingInvariance, ReceptionKeeps, PTL DEF HostingSpec
==============================================================================
