------------------------------ MODULE Hosting ------------------------------
(***************************************************************************)
(* The process tree of the command line program and its shutdown: the      *)
(* supervisor (apps/cli/src/runtime/supervisor.ts), one boot process per   *)
(* account (runtime/boot.ts), its self-host child (packages/loader/src/    *)
(* host/core/self-host.ts, shutdown.ts) and the stop command               *)
(* (apps/cli/src/commands/ops.ts). The processes share one file, the stop  *)
(* sentinel, which each of them polls.                                     *)
(*                                                                         *)
(* Time: polls (0.1 to 0.5 s) are quicker than the time limits (8 and      *)
(* 10 s), so a limit is reached only when the polls have seen what there   *)
(* is to see; and the supervisor's 8 s end before the 10 s of a boot       *)
(* process that was told to stop together with it.                         *)
(***************************************************************************)
EXTENDS Naturals, FiniteSets

CONSTANTS
    Accounts,
    AutoRestart,    \* the autoRestart of the main configuration
    MayHang,        \* self-hosts may stop reacting
    StopCommands,   \* stop commands an operator gives, of {"all", "one"}
    Signals         \* processes a terminal or a host signals, of {"boot", "self"}

ASSUME HostingAssumption ==
    /\ IsFiniteSet(Accounts)
    /\ AutoRestart \in BOOLEAN
    /\ MayHang \in BOOLEAN
    /\ StopCommands \subseteq {"all", "one"}
    /\ Signals \subseteq {"boot", "self"}
    /\ {"none", "all"} \cap Accounts = {}

VARIABLES
    windows,    \* the platform: kill() is final, there is no SIGTERM
    sup,        \* the supervisor; "off": boot processes were started one by one
    child,      \* its view of an account: children map and restart timer
    boot,       \* boot process; an exit code until the supervisor has seen it
    armed,      \* armGracefulStop of the boot process, and what armed it
    self,       \* self-host process; an exit code until boot has seen it
    unfit,      \* history: accounts whose self-host last exited with 78
    sentinel,   \* content of <data root>/napuketto.stop, or "none"
    seen,       \* processes older than the file
    sigterm,    \* boot processes with a signal to handle
    ops,        \* the stop command that is running
    targets,    \* of the account processes it found alive, those that still are
    askedStop,  \* history: accounts anybody asked to stop
    hits        \* history: self-hosts the present sentinel file has stopped

treeVars == <<windows, sup, child, boot, armed, self, unfit>>
fileVars == <<sentinel, seen, sigterm>>
opsVars == <<ops, targets>>
hostingVars == <<treeVars, fileVars, opsVars, askedStop, hits>>

Exits == {"exit", "exit78"}    \* exit: any code but 78
Listening == {"booting", "ready"}
SelfAlive == Listening \cup {"stopping", "aborting", "hung"}
Boot(a) == <<"boot", a>>
Self(a) == <<"self", a>>
Sup == <<"supervisor">>

HostingTypeOK ==
    /\ windows \in BOOLEAN
    /\ sup \in {"off", "running", "stopping", "gone"}
    /\ child \in [Accounts -> {"none", "live", "timer"}]
    /\ boot \in [Accounts -> {"none", "starting", "hosting"} \cup Exits]
    /\ armed \in [Accounts -> {"no", "own", "all", "fired"}]
    /\ self \in [Accounts -> {"none"} \cup SelfAlive \cup Exits]
    /\ unfit \subseteq Accounts
    /\ sentinel \in Accounts \cup {"none", "all"}
    /\ seen \subseteq {Sup} \cup {Boot(a) : a \in Accounts} \cup {Self(a) : a \in Accounts}
    /\ sigterm \subseteq Accounts
    /\ ops \in {"idle", "waitSupervisor", "waitAccounts"}
    /\ targets \subseteq Accounts
    /\ askedStop \subseteq Accounts
    /\ hits \in [Accounts -> 0..2]

\* Every account has just been started, by the supervisor or by hand.
HostingInit ==
    /\ windows \in BOOLEAN
    /\ sup \in {"off", "running"}
    /\ child = [a \in Accounts |-> IF sup = "running" THEN "live" ELSE "none"]
    /\ boot = [a \in Accounts |-> "starting"]
    /\ armed = [a \in Accounts |-> "no"]
    /\ self = [a \in Accounts |-> "none"]
    /\ unfit = {}
    /\ sentinel = "none"
    /\ seen = {}
    /\ sigterm = {}
    /\ ops = "idle"
    /\ targets = {}
    /\ askedStop = {}
    /\ hits = [a \in Accounts |-> 0]

-----------------------------------------------------------------------------
(* The sentinel file.                                                      *)

BootAlive(a) == boot[a] \in {"starting", "hosting"}

Alive ==
    {Boot(a) : a \in {b \in Accounts : BootAlive(b)}}
        \cup {Self(a) : a \in {b \in Accounts : self[b] \in SelfAlive}}
        \cup (IF sup \in {"running", "stopping"} THEN {Sup} ELSE {})

\* writeStopSentinel(): a new content, and newer than every process there is.
WriteSentinel(target) ==
    /\ sentinel' = target
    /\ seen' = Alive
    /\ hits' = [a \in Accounts |-> 0]

\* Fault-seeded form of Hit: the time of the file is not compared.
FaultyHit(a, process) == sentinel \in {"all", a}

\* What the watcher of a process of the account answers to.
Hit(a, process) == sentinel \in {"all", a} /\ process \in seen

\* Nobody is about to learn of the sentinel or a signal: all polls are done.
PollsDone ==
    /\ sup = "running" => ~(sentinel = "all" /\ Sup \in seen)
    /\ sigterm = {}
    /\ \A a \in Accounts :
         /\ self[a] \in Listening => ~Hit(a, Self(a))
         /\ boot[a] = "hosting" /\ armed[a] = "no" => ~Hit(a, Boot(a))

-----------------------------------------------------------------------------
(* self-host: bootstrap, failures, shutdown.                               *)

\* A self-host is gone: boot learns the code, if it is still there.
SelfGone(a, code) ==
    /\ self' = [self EXCEPT ![a] = IF boot[a] = "hosting" THEN code ELSE "none"]
    /\ unfit' = IF code = "exit78" THEN unfit \cup {a} ELSE unfit \ {a}
    /\ UNCHANGED <<windows, sup, child, boot, armed, fileVars, opsVars, askedStop, hits>>

SelfReady(a) ==
    /\ self[a] = "booting"
    /\ self' = [self EXCEPT ![a] = "ready"]
    /\ UNCHANGED <<windows, sup, child, boot, armed, unfit, fileVars, opsVars, askedStop, hits>>

\* exitBootIncomplete, exitOnBootstrapError: also when a stop request came
\* during bootstrap, which goes on meanwhile.
SelfFails(a, code) ==
    /\ self[a] \in {"booting", "aborting"}
    /\ SelfGone(a, code)

SelfCrashes(a) ==
    /\ self[a] \in SelfAlive
    /\ SelfGone(a, "exit")

\* Stuck in native code, or in a shutdown hook that never settles.
SelfHangs(a) ==
    /\ MayHang
    /\ self[a] \in SelfAlive
    /\ self' = [self EXCEPT ![a] = "hung"]
    /\ UNCHANGED <<windows, sup, child, boot, armed, unfit, fileVars, opsVars, askedStop, hits>>

Stopped(state) ==
    CASE state = "ready" -> "stopping"
      [] state = "booting" -> "aborting"
      [] OTHER -> state

\* requestShutdown("sentinel")
SelfSeesSentinel(a) ==
    /\ self[a] \in Listening
    /\ Hit(a, Self(a))
    /\ self' = [self EXCEPT ![a] = Stopped(@)]
    /\ hits' = [hits EXCEPT ![a] = IF @ < 2 THEN @ + 1 ELSE @]
    /\ UNCHANGED <<windows, sup, child, boot, armed, unfit, fileVars, opsVars, askedStop>>

\* requestShutdown("signal"): the terminal or a host signals the process.
SelfSignalled(a) ==
    /\ "self" \in Signals
    /\ self[a] \in Listening
    /\ self' = [self EXCEPT ![a] = Stopped(@)]
    /\ askedStop' = askedStop \cup {a}
    /\ UNCHANGED <<windows, sup, child, boot, armed, unfit, fileVars, opsVars, hits>>

\* The hooks are through: exit 0.
SelfEnds(a) ==
    /\ self[a] \in {"stopping", "aborting"}
    /\ SelfGone(a, "exit")

-----------------------------------------------------------------------------
(* boot: one account.                                                      *)

BootEnds(a, code) ==
    /\ boot' = [boot EXCEPT ![a] = IF child[a] = "live" THEN code ELSE "none"]
    /\ armed' = [armed EXCEPT ![a] = "no"]
    /\ sigterm' = sigterm \ {a}
    /\ targets' = targets \ {a}

\* Native files located, instance lock free, self-host spawned.
BootSpawns(a) ==
    /\ boot[a] = "starting"
    /\ self[a] = "none"
    /\ boot' = [boot EXCEPT ![a] = "hosting"]
    /\ self' = [self EXCEPT ![a] = "booting"]
    /\ seen' = seen \ {Self(a)}
    /\ UNCHANGED <<windows, sup, child, armed, unfit, sentinel, sigterm, opsVars, askedStop,
                   hits>>

\* Nothing to run, or another instance holds the data directory.
BootRefuses(a) ==
    /\ boot[a] = "starting"
    /\ BootEnds(a, "exit")
    /\ UNCHANGED <<windows, sup, child, self, unfit, sentinel, seen, ops, askedStop, hits>>

\* waitSelfHostExit: whatever the code was, boot ends with 0.
BootSelfExit(a) ==
    /\ boot[a] = "hosting"
    /\ self[a] \in Exits
    /\ self' = [self EXCEPT ![a] = "none"]
    /\ BootEnds(a, "exit")
    /\ UNCHANGED <<windows, sup, child, unfit, sentinel, seen, ops, askedStop, hits>>

BootSeesSentinel(a) ==
    /\ boot[a] = "hosting"
    /\ armed[a] = "no"
    /\ Hit(a, Boot(a))
    /\ armed' = [armed EXCEPT ![a] = IF sentinel = "all" THEN "all" ELSE "own"]
    /\ UNCHANGED <<windows, sup, child, boot, self, unfit, fileVars, opsVars, askedStop, hits>>

\* A host signals the boot process.
BootSignalled(a) ==
    /\ "boot" \in Signals
    /\ BootAlive(a)
    /\ sigterm' = sigterm \cup {a}
    /\ askedStop' = askedStop \cup {a}
    /\ UNCHANGED <<treeVars, sentinel, seen, opsVars, hits>>

\* Fault-seeded form of BootTakesSignal: all accounts are told to stop.
FaultyBootTakesSignal(a) ==
    /\ a \in sigterm
    /\ \/ /\ boot[a] = "hosting"
          /\ WriteSentinel("all")
          /\ armed' = [armed EXCEPT ![a] = IF @ = "no" THEN "own" ELSE @]
          /\ sigterm' = sigterm \ {a}
          /\ UNCHANGED <<boot, targets>>
       \/ /\ boot[a] = "starting"
          /\ BootEnds(a, "exit")
          /\ UNCHANGED <<sentinel, seen, hits>>
    /\ UNCHANGED <<windows, sup, child, self, unfit, ops, askedStop>>

\* onSignal passes the request on through the sentinel; before that handler is
\* installed a signal ends the process.
BootTakesSignal(a) ==
    /\ a \in sigterm
    /\ \/ /\ boot[a] = "hosting"
          /\ WriteSentinel(a)
          /\ armed' = [armed EXCEPT ![a] = IF @ = "no" THEN "own" ELSE @]
          /\ sigterm' = sigterm \ {a}
          /\ UNCHANGED <<boot, targets>>
       \/ /\ boot[a] = "starting"
          /\ BootEnds(a, "exit")
          /\ UNCHANGED <<sentinel, seen, hits>>
    /\ UNCHANGED <<windows, sup, child, self, unfit, ops, askedStop>>

\* Fault-seeded form of BootFallback: the warning is logged, nothing is killed.
FaultyBootFallback(a) ==
    /\ boot[a] = "hosting"
    /\ self[a] \in SelfAlive
    /\ armed[a] = "own" \/ (armed[a] = "all" /\ sup \in {"off", "gone"})
    /\ PollsDone
    /\ armed' = [armed EXCEPT ![a] = "fired"]
    /\ UNCHANGED <<windows, sup, child, boot, self, unfit, fileVars, opsVars, askedStop, hits>>

\* killIfHung after 10 s: final on Windows, a request elsewhere.
BootFallback(a) ==
    /\ boot[a] = "hosting"
    /\ self[a] \in SelfAlive
    /\ armed[a] = "own" \/ (armed[a] = "all" /\ sup \in {"off", "gone"})
    /\ PollsDone
    /\ armed' = [armed EXCEPT ![a] = "fired"]
    /\ self' = [self EXCEPT ![a] = IF windows THEN "exit" ELSE Stopped(@)]
    /\ unfit' = IF windows THEN unfit \ {a} ELSE unfit
    /\ UNCHANGED <<windows, sup, child, boot, fileVars, opsVars, askedStop, hits>>

-----------------------------------------------------------------------------
(* supervisor.                                                             *)

\* The exit event of a child; EXIT_CONFIG_INVALID is not restarted.
SupChildExit(a) ==
    /\ sup \in {"running", "stopping"}
    /\ child[a] = "live"
    /\ boot[a] \in Exits
    /\ boot' = [boot EXCEPT ![a] = "none"]
    /\ child' = [child EXCEPT ![a] =
                    IF boot[a] # "exit78" /\ sup = "running" /\ AutoRestart
                      THEN "timer" ELSE "none"]
    /\ UNCHANGED <<windows, sup, armed, self, unfit, fileVars, opsVars, askedStop, hits>>

Spawned(a) ==
    /\ child' = [child EXCEPT ![a] = "live"]
    /\ boot' = [boot EXCEPT ![a] = "starting"]
    /\ seen' = seen \ {Boot(a)}

\* Fault-seeded form of SupRestarts: isStopping is not asked.
FaultySupRestarts(a) ==
    /\ sup \in {"running", "stopping"}
    /\ child[a] = "timer"
    /\ Spawned(a)
    /\ UNCHANGED <<windows, sup, armed, self, unfit, sentinel, sigterm, opsVars, askedStop,
                   hits>>

\* The restart timer calls startAccount.
SupRestarts(a) ==
    /\ sup \in {"running", "stopping"}
    /\ child[a] = "timer"
    /\ IF sup = "running"
         THEN Spawned(a)
         ELSE /\ child' = [child EXCEPT ![a] = "none"]
              /\ UNCHANGED <<boot, seen>>
    /\ UNCHANGED <<windows, sup, armed, self, unfit, sentinel, sigterm, opsVars, askedStop,
                   hits>>

\* spawn fails: the error event forgets the child and nothing restarts it.
SupSpawnError(a) ==
    /\ sup = "running"
    /\ child[a] = "timer"
    /\ child' = [child EXCEPT ![a] = "none"]
    /\ UNCHANGED <<windows, sup, boot, armed, self, unfit, fileVars, opsVars, askedStop, hits>>

\* stopAll, on a signal or on the sentinel "all".
SupStops ==
    /\ sup = "running"
    /\ sup' = "stopping"
    /\ WriteSentinel("all")
    /\ askedStop' = Accounts
    /\ UNCHANGED <<windows, child, boot, armed, self, unfit, sigterm, opsVars>>

\* The supervisor is gone, and with it the children map and the timers.
SupGone ==
    /\ sup' = "gone"
    /\ child' = [a \in Accounts |-> "none"]

\* The children map is empty: exit 0.
SupEnds ==
    /\ sup = "stopping"
    /\ \A a \in Accounts : child[a] # "live"
    /\ SupGone
    /\ UNCHANGED <<windows, boot, armed, self, unfit, fileVars, opsVars, askedStop, hits>>

\* The children after kill(): dead on Windows, their own children live on.
KillBoots(killed) ==
    /\ boot' = [a \in Accounts |->
                   IF boot[a] \in Exits \/ (windows /\ a \in killed) THEN "none" ELSE boot[a]]
    /\ armed' = [a \in Accounts |-> IF windows /\ a \in killed THEN "no" ELSE armed[a]]
    /\ sigterm' = IF windows THEN sigterm \ killed ELSE sigterm \cup killed
    /\ targets' = IF windows THEN targets \ killed ELSE targets

\* Fault-seeded form of SupForce: waits for the children for ever.
FaultySupForce == FALSE /\ UNCHANGED hostingVars

\* FORCE_EXIT_MS are over: kill what is left, exit 0.
SupForce ==
    /\ sup = "stopping"
    /\ PollsDone
    /\ SupGone
    /\ KillBoots({a \in Accounts : child[a] = "live" /\ BootAlive(a)})
    /\ self' = [a \in Accounts |->
                   IF windows /\ child[a] = "live" /\ self[a] \in Exits THEN "none" ELSE self[a]]
    /\ UNCHANGED <<windows, unfit, sentinel, seen, ops, askedStop, hits>>

-----------------------------------------------------------------------------
(* napuketto stop.                                                         *)

\* Boot processes listAccountRuntimes knows of: the supervisor records its
\* children at once, boot records itself when its self-host is spawned.
Recorded == {a \in Accounts : boot[a] = "hosting" \/ (boot[a] = "starting" /\ child[a] = "live")}

\* stop: the sentinel is written only where a supervisor was ever recorded.
OpsStopAll ==
    /\ "all" \in StopCommands
    /\ ops = "idle"
    /\ targets' = Recorded
    /\ askedStop' = askedStop \cup IF sup # "off" THEN Accounts ELSE {}
    /\ IF sup # "off"
         THEN ops' = "waitSupervisor" /\ WriteSentinel("all")
         ELSE ops' = "waitAccounts" /\ UNCHANGED <<sentinel, seen, hits>>
    /\ UNCHANGED <<treeVars, sigterm>>

\* stop -q: the sentinel names the account.
OpsStopOne(a) ==
    /\ "one" \in StopCommands
    /\ ops = "idle"
    /\ a \in Recorded
    /\ targets' = {a}
    /\ ops' = "waitAccounts"
    /\ WriteSentinel(a)
    /\ askedStop' = askedStop \cup {a}
    /\ UNCHANGED <<treeVars, sigterm>>

OpsSupervisorGone ==
    /\ ops = "waitSupervisor"
    /\ sup = "gone"
    /\ ops' = "waitAccounts"
    /\ UNCHANGED <<treeVars, fileVars, targets, askedStop, hits>>

\* killProcessTree of the supervisor after 8 s: the whole tree on Windows ...
OpsKillsSupervisor ==
    LET tree == {a \in Accounts : child[a] = "live" /\ BootAlive(a)} IN
    /\ ops = "waitSupervisor"
    /\ windows
    /\ sup \in {"running", "stopping"}
    /\ PollsDone
    /\ ops' = "waitAccounts"
    /\ SupGone
    /\ KillBoots(tree)
    /\ self' = [a \in Accounts |-> IF a \in tree THEN "none" ELSE self[a]]
    /\ UNCHANGED <<windows, unfit, sentinel, seen, askedStop, hits>>

\* ... elsewhere a signal, which the supervisor may have had before.
OpsSignalsSupervisor ==
    /\ ops = "waitSupervisor"
    /\ ~windows
    /\ sup \in {"running", "stopping"}
    /\ PollsDone
    /\ ops' = "waitAccounts"
    /\ IF sup = "running"
         THEN sup' = "stopping" /\ WriteSentinel("all")
         ELSE UNCHANGED <<sup, sentinel, seen, hits>>
    /\ UNCHANGED <<windows, child, boot, armed, self, unfit, sigterm, targets, askedStop>>

\* Every account process found at the beginning has exited.
OpsAccountsGone ==
    /\ ops = "waitAccounts"
    /\ targets = {}
    /\ ops' = "idle"
    /\ UNCHANGED targets
    /\ sentinel' = "none"
    /\ seen' = {}
    /\ UNCHANGED <<treeVars, sigterm, askedStop, hits>>

\* 8 s later: killProcessTree of what is left, then the sentinel is removed.
OpsKillsAccounts ==
    /\ ops = "waitAccounts"
    /\ targets # {}
    /\ PollsDone
    /\ ops' = "idle"
    /\ targets' = {}
    /\ sentinel' = "none"
    /\ seen' = {}
    /\ askedStop' = askedStop \cup targets
    /\ IF windows
         THEN /\ boot' = [a \in Accounts |->
                             IF a \notin targets THEN boot[a]
                             ELSE IF child[a] = "live" THEN "exit" ELSE "none"]
              /\ self' = [a \in Accounts |-> IF a \in targets THEN "none" ELSE self[a]]
              /\ armed' = [a \in Accounts |-> IF a \in targets THEN "no" ELSE armed[a]]
              /\ sigterm' = sigterm \ targets
         ELSE /\ sigterm' = sigterm \cup targets
              /\ UNCHANGED <<boot, self, armed>>
    /\ UNCHANGED <<windows, sup, child, unfit, hits>>

-----------------------------------------------------------------------------

HostingNext ==
    \/ SupStops \/ SupEnds \/ SupForce
    \/ OpsStopAll \/ OpsSupervisorGone \/ OpsKillsSupervisor \/ OpsSignalsSupervisor
    \/ OpsAccountsGone \/ OpsKillsAccounts
    \/ \E a \in Accounts :
         \/ SelfReady(a) \/ SelfCrashes(a) \/ SelfHangs(a)
         \/ \E code \in Exits : SelfFails(a, code)
         \/ SelfSeesSentinel(a) \/ SelfSignalled(a) \/ SelfEnds(a)
         \/ BootSpawns(a) \/ BootRefuses(a) \/ BootSelfExit(a) \/ BootSeesSentinel(a)
         \/ BootSignalled(a) \/ BootTakesSignal(a) \/ BootFallback(a)
         \/ SupChildExit(a) \/ SupRestarts(a) \/ SupSpawnError(a)
         \/ OpsStopOne(a)

HostingSpec == HostingInit /\ [][HostingNext]_hostingVars

\* Processes that can act do: watchers poll, exit events and signals arrive,
\* hooks that settle settle. A time limit is reached however often new requests
\* arrive before it; nothing is assumed of bootstrap, operators or crashes.
HostingFairness ==
    /\ WF_hostingVars(sentinel = "all" /\ Sup \in seen /\ SupStops)
    /\ WF_hostingVars(SupEnds)
    /\ SF_hostingVars(SupForce)
    /\ WF_hostingVars(OpsSupervisorGone)
    /\ SF_hostingVars(OpsKillsSupervisor \/ OpsSignalsSupervisor)
    /\ WF_hostingVars(OpsAccountsGone)
    /\ SF_hostingVars(OpsKillsAccounts)
    /\ \A a \in Accounts :
         /\ WF_hostingVars(SelfSeesSentinel(a))
         /\ WF_hostingVars(SelfEnds(a))
         /\ WF_hostingVars(BootSelfExit(a))
         /\ WF_hostingVars(BootSeesSentinel(a))
         /\ WF_hostingVars(BootTakesSignal(a))
         /\ SF_hostingVars(BootFallback(a))
         /\ WF_hostingVars(SupChildExit(a))
         /\ WF_hostingVars(SupRestarts(a))

HostingFairSpec == HostingSpec /\ HostingFairness

-----------------------------------------------------------------------------
(* Properties.                                                             *)

\* Once the supervisor is stopping or gone, no account is started again.
NoStartAfterStop ==
    [][\A a \in Accounts :
          sup \in {"stopping", "gone"} /\ boot[a] # "starting"
              => boot'[a] # "starting"]_hostingVars

\* One request stops one run of an account: the run that follows a restart is
\* not stopped by the file that stopped the run before.
OneStopPerRequest == \A a \in Accounts : hits[a] <= 1

\* An account nobody asked to stop, alone or with all others, is never shut
\* down, whatever happens to its neighbours on the same sentinel file.
OnlyAskedStop ==
    \A a \in Accounts : self[a] \in {"stopping", "aborting"} => a \in askedStop

\* A stopping supervisor comes to its end, also when accounts do not react.
SupervisorEnds == sup = "stopping" ~> sup = "gone"

\* After a stop of the supervisor no account goes on running, except one that
\* has stopped reacting; on platforms where a kill is a signal.
StopReachesAll ==
    sup = "stopping" /\ ~windows ~> [](\A a \in Accounts : self[a] \in {"none", "hung"})

\* The same everywhere: what the stop of the whole tree is documented to do.
StopEndsAll ==
    sup = "stopping" ~> [](\A a \in Accounts : self[a] \in {"none", "hung"})

\* A self-host that ended with 78, its configuration being invalid, is not
\* scheduled for a restart by the supervisor.
ConfigErrorNotRestarted ==
    \A a \in unfit : child[a] # "timer"
=============================================================================
