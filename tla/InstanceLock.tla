---------------------------- MODULE InstanceLock ----------------------------
(***************************************************************************)
(* The single-instance lock of an account's data directory (packages/      *)
(* loader/src/instance-lock.ts) as the self-hosted processes use it        *)
(* (host/core/self-host.ts).                                               *)
(*                                                                         *)
(* The lock is a file that names the process that wrote it. Processes are  *)
(* told apart by their pid, and every file-system call or probe of another *)
(* process is a step of its own: nothing keeps a second process from       *)
(* running in between. A process that died keeps its place in the file,    *)
(* and its pid may be given to an unrelated program.                       *)
(***************************************************************************)
EXTENDS FiniteSets

CONSTANTS
    Procs,           \* pids of the self-hosted processes of one account
    NoLock,          \* there is no lock file
    Torn,            \* the file is empty or half written: JSON.parse fails
    OneAtATime,      \* launches do not overlap
    ProbeSupported,  \* CMDLINE_PROBE_SUPPORTED
    ProbeReliable    \* reading the command line of a live process succeeds

ASSUME LockAssumption ==
    /\ NoLock \notin Procs
    /\ Torn \notin Procs
    /\ NoLock # Torn
    /\ OneAtATime \in BOOLEAN
    /\ ProbeSupported \in BOOLEAN
    /\ ProbeReliable \in BOOLEAN

VARIABLES
    phase,     \* where each process is in its life
    file,      \* content of instance.lock
    writers,   \* processes that have the present file open for writing
    read,      \* what checkInstanceLock of the process read
    reused     \* pids that belong to unrelated programs

lockVars == <<phase, file, writers, read, reused>>

Contents == Procs \cup {NoLock, Torn}
Starting == {"check", "probe", "clear", "removed", "created"}
Holding == {"running", "releasing"}
Phases == {"down", "refused"} \cup Starting \cup Holding

TypeOK ==
    /\ phase \in [Procs -> Phases]
    /\ file \in Contents
    /\ writers \subseteq Procs
    /\ read \in [Procs -> Contents]
    /\ reused \subseteq Procs

Init ==
    /\ phase = [p \in Procs |-> "down"]
    /\ file = NoLock
    /\ writers = {}
    /\ read = [p \in Procs |-> NoLock]
    /\ reused = {}

Goto(p, next) == phase' = [phase EXCEPT ![p] = next]

-----------------------------------------------------------------------------
(* checkInstanceLock().                                                    *)

Launch(p) ==
    /\ phase[p] = "down"
    /\ p \notin reused
    /\ OneAtATime => \A q \in Procs : phase[q] \notin Starting
    /\ Goto(p, "check")
    /\ UNCHANGED <<file, writers, read, reused>>

\* A missing file and one that does not parse mean: free.
ReadLock(p) ==
    /\ phase[p] = "check"
    /\ read' = [read EXCEPT ![p] = file]
    /\ Goto(p, IF file \in Procs THEN "probe" ELSE "clear")
    /\ UNCHANGED <<file, writers, reused>>

\* kill(pid, 0) succeeds.
Alive(h) == phase[h] # "down" \/ h \in reused

\* Fault-seeded form of Occupied: the command line of a live holder never
\* matches its summary in the lock.
FaultyOccupied(h) == Alive(h) /\ ~ProbeSupported

\* The pid lives and, where it can be checked, still runs the command line the
\* lock recorded.
Occupied(h) == Alive(h) /\ (ProbeSupported => h \notin reused)

\* Fault-seeded form of Probe: a live pid is taken for the holder.
FaultyProbe(p) ==
    LET h == read[p] IN
    /\ phase[p] = "probe"
    /\ \/ ~Alive(h) /\ Goto(p, "clear")
       \/ Alive(h) /\ h = p /\ Goto(p, "running")
       \/ Alive(h) /\ h # p /\ Goto(p, "refused")
    /\ UNCHANGED <<file, writers, read, reused>>

\* The verdict on the holder read before; acquireInstanceLock acts on it. A
\* failed command line query counts as a dead holder.
Probe(p) ==
    LET h == read[p] IN
    /\ phase[p] = "probe"
    /\ \/ ~Occupied(h) /\ Goto(p, "clear")
       \/ Occupied(h) /\ ProbeSupported /\ ~ProbeReliable /\ Goto(p, "clear")
       \/ Occupied(h) /\ h = p /\ Goto(p, "running")
       \/ Occupied(h) /\ h # p /\ Goto(p, "refused")
    /\ UNCHANGED <<file, writers, read, reused>>

-----------------------------------------------------------------------------
(* acquireInstanceLock() after a verdict of free.                          *)

\* rmSync(lockPath, {force: true}): a writer of the old file writes to nowhere.
RemoveOld(p) ==
    /\ phase[p] = "clear"
    /\ Goto(p, "removed")
    /\ file' = NoLock
    /\ writers' = {}
    /\ UNCHANGED <<read, reused>>

\* writeFileSync opens (and empties) the file ...
Create(p) ==
    /\ phase[p] = "removed"
    /\ Goto(p, "created")
    /\ file' = Torn
    /\ writers' = writers \cup {p}
    /\ UNCHANGED <<read, reused>>

\* ... and then writes it.
Write(p) ==
    /\ phase[p] = "created"
    /\ Goto(p, "running")
    /\ file' = IF p \in writers THEN p ELSE file
    /\ writers' = writers \ {p}
    /\ UNCHANGED <<read, reused>>

\* Any of the calls throws: acquireInstanceLock returns false.
AcquireFails(p) ==
    /\ phase[p] \in {"clear", "removed", "created"}
    /\ Goto(p, "refused")
    /\ writers' = writers \ {p}
    /\ UNCHANGED <<file, read, reused>>

-----------------------------------------------------------------------------
(* The ends of a process.                                                  *)

\* Fault-seeded form of RefusedExit: the clean-up runs in a refused process.
FaultyRefusedExit(p) ==
    /\ phase[p] = "refused"
    /\ Goto(p, "down")
    /\ file' = NoLock
    /\ writers' = {}
    /\ UNCHANGED <<read, reused>>

\* process.exit(1) before registerLockCleanup.
RefusedExit(p) ==
    /\ phase[p] = "refused"
    /\ Goto(p, "down")
    /\ UNCHANGED <<file, writers, read, reused>>

\* The exit handler, releaseInstanceLock: only its own lock is deleted.
ExitReads(p) ==
    /\ phase[p] = "running"
    /\ Goto(p, IF file = p THEN "releasing" ELSE "down")
    /\ UNCHANGED <<file, writers, read, reused>>

ExitRemoves(p) ==
    /\ phase[p] = "releasing"
    /\ Goto(p, "down")
    /\ file' = NoLock
    /\ writers' = {}
    /\ UNCHANGED <<read, reused>>

\* Killed, or crashed in native code: nothing is cleaned up.
Crash(p) ==
    /\ phase[p] # "down"
    /\ Goto(p, "down")
    /\ writers' = writers \ {p}
    /\ UNCHANGED <<file, read, reused>>

PidReused(p) ==
    /\ phase[p] = "down"
    /\ reused' = reused \cup {p}
    /\ UNCHANGED <<phase, file, writers, read>>

PidFreed(p) ==
    /\ p \in reused
    /\ reused' = reused \ {p}
    /\ UNCHANGED <<phase, file, writers, read>>

-----------------------------------------------------------------------------

Next ==
    \E p \in Procs :
        \/ Launch(p) \/ ReadLock(p) \/ Probe(p)
        \/ RemoveOld(p) \/ Create(p) \/ Write(p) \/ AcquireFails(p)
        \/ RefusedExit(p) \/ ExitReads(p) \/ ExitRemoves(p) \/ Crash(p)
        \/ PidReused(p) \/ PidFreed(p)

Spec == Init /\ [][Next]_lockVars

-----------------------------------------------------------------------------
(* Properties.                                                             *)

\* At most one process of the account works on its data directory.
Exclusive ==
    \A p, q \in Procs : phase[p] \in Holding /\ phase[q] \in Holding => p = q

\* The process that works is the one the lock names, so that later ones are
\* refused, through all crashes, takeovers and refusals of others.
LockNamesHolder ==
    \A p \in Procs : phase[p] \in Holding => file = p

\* Leftovers never lock the account out: who is turned away at the probe is
\* turned away because another process of the account really is there.
RefusedForCause ==
    [][\A p \in Procs :
          phase[p] = "probe" /\ phase'[p] = "refused"
              => \E q \in Procs \ {p} : phase[q] \in Holding]_lockVars

\* The strengthening of the proof: verdicts stay true while launches do not
\* overlap.
VerdictStands ==
    \A p \in Procs :
        /\ phase[p] \in Starting =>
             \A q \in Procs : phase[q] \in Starting => q = p
        /\ phase[p] = "probe" =>
             \A q \in Procs : phase[q] \in Holding => read[p] = q
        /\ phase[p] \in {"clear", "removed", "created"} =>
             \A q \in Procs : phase[q] \notin Holding
        /\ phase[p] = "created" => p \in writers

\* A live process that is not the holder is not named by the lock either, nor
\* by what another one has just read.
OnlyHoldersNamed ==
    \A p \in Procs :
        /\ phase[p] \in {"refused", "clear", "removed", "created"} => file # p
        /\ phase[p] = "probe" => read[p] \in Procs /\ file \in {read[p], NoLock}
        /\ phase[p] = "probe" /\ read[p] = p => file = p
        /\ phase[p] = "probe" => \A q \in Procs : phase[q] = "refused" => read[p] # q

NoPidReusedAlive == \A p \in Procs : p \in reused => phase[p] = "down"

IInv ==
    /\ TypeOK
    /\ Exclusive
    /\ LockNamesHolder
    /\ VerdictStands
    /\ OnlyHoldersNamed
    /\ NoPidReusedAlive
=============================================================================
