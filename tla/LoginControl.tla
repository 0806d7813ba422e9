---------------------------- MODULE LoginControl ----------------------------
(***************************************************************************)
(* The login of a self-hosted process and its hand-over to the assembly of *)
(* the protocol services (packages/loader/src/host/core: relogin.ts,       *)
(* bootstrap-core.ts, login.ts), in IPC mode: the parent process can ask   *)
(* for a login of its own at any time ("control login").                   *)
(*                                                                         *)
(* Two flows log in, the bootstrap's and the parent's. A macrotask and the *)
(* promise reactions it sets off are one step: nothing else runs between a *)
(* login that settles and what is done with its result. Each await on the  *)
(* native side is a place where the other flow runs. Of what happens       *)
(* inside one login (QR code, retries of the network) only the messages to *)
(* the parent are seen here: each flow reports the progress of its QR code *)
(* (onLoginProgress), and these messages name no account.                  *)
(***************************************************************************)
EXTENDS FiniteSets

CONSTANTS
    LoginAccounts,   \* accounts a login may end up with
    NoAccount,
    QrOnly      \* NAPUTO_QR_ONLY: the first login goes straight to the QR code

ASSUME LoginAssumption ==
    /\ NoAccount \notin LoginAccounts
    /\ QrOnly \in BOOLEAN

Flows == {"boot", "control"}

VARIABLES
    alive,      \* the process runs
    phase,      \* phase of LoginControl
    preempt,    \* preempt.resolve # null: a control login may still win the race
    claimed,    \* a control login is under way
    login,      \* what core.login of each flow is doing
    retried,    \* doLogin is in its second attempt
    handed,     \* result passed to preemptResolve before the race began
    stage,      \* where runAssembly of each flow is
    target,     \* account each flow assembles
    services,   \* account the assembled services belong to
    announced,  \* account of the last logged_in message that names one
    shown,      \* state in the last login message, "scanning" for a QR code's
    status      \* last status message

loginVars == <<login, retried>>
asmVars == <<stage, target, services>>
toldVars == <<announced, shown>>
controlVars == <<alive, phase, preempt, claimed, loginVars, handed, asmVars, toldVars, status>>

LoginTypeOK ==
    /\ alive \in BOOLEAN
    /\ phase \in {"login-race", "assembling", "ready", "aborted"}
    /\ preempt \in BOOLEAN
    /\ claimed \in BOOLEAN
    /\ login \in [Flows -> {"off", "quick", "qr"}]
    /\ retried \in BOOLEAN
    /\ handed \in LoginAccounts \cup {NoAccount}
    /\ stage \in [Flows -> {"none", "activating", "building", "attaching"}]
    /\ target \in [Flows -> LoginAccounts \cup {NoAccount}]
    /\ services \in LoginAccounts \cup {NoAccount}
    /\ announced \in LoginAccounts \cup {NoAccount}
    /\ shown \in {"nothing", "scanning", "logged_in", "failed"}
    /\ status \in {"booting", "logging", "sessioning", "ready", "failed"}

\* The IPC server already listens; the list of accounts is being fetched.
LoginInit ==
    /\ alive = TRUE
    /\ phase = "login-race"
    /\ preempt = TRUE
    /\ claimed = FALSE
    /\ login = [f \in Flows |-> "off"]
    /\ retried = FALSE
    /\ handed = NoAccount
    /\ stage = [f \in Flows |-> "none"]
    /\ target = [f \in Flows |-> NoAccount]
    /\ services = NoAccount
    /\ announced = NoAccount
    /\ shown = "nothing"
    /\ status = "booting"

(***************************************************************************)
(* The steps of LoginControl and of the assembly.                          *)
(***************************************************************************)
Racing == phase = "login-race" /\ status = "logging"

\* Fault-seeded form of BeginAssembly: the port for control logins stays open.
FaultyBeginAssembly ==
    /\ UNCHANGED preempt
    /\ phase' = "assembling"

BeginAssembly ==
    /\ preempt' = FALSE
    /\ phase' = "assembling"

StartAssembly(f, a) ==
    /\ stage' = [stage EXCEPT ![f] = "activating"]
    /\ target' = [target EXCEPT ![f] = a]
    /\ announced' = IF f = "boot" THEN a ELSE announced

\* The race is decided in favour of account a.
EndRace(a) ==
    /\ BeginAssembly
    /\ StartAssembly("boot", a)
    /\ UNCHANGED <<alive, services, status>>

\* softRelogin up to its first await: the old services are disposed of.
SoftRelogin(a) ==
    /\ services' = NoAccount
    /\ StartAssembly("control", a)
    /\ UNCHANGED <<alive, phase, preempt, status>>

\* self-host.ts ends the process when bootstrap reports a failure.
Exit ==
    /\ alive' = FALSE
    /\ status' = "failed"

\* Fault-seeded form of Abort: the process that failed to log in stays.
FaultyAbort ==
    /\ preempt' = FALSE
    /\ phase' = "aborted"
    /\ status' = "failed"
    /\ UNCHANGED alive

Abort ==
    /\ preempt' = FALSE
    /\ phase' = "aborted"
    /\ Exit

\* A control login's result taken by the bootstrap, now or when its race begins.
TakePreempt(a) ==
    \/ /\ Racing
       /\ EndRace(a)
       /\ UNCHANGED handed
    \/ /\ ~Racing
       /\ preempt' = FALSE
       /\ handed' = a
       /\ announced' = a
       /\ UNCHANGED <<alive, phase, status, asmVars>>

\* Fault-seeded form of Dispatch: a result that comes during the first assembly
\* starts a second one.
FaultyDispatch(a) ==
    \/ /\ preempt
       /\ TakePreempt(a)
       /\ claimed' = FALSE
    \/ /\ ~preempt
       /\ SoftRelogin(a)
       /\ UNCHANGED <<handed, claimed>>

\* dispatchLoginSuccess of a control login that ended with account a
Dispatch(a) ==
    \/ /\ preempt
       /\ TakePreempt(a)
       /\ claimed' = FALSE
    \/ /\ ~preempt
       /\ phase = "ready"
       /\ SoftRelogin(a)
       /\ UNCHANGED <<handed, claimed>>
    \/ /\ ~preempt
       /\ phase # "ready"
       /\ claimed' = FALSE
       /\ UNCHANGED <<alive, phase, preempt, handed, asmVars, announced, status>>

(***************************************************************************)
(* The bootstrap's login.                                                  *)
(***************************************************************************)
FirstStep == IF QrOnly THEN "qr" ELSE "quick"

\* pickLoginAccount is over: doLogin starts, and the race with it. A control
\* login that was faster has won already; doLogin runs on all the same.
BeginLogin ==
    /\ alive
    /\ status = "booting"
    /\ login' = [login EXCEPT !["boot"] = FirstStep]
    /\ IF handed = NoAccount
       THEN /\ shown' = IF QrOnly THEN "scanning" ELSE shown
            /\ UNCHANGED <<preempt, phase, stage, target, announced>>
       ELSE BeginAssembly /\ StartAssembly("boot", handed) /\ shown' = "logged_in"
    /\ status' = "logging"
    /\ UNCHANGED <<alive, claimed, retried, handed, services>>

BootLoginSucceeds(a) ==
    /\ alive
    /\ login["boot"] # "off"
    /\ login' = [login EXCEPT !["boot"] = "off"]
    /\ shown' = IF phase = "login-race" \/ login["boot"] = "qr" THEN "logged_in" ELSE shown
    /\ IF phase = "login-race"
       THEN EndRace(a)
       ELSE UNCHANGED <<alive, phase, preempt, asmVars, announced, status>>
    /\ UNCHANGED <<claimed, retried, handed>>

\* The catch of doLogin: a second attempt, with the QR code as a way out.
BootLoginRetries ==
    /\ alive
    /\ login["boot"] # "off"
    /\ ~retried
    /\ retried' = TRUE
    /\ login' = [login EXCEPT !["boot"] = FirstStep]
    /\ shown' = IF QrOnly THEN "scanning" ELSE shown
    /\ UNCHANGED <<alive, phase, preempt, claimed, handed, asmVars, announced, status>>

FallsBackToQr(f) ==
    /\ alive
    /\ login[f] = "quick"
    /\ f = "boot" => retried
    /\ login' = [login EXCEPT ![f] = "qr"]
    /\ shown' = "scanning"
    /\ UNCHANGED <<alive, phase, preempt, claimed, retried, handed, asmVars, announced, status>>

\* The code is shown, scanned or replaced by a new one.
QrProgress(f) ==
    /\ alive
    /\ login[f] = "qr"
    /\ shown' = "scanning"
    /\ UNCHANGED <<alive, phase, preempt, claimed, loginVars, handed, asmVars, announced, status>>

\* doLogin returns null
BootLoginFails ==
    /\ alive
    /\ login["boot"] = "qr"
    /\ retried
    /\ login' = [login EXCEPT !["boot"] = "off"]
    /\ shown' = "failed"
    /\ IF phase = "login-race" THEN Abort ELSE UNCHANGED <<alive, preempt, phase, status>>
    /\ UNCHANGED <<claimed, retried, handed, asmVars, announced>>

(***************************************************************************)
(* The parent's login.                                                     *)
(***************************************************************************)
ControlLogin(qr) ==
    /\ alive
    /\ ~claimed
    /\ claimed' = TRUE
    /\ login' = [login EXCEPT !["control"] = IF qr THEN "qr" ELSE "quick"]
    /\ shown' = IF qr THEN "scanning" ELSE shown
    /\ UNCHANGED <<alive, phase, preempt, retried, handed, asmVars, announced, status>>

\* Its QR code reports logged_in before the phase is looked at.
ControlLoginSucceeds(a) ==
    /\ alive
    /\ login["control"] # "off"
    /\ login' = [login EXCEPT !["control"] = "off"]
    /\ shown' = IF preempt \/ login["control"] = "qr" THEN "logged_in" ELSE shown
    /\ Dispatch(a)
    /\ UNCHANGED retried

\* Fault-seeded form of ControlLoginFails: the claim is given back on success only.
FaultyControlLoginFails ==
    /\ alive
    /\ login["control"] = "qr"
    /\ login' = [login EXCEPT !["control"] = "off"]
    /\ shown' = "failed"
    /\ UNCHANGED <<alive, phase, preempt, claimed, retried, handed, asmVars, announced, status>>

ControlLoginFails ==
    /\ alive
    /\ login["control"] = "qr"
    /\ login' = [login EXCEPT !["control"] = "off"]
    /\ claimed' = FALSE
    /\ shown' = "failed"
    /\ UNCHANGED <<alive, phase, preempt, retried, handed, asmVars, announced, status>>

\* control stop or restart: the process ends, the parent starts it anew
ControlStop ==
    /\ alive
    /\ alive' = FALSE
    /\ UNCHANGED <<phase, preempt, claimed, loginVars, handed, asmVars, toldVars, status>>

(***************************************************************************)
(* runAssembly of either flow.                                             *)
(***************************************************************************)
\* Fault-seeded form of Sessioned: only the first assembly reports its progress.
FaultySessioned(f) ==
    /\ alive
    /\ stage[f] = "activating"
    /\ stage' = [stage EXCEPT ![f] = "building"]
    /\ status' = IF f = "boot" THEN "sessioning" ELSE status
    /\ UNCHANGED <<alive, phase, preempt, claimed, loginVars, handed, target, services, toldVars>>

\* activateSession and waitSessionReady are over, whatever became of them.
Sessioned(f) ==
    /\ alive
    /\ stage[f] = "activating"
    /\ stage' = [stage EXCEPT ![f] = "building"]
    /\ status' = "sessioning"
    /\ UNCHANGED <<alive, phase, preempt, claimed, loginVars, handed, target, services, toldVars>>

\* createKernelServices is done; the OB11 bridge is being mounted.
Built(f) ==
    /\ alive
    /\ stage[f] = "building"
    /\ stage' = [stage EXCEPT ![f] = "attaching"]
    /\ UNCHANGED <<alive, phase, preempt, claimed, loginVars, handed, target, services, toldVars,
                   status>>

Assembled(f) ==
    /\ alive
    /\ stage[f] = "attaching"
    /\ stage' = [stage EXCEPT ![f] = "none"]
    /\ services' = target[f]
    /\ announced' = IF f = "control" THEN target[f] ELSE announced
    /\ shown' = IF f = "control" THEN "logged_in" ELSE shown
    /\ status' = "ready"
    /\ phase' = "ready"
    /\ claimed' = (claimed /\ f # "control")
    /\ UNCHANGED <<alive, preempt, loginVars, handed, target>>

\* createKernelServices finds no session.
AssemblyRefused(f) ==
    /\ alive
    /\ stage[f] = "building"
    /\ stage' = [stage EXCEPT ![f] = "none"]
    /\ IF f = "boot" THEN Abort ELSE Exit /\ UNCHANGED <<preempt, phase>>
    /\ UNCHANGED <<claimed, loginVars, handed, target, services, toldVars>>

\* createKernelServices throws, for one because a native service is missing:
\* the bootstrap fails, a control login is answered with a failed message.
AssemblyThrows(f) ==
    /\ alive
    /\ stage[f] = "building"
    /\ stage' = [stage EXCEPT ![f] = "none"]
    /\ IF f = "boot"
       THEN Exit /\ UNCHANGED <<claimed, shown>>
       ELSE claimed' = FALSE /\ shown' = "failed" /\ UNCHANGED <<alive, status>>
    /\ UNCHANGED <<phase, preempt, loginVars, handed, target, services, announced>>

BootLoginSettles ==
    \/ \E a \in LoginAccounts : BootLoginSucceeds(a)
    \/ BootLoginRetries
    \/ FallsBackToQr("boot")
    \/ BootLoginFails

ControlLoginSettles ==
    \/ \E a \in LoginAccounts : ControlLoginSucceeds(a)
    \/ FallsBackToQr("control")
    \/ ControlLoginFails

Assembles(f) ==
    \/ Sessioned(f)
    \/ Built(f)
    \/ Assembled(f)
    \/ AssemblyRefused(f)
    \/ AssemblyThrows(f)

LoginNext ==
    \/ BeginLogin
    \/ BootLoginSettles
    \/ \E qr \in BOOLEAN : ControlLogin(qr)
    \/ ControlLoginSettles
    \/ ControlStop
    \/ \E f \in Flows : QrProgress(f) \/ Assembles(f)

LoginSpec == LoginInit /\ [][LoginNext]_controlVars

(***************************************************************************)
(* Every wait of a login and of an assembly is bounded by a timer of the   *)
(* code (quick login 20 s, QR code 120 s after its last renewal, session   *)
(* start 20 s, session ready 30 s) or is a native call taken to answer.    *)
(***************************************************************************)
LoginFairness ==
    /\ WF_controlVars(BeginLogin)
    /\ WF_controlVars(BootLoginSettles)
    /\ WF_controlVars(ControlLoginSettles)
    /\ \A f \in Flows : WF_controlVars(Assembles(f))

LoginFairSpec == LoginSpec /\ LoginFairness

(***************************************************************************)
(* Properties.                                                             *)
(***************************************************************************)
Assembling == {f \in Flows : stage[f] # "none"}

\* At most one set of services exists or is being built: a control login never
\* assembles beside the bootstrap (the phase guard of dispatchLoginSuccess), and
\* a new set is built only after softRelogin disposed of the old one. Two sets
\* would handle every message twice.
OneAssembly ==
    /\ \A f, g \in Assembling : f = g
    /\ services # NoAccount => Assembling = {}

\* The account named to the parent is the one that is served or assembled: a
\* result that lost the race or came late is neither named nor assembled. Until
\* the process is ready, logged_in is the parent's last word only when a result
\* waits for the race or is assembled: while it is assembled, the QR code of a login
\* that came too late may still say logged_in, without an account.
AnnouncedIsServed ==
    /\ services # NoAccount => services = announced
    /\ stage["boot"] # "none" => announced = target["boot"]
    /\ alive /\ shown = "logged_in" /\ phase # "ready" =>
           handed # NoAccount \/ stage["boot"] # "none"

\* The last status message, which the parent may have replayed, says ready only
\* while services exist or a relogin has just taken them down.
ReadyMeansServed ==
    alive /\ status = "ready" => services # NoAccount \/ stage["control"] = "activating"

\* A control login gives its claim back however it ends, or later ones are
\* ignored for ever (the finally of createLoginControlHandler).
ControlReleased == claimed ~> (~claimed \/ ~alive)

\* The bootstrap ends in service or with the process, also when a control login
\* takes over: a process that failed never stays (exitBootIncomplete).
BootSettles == <>(phase = "ready" \/ ~alive)

\* A process whose services are gone after a relogin is of no use any more and
\* ends (LoginControlDeps.onReassembleFailed).
ServesOrExits ==
    alive /\ phase = "ready" /\ ~claimed => services # NoAccount
=============================================================================
