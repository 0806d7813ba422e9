------------------------------ MODULE QrLogin ------------------------------
(***************************************************************************)
(* What happens inside one login of the kernel (packages/kernel/src:       *)
(* core.ts, login/login.ts, login/login-connect.ts): the quick login with  *)
(* its retries on network errors, and the QR code it falls back to.        *)
(*                                                                         *)
(* The bootstrap and the parent process may log in at the same time. Both  *)
(* use one native login service, which tells every registered listener     *)
(* about its one QR code, and one handle for the manual refresh,           *)
(* core.qrSession. A native callback is a macrotask of its own for each    *)
(* listener; the promise reactions it sets off (waitQrLoggedIn, the        *)
(* finally of loginByQr) belong to it. The picture of a code and the        *)
(* progress messages to the parent steer nothing and are left out.         *)
(***************************************************************************)
EXTENDS Sequences, Naturals

CONSTANTS
    QrAccounts,     \* accounts that can be logged in
    NetworkRetryMax,\* NETWORK_RETRY_MAX
    MaxNews,        \* the user and the network wait while so many callbacks are under way
    MaxRenewals     \* bound on codes that replace one, expired or refreshed by hand

ASSUME QrAssumption ==
    /\ NetworkRetryMax \in Nat \ {0}
    /\ MaxNews \in Nat \ {0}
    /\ MaxRenewals \in Nat

LoginFlows == {"bootstrap", "parent"}
LoginStates == {"idle", "waiting_scan", "scanned", "logged_in", "failed"}
News == [kind : {"scanned", "expired", "failed"}]
            \cup [kind : {"confirmed"}, account : QrAccounts]

VARIABLES
    step,       \* where core.login of each flow is
    quickTries,    \* attempts of the quick login so far
    session,    \* state of the last QrLoginSession of each flow
    hearing,  \* its listener is registered with the native service
    limit,      \* its 120 s timer is armed
    news,       \* native callbacks on their way to that listener
    handle,     \* core.qrSession, as the set of the flow it belongs to
    outcome,    \* what core.login of each flow ended with
    code,       \* the native QR code
    renewals

qrVars == <<step, quickTries, session, hearing, limit, news, handle, outcome, code, renewals>>
quickVars == <<step, quickTries, outcome>>
sessionVars == <<session, hearing, limit, news, handle, code, renewals>>

QrTypeOK ==
    /\ step \in [LoginFlows -> {"off", "connecting", "listing", "quick", "network", "qr"}]
    /\ quickTries \in [LoginFlows -> 0 .. NetworkRetryMax]
    /\ session \in [LoginFlows -> LoginStates]
    /\ hearing \in [LoginFlows -> BOOLEAN]
    /\ limit \in [LoginFlows -> BOOLEAN]
    /\ news \in [LoginFlows -> Seq(News)]
    /\ handle \in SUBSET LoginFlows
    /\ outcome \in [LoginFlows -> {"none", "failed"} \cup QrAccounts]
    /\ code \in {"none", "live", "scanned"}
    /\ renewals \in 0 .. MaxRenewals

QrInit ==
    /\ step = [f \in LoginFlows |-> "off"]
    /\ quickTries = [f \in LoginFlows |-> 0]
    /\ session = [f \in LoginFlows |-> "idle"]
    /\ hearing = [f \in LoginFlows |-> FALSE]
    /\ limit = [f \in LoginFlows |-> FALSE]
    /\ news = [f \in LoginFlows |-> <<>>]
    /\ handle = {}
    /\ outcome = [f \in LoginFlows |-> "none"]
    /\ code = "none"
    /\ renewals = 0

(***************************************************************************)
(* The native login service.                                               *)
(***************************************************************************)
CodeMoves(from, to, n) ==
    /\ code \in from
    /\ \A f \in LoginFlows : Len(news[f]) < MaxNews
    /\ code' = to
    /\ news' = [f \in LoginFlows |-> IF hearing[f] THEN Append(news[f], n) ELSE news[f]]
    /\ UNCHANGED <<quickVars, session, hearing, limit, handle, renewals>>

Renew ==
    /\ renewals < MaxRenewals
    /\ renewals' = renewals + 1

Scan == CodeMoves({"live"}, "scanned", [kind |-> "scanned"])
Confirm(a) == CodeMoves({"scanned"}, "none", [kind |-> "confirmed", account |-> a])
Expire == CodeMoves({"live", "scanned"}, "none", [kind |-> "expired"])
LoginFails == CodeMoves({"live", "scanned"}, "none", [kind |-> "failed"])

(***************************************************************************)
(* QrLoginSession.                                                         *)
(***************************************************************************)
\* A new code is asked for.
Refresh(f) ==
    /\ session' = [session EXCEPT ![f] = "waiting_scan"]
    /\ limit' = [limit EXCEPT ![f] = TRUE]
    /\ code' = "live"

\* loginByQr up to waitQrLoggedIn
StartQr(f) ==
    /\ step' = [step EXCEPT ![f] = "qr"]
    /\ handle' = {f}
    /\ hearing' = [hearing EXCEPT ![f] = TRUE]
    /\ Refresh(f)
    /\ UNCHANGED news

\* Fault-seeded form of EndQr: the handle outlives the session.
FaultyEndQr(f, s, result) ==
    /\ session' = [session EXCEPT ![f] = s]
    /\ limit' = [limit EXCEPT ![f] = FALSE]
    /\ hearing' = [hearing EXCEPT ![f] = FALSE]
    /\ news' = [news EXCEPT ![f] = <<>>]
    /\ step' = [step EXCEPT ![f] = "off"]
    /\ outcome' = [outcome EXCEPT ![f] = result]
    /\ UNCHANGED <<quickTries, handle, code, renewals>>

\* The session reaches a final state: waitQrLoggedIn settles, the finally of
\* loginByQr stops the session and forgets the handle, whosever it is.
EndQr(f, s, result) ==
    /\ session' = [session EXCEPT ![f] = s]
    /\ limit' = [limit EXCEPT ![f] = FALSE]
    /\ hearing' = [hearing EXCEPT ![f] = FALSE]
    /\ news' = [news EXCEPT ![f] = <<>>]
    /\ handle' = {}
    /\ step' = [step EXCEPT ![f] = "off"]
    /\ outcome' = [outcome EXCEPT ![f] = result]
    /\ UNCHANGED <<quickTries, code, renewals>>

\* One native callback (buildListener).
Hears(f) ==
    /\ news[f] # <<>>
    /\ LET n == Head(news[f])
           rest == [news EXCEPT ![f] = Tail(@)]
       IN  \/ /\ n.kind = "scanned"
              /\ session' = [session EXCEPT ![f] = "scanned"]
              /\ news' = rest
              /\ UNCHANGED <<quickVars, hearing, limit, handle, code, renewals>>
           \/ /\ n.kind = "expired"
              /\ Renew
              /\ Refresh(f)
              /\ news' = rest
              /\ UNCHANGED <<quickVars, hearing, handle>>
           \/ n.kind = "confirmed" /\ EndQr(f, "logged_in", n.account)
           \/ n.kind = "failed" /\ EndQr(f, "failed", "failed")

\* The 120 s are over.
LimitReached(f) ==
    /\ limit[f]
    /\ EndQr(f, "failed", "failed")

\* core.refreshQr on behalf of the parent; without a handle it returns false.
RefreshQr ==
    \E f \in handle :
        /\ Renew
        /\ Refresh(f)
        /\ UNCHANGED <<quickVars, hearing, news, handle>>

(***************************************************************************)
(* core.login and the quick login.                                         *)
(***************************************************************************)
Login(f, qrOnly) ==
    /\ step[f] = "off"
    /\ outcome' = [outcome EXCEPT ![f] = "none"]
    /\ quickTries' = [quickTries EXCEPT ![f] = 0]
    /\ IF qrOnly
       THEN StartQr(f) /\ UNCHANGED renewals
       ELSE step' = [step EXCEPT ![f] = "connecting"] /\ UNCHANGED sessionVars

\* onLoginConnected or its time limit, then the buffer of 3 s
ServiceConnects(f) ==
    /\ step[f] = "connecting"
    /\ step' = [step EXCEPT ![f] = "listing"]
    /\ UNCHANGED <<quickTries, outcome, sessionVars>>

\* The list of accounts is there and names the account, or the network is back.
Tries(f) ==
    /\ step[f] \in {"listing", "network"}
    /\ step' = [step EXCEPT ![f] = "quick"]
    /\ quickTries' = [quickTries EXCEPT ![f] = @ + 1]
    /\ UNCHANGED <<outcome, sessionVars>>

QuickLoginSucceeds(f, a) ==
    /\ step[f] = "quick"
    /\ step' = [step EXCEPT ![f] = "off"]
    /\ outcome' = [outcome EXCEPT ![f] = a]
    /\ UNCHANGED <<quickTries, sessionVars>>

\* Fault-seeded form of NetworkError: the number of attempts is not looked at.
FaultyNetworkError(f) ==
    /\ step[f] = "quick"
    /\ step' = [step EXCEPT ![f] = "network"]
    /\ quickTries' = [quickTries EXCEPT ![f] = 0]
    /\ UNCHANGED <<outcome, sessionVars>>

NetworkError(f) ==
    /\ step[f] = "quick"
    /\ quickTries[f] < NetworkRetryMax
    /\ step' = [step EXCEPT ![f] = "network"]
    /\ UNCHANGED <<quickTries, outcome, sessionVars>>

\* No list, no account, an error that is no network error, a time limit, a
\* network that does not come back, or the last quickTries: the quick login is
\* given up, with qrFallback for the QR code.
QuickLoginFails(f, qrFallback) ==
    /\ step[f] \in {"listing", "quick", "network"}
    /\ IF qrFallback
       THEN StartQr(f) /\ UNCHANGED <<quickTries, outcome, renewals>>
       ELSE /\ step' = [step EXCEPT ![f] = "off"]
            /\ outcome' = [outcome EXCEPT ![f] = "failed"]
            /\ UNCHANGED <<quickTries, sessionVars>>

QuickLogin(f) ==
    \/ ServiceConnects(f)
    \/ Tries(f)
    \/ \E a \in QrAccounts : QuickLoginSucceeds(f, a)
    \/ NetworkError(f)
    \/ \E qrFallback \in BOOLEAN : QuickLoginFails(f, qrFallback)

QrNext ==
    \/ \E f \in LoginFlows :
        \/ \E qrOnly \in BOOLEAN : Login(f, qrOnly)
        \/ QuickLogin(f)
        \/ Hears(f)
        \/ LimitReached(f)
    \/ RefreshQr
    \/ Scan \/ Expire \/ LoginFails
    \/ \E a \in QrAccounts : Confirm(a)

\* The steps of the quick login are bounded by timers of the code (15 s and
\* 20 s), the QR login by its limit. Nothing is assumed of user and network.
QrFairness ==
    \A f \in LoginFlows : WF_qrVars(QuickLogin(f)) /\ WF_qrVars(LimitReached(f))

QrSpec == QrInit /\ [][QrNext]_qrVars /\ QrFairness

(***************************************************************************)
(* Properties.                                                             *)
(***************************************************************************)
\* core.qrSession never names a session that is over: a manual refresh would
\* ask for a code nobody waits for and report a login that has ended as waiting.
\* And while both logins wait, it names one of them.
HandleIsWaited ==
    /\ \A f \in handle : step[f] = "qr"
    /\ (\A f \in LoginFlows : step[f] = "qr") => handle # {}

\* What core.ts says of the handle: it is there as long as a login is, and
\* refreshQr answers false only when no login waits for a scan.
HandleWhileWaiting == (\E f \in LoginFlows : step[f] = "qr") => handle # {}

\* A login ends, by result or by time limit, once its code is no longer renewed
\* (MaxRenewals; each renewal, also an automatic one, restarts the limit): no
\* error of the network is retried for ever, and no scan, late callback or end of
\* the other flow takes the limit away.
LoginEnds == \A f \in LoginFlows : (step[f] # "off") ~> (step[f] = "off")
=============================================================================
