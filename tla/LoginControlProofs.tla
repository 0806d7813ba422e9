------------------------- MODULE LoginControlProofs -------------------------
(***************************************************************************)
(* The safety properties of LoginControl, for every set of accounts. What  *)
(* makes them inductive is Phased: which of the two flows may be where in  *)
(* each phase.                                                             *)
(*                                                                         *)
(* The last part proves what the liveness properties rest on, beside the   *)
(* fairness: there is always a flow that owes the next step, and each step *)
(* leaves less to do.                                                      *)
(***************************************************************************)
EXTENDS LoginControl, Naturals, TLAPS

\* Where the flows, the port and the services stand in each phase.
Phased ==
    /\ preempt => phase = "login-race"
    /\ phase = "login-race" => preempt \/ handed # NoAccount
    /\ alive => phase # "aborted"
    /\ alive /\ phase = "assembling" => stage["boot"] # "none"
    /\ status = "booting" => phase = "login-race" /\ login["boot"] = "off"
    /\ phase = "login-race" =>
           /\ stage["boot"] = "none"
           /\ stage["control"] = "none"
           /\ services = NoAccount
    /\ stage["boot"] # "none" =>
           /\ phase = "assembling"
           /\ services = NoAccount
           /\ announced = target["boot"]
    /\ stage["control"] # "none" =>
           /\ phase = "ready"
           /\ services = NoAccount
           /\ login["control"] = "off"
           /\ claimed
    /\ login["control"] # "off" => claimed
    /\ services # NoAccount => phase = "ready"
    /\ \A f \in Flows : stage[f] # "none" => target[f] \in LoginAccounts

IInv ==
    /\ LoginTypeOK
    /\ Phased
    /\ AnnouncedIsServed
    /\ ReadyMeansServed

LEMMA Initially == LoginInit => IInv
  BY LoginAssumption
  DEF LoginInit, IInv, LoginTypeOK, Phased, AnnouncedIsServed, ReadyMeansServed, Flows

\* The race is decided only while nothing is assembled yet.
LEMMA RaceStep ==
  ASSUME IInv, alive, phase = "login-race", status # "ready",
         NEW a \in LoginAccounts, EndRace(a),
         login' \in [Flows -> {"off", "quick", "qr"}],
         login'["control"] # "off" => claimed',
         status = "booting" => FALSE,
         shown' \in {"nothing", "scanning", "logged_in", "failed"},
         UNCHANGED <<handed, retried>>, claimed' \in BOOLEAN
  PROVE  IInv'
<1> USE LoginAssumption DEF IInv
<1>1. LoginTypeOK'
  BY DEF LoginTypeOK, EndRace, BeginAssembly, StartAssembly, Flows
<1>2. Phased'
  BY DEF LoginTypeOK, Phased, EndRace, BeginAssembly, StartAssembly, Flows
<1>3. AnnouncedIsServed' /\ ReadyMeansServed'
  BY DEF LoginTypeOK, Phased, AnnouncedIsServed, ReadyMeansServed, EndRace, BeginAssembly,
         StartAssembly, Flows
<1> QED
  BY <1>1, <1>2, <1>3

LEMMA FallbackStep ==
  ASSUME IInv, NEW f \in Flows, FallsBackToQr(f) PROVE IInv'
<1>1. /\ login[f] = "quick"
      /\ login' = [login EXCEPT ![f] = "qr"]
      /\ UNCHANGED <<alive, phase, preempt, claimed, retried, handed, stage, target, services,
                     announced, status>> /\ shown' = "scanning"
  BY DEF FallsBackToQr, asmVars
<1>2. LoginTypeOK'
  BY <1>1 DEF IInv, LoginTypeOK, Flows
<1>3. Phased'
  BY <1>1 DEF IInv, LoginTypeOK, Phased, Flows
<1>4. AnnouncedIsServed' /\ ReadyMeansServed'
  BY <1>1 DEF IInv, AnnouncedIsServed, ReadyMeansServed
<1> QED
  BY <1>2, <1>3, <1>4 DEF IInv

LEMMA ProgressStep ==
  ASSUME IInv, NEW f \in Flows, QrProgress(f) PROVE IInv'
<1>1. /\ UNCHANGED <<alive, phase, preempt, claimed, login, retried, handed, stage, target,
                     services, announced, status>>
      /\ shown' = "scanning"
  BY DEF QrProgress, asmVars, loginVars, toldVars
<1> QED
  BY <1>1 DEF IInv, LoginTypeOK, Phased, AnnouncedIsServed, ReadyMeansServed, Flows

LEMMA BeginLoginStep == IInv /\ BeginLogin => IInv'
<1> SUFFICES ASSUME IInv, BeginLogin PROVE IInv'
  OBVIOUS
<1> USE LoginAssumption DEF IInv
<1>1. LoginTypeOK'
  BY DEF LoginTypeOK, BeginLogin, BeginAssembly, StartAssembly, FirstStep, Flows
<1>2. Phased'
  BY DEF LoginTypeOK, Phased, BeginLogin, BeginAssembly, StartAssembly, FirstStep, Flows
<1>3. AnnouncedIsServed' /\ ReadyMeansServed'
  <2>1. CASE handed = NoAccount
    BY <2>1 DEF LoginTypeOK, Phased, AnnouncedIsServed, ReadyMeansServed, BeginLogin
  <2>2. CASE handed # NoAccount
    BY <2>2 DEF LoginTypeOK, Phased, AnnouncedIsServed, ReadyMeansServed, BeginLogin,
                BeginAssembly, StartAssembly, Flows
  <2> QED
    BY <2>1, <2>2
<1> QED
  BY <1>1, <1>2, <1>3

LEMMA BootLoginStep == IInv /\ BootLoginSettles => IInv'
<1> SUFFICES ASSUME IInv, BootLoginSettles PROVE IInv'
  OBVIOUS
<1> USE LoginAssumption
<1>1. ASSUME NEW a \in LoginAccounts, BootLoginSucceeds(a) PROVE IInv'
  <2>1. CASE phase = "login-race"
    <3>1. status # "ready" /\ status # "booting" /\ alive
      BY <1>1, <2>1 DEF IInv, Phased, ReadyMeansServed, BootLoginSucceeds
    <3>2. login' \in [Flows -> {"off", "quick", "qr"}] /\ login'["control"] = login["control"]
      BY <1>1 DEF BootLoginSucceeds, IInv, LoginTypeOK, Flows
    <3>3. EndRace(a) /\ UNCHANGED <<claimed, handed, retried>> /\ shown' = "logged_in"
      BY <1>1, <2>1 DEF BootLoginSucceeds
    <3> QED
      BY <2>1, <3>1, <3>2, <3>3, RaceStep DEF IInv, LoginTypeOK, Phased
  <2>2. CASE phase # "login-race"
    BY <1>1, <2>2
    DEF BootLoginSucceeds, IInv, LoginTypeOK, Phased, AnnouncedIsServed, ReadyMeansServed,
        asmVars, Flows
  <2> QED
    BY <2>1, <2>2
<1>2. CASE BootLoginRetries
  BY <1>2 DEF BootLoginRetries, FirstStep, IInv, LoginTypeOK, Phased, AnnouncedIsServed,
              ReadyMeansServed, asmVars, Flows
<1>3. CASE BootLoginFails
  BY <1>3 DEF BootLoginFails, Abort, Exit, IInv, LoginTypeOK, Phased, AnnouncedIsServed,
              ReadyMeansServed, asmVars, Flows
<1>4. CASE FallsBackToQr("boot")
  BY <1>4, FallbackStep DEF Flows
<1> QED
  BY <1>1, <1>2, <1>3, <1>4 DEF BootLoginSettles

LEMMA ControlLoginStep ==
  IInv /\ (ControlLoginSettles \/ \E qr \in BOOLEAN : ControlLogin(qr)) => IInv'
<1> USE LoginAssumption
<1>1. ASSUME IInv, NEW a \in LoginAccounts, ControlLoginSucceeds(a) PROVE IInv'
  <2>1. /\ alive /\ login["control"] # "off" /\ stage["control"] = "none"
        /\ login' \in [Flows -> {"off", "quick", "qr"}]
        /\ login'["control"] = "off" /\ login'["boot"] = login["boot"]
    BY <1>1 DEF ControlLoginSucceeds, IInv, LoginTypeOK, Phased, Flows
  <2>2. CASE preempt /\ Racing
    <3>1. /\ EndRace(a) /\ UNCHANGED <<handed, retried>> /\ claimed' = FALSE
          /\ shown' = "logged_in"
      BY <1>1, <2>2 DEF ControlLoginSucceeds, Dispatch, TakePreempt
    <3> QED
      BY <1>1, <2>1, <2>2, <3>1, RaceStep DEF Racing
  <2>3. CASE preempt /\ ~Racing
    <3>1. /\ preempt' = FALSE /\ handed' = a /\ announced' = a /\ claimed' = FALSE
          /\ shown' = "logged_in"
          /\ UNCHANGED <<alive, phase, status, retried, stage, target, services>>
      BY <1>1, <2>3 DEF ControlLoginSucceeds, Dispatch, TakePreempt, asmVars
    <3> QED
      BY <1>1, <2>1, <2>3, <3>1
      DEF IInv, LoginTypeOK, Phased, AnnouncedIsServed, ReadyMeansServed, Flows
  <2>4. CASE ~preempt /\ phase = "ready"
    <3>1. /\ SoftRelogin(a) /\ UNCHANGED <<handed, claimed, retried>>
          /\ shown' \in {shown, "logged_in"}
      BY <1>1, <2>4 DEF ControlLoginSucceeds, Dispatch
    <3> QED
      BY <1>1, <2>1, <2>4, <3>1
      DEF SoftRelogin, StartAssembly, IInv, LoginTypeOK, Phased, AnnouncedIsServed,
          ReadyMeansServed, Flows
  <2>5. CASE ~preempt /\ phase # "ready"
    <3>1. /\ claimed' = FALSE /\ shown' \in {shown, "logged_in"}
          /\ UNCHANGED <<alive, phase, preempt, handed, stage, target, services, announced,
                         status, retried>>
      BY <1>1, <2>5 DEF ControlLoginSucceeds, Dispatch, asmVars
    <3> QED
      BY <1>1, <2>1, <2>5, <3>1
      DEF IInv, LoginTypeOK, Phased, AnnouncedIsServed, ReadyMeansServed, Flows
  <2> QED
    BY <2>2, <2>3, <2>4, <2>5
<1>2. ASSUME IInv, ControlLoginFails PROVE IInv'
  BY <1>2 DEF ControlLoginFails, IInv, LoginTypeOK, Phased, AnnouncedIsServed,
              ReadyMeansServed, asmVars, Flows
<1>3. ASSUME IInv, NEW qr \in BOOLEAN, ControlLogin(qr) PROVE IInv'
  BY <1>3 DEF ControlLogin, IInv, LoginTypeOK, Phased, AnnouncedIsServed, ReadyMeansServed,
              asmVars, Flows
<1>4. ASSUME IInv, FallsBackToQr("control") PROVE IInv'
  BY <1>4, FallbackStep DEF Flows
<1> QED
  BY <1>1, <1>2, <1>3, <1>4 DEF ControlLoginSettles

LEMMA AssemblyStep ==
  ASSUME IInv, NEW f \in Flows, Assembles(f) PROVE IInv'
<1> USE LoginAssumption DEF IInv, LoginTypeOK, Phased, AnnouncedIsServed, ReadyMeansServed, Flows
<1>1. CASE Sessioned(f)
  BY <1>1 DEF Sessioned, loginVars, toldVars
<1>2. CASE Built(f)
  BY <1>2 DEF Built, loginVars, toldVars
<1>3. CASE Assembled(f)
  BY <1>3 DEF Assembled, loginVars, toldVars
<1>4. CASE AssemblyRefused(f)
  BY <1>4 DEF AssemblyRefused, Abort, Exit, loginVars, toldVars
<1>5. CASE AssemblyThrows(f)
  BY <1>5 DEF AssemblyThrows, Exit, loginVars, toldVars
<1> QED
  BY <1>1, <1>2, <1>3, <1>4, <1>5 DEF Assembles

LEMMA Invariance == IInv /\ [LoginNext]_controlVars => IInv'
<1> SUFFICES ASSUME IInv, [LoginNext]_controlVars PROVE IInv'
  OBVIOUS
<1>1. CASE ControlStop
  BY <1>1 DEF ControlStop, IInv, LoginTypeOK, Phased, AnnouncedIsServed, ReadyMeansServed,
              loginVars, asmVars, toldVars, Flows
<1>2. CASE UNCHANGED controlVars
  BY <1>2 DEF controlVars, IInv, LoginTypeOK, Phased, AnnouncedIsServed, ReadyMeansServed,
              loginVars, asmVars, toldVars, Flows
<1> QED
  BY <1>1, <1>2, BeginLoginStep, BootLoginStep, ControlLoginStep, ProgressStep, AssemblyStep
  DEF LoginNext

LEMMA Always == LoginSpec => []IInv
  BY Initially, Invariance, PTL DEF LoginSpec

\* A control login and the bootstrap never assemble at the same time, and no
\* services are built while others stand.
THEOREM NeverTwoAssemblies == LoginSpec => []OneAssembly
<1>1. IInv => OneAssembly
  BY DEF IInv, Phased, LoginTypeOK, OneAssembly, Assembling, Flows
<1> QED
  BY <1>1, Always, PTL

\* What is served or assembled is what the parent was told by name, and the parent
\* does not see logged_in before the process is ready unless a result is assembled
\* or about to be.
THEOREM ServesWhatItAnnounced == LoginSpec => []AnnouncedIsServed
<1>1. IInv => AnnouncedIsServed
  BY DEF IInv
<1> QED
  BY <1>1, Always, PTL

\* The status the parent may have replayed does not claim services that are gone.
THEOREM ReadyIsTrue == LoginSpec => []ReadyMeansServed
<1>1. IInv => ReadyMeansServed
  BY DEF IInv
<1> QED
  BY <1>1, Always, PTL
-----------------------------------------------------------------------------
(* What ControlReleased and BootSettles rest on.                           *)

\* A claim has a login or an assembly behind it, and a bootstrap that is not
\* done yet is fetching accounts, logging in or assembling.
SomebodyWorks ==
    alive =>
        /\ claimed => login["control"] # "off" \/ stage["control"] # "none"
        /\ phase = "login-race" => status = "booting" \/ login["boot"] # "off"
        /\ phase = "assembling" => stage["boot"] # "none"
        /\ phase # "aborted"

\* How many more times the login of a flow can settle: the bootstrap has a
\* second attempt, and only that one falls back to the QR code.
LoginLeft(f) ==
    CASE login[f] = "off" -> 0
      [] login[f] # "off" /\ f = "boot" /\ ~retried -> 3
      [] login[f] = "quick" /\ (f = "control" \/ retried) -> 2
      [] OTHER -> 1

\* How many steps runAssembly of a flow still has to take.
AssemblyLeft(f) ==
    CASE stage[f] = "activating" -> 3
      [] stage[f] = "building" -> 2
      [] stage[f] = "attaching" -> 1
      [] OTHER -> 0

\* Each step of a login or an assembly leaves less of it to do, and no step of
\* the other flow or of the parent adds to one that is under way.
LeadsOn ==
    /\ BootLoginSettles => LoginLeft("boot")' < LoginLeft("boot")
    /\ ControlLoginSettles => LoginLeft("control")' < LoginLeft("control")
    /\ \A f \in Flows :
         /\ Assembles(f) => AssemblyLeft(f)' < AssemblyLeft(f)
         /\ login[f] # "off" => LoginLeft(f)' <= LoginLeft(f)
         /\ stage[f] # "none" => AssemblyLeft(f)' <= AssemblyLeft(f)

LEMMA WorkBegins == LoginInit => SomebodyWorks
  BY DEF LoginInit, SomebodyWorks

LEMMA WorkGoesOn == IInv /\ SomebodyWorks /\ [LoginNext]_controlVars => SomebodyWorks'
<1> SUFFICES ASSUME IInv, SomebodyWorks, [LoginNext]_controlVars PROVE SomebodyWorks'
  OBVIOUS
<1> USE DEF IInv, LoginTypeOK, Phased, SomebodyWorks, Flows
<1>1. CASE BeginLogin
  BY <1>1 DEF BeginLogin, BeginAssembly, StartAssembly, FirstStep
<1>2. ASSUME NEW a \in LoginAccounts, BootLoginSucceeds(a) PROVE SomebodyWorks'
  <2>1. CASE phase = "login-race"
    BY <1>2, <2>1 DEF BootLoginSucceeds, EndRace, BeginAssembly, StartAssembly
  <2>2. CASE phase # "login-race"
    BY <1>2, <2>2 DEF BootLoginSucceeds, asmVars
  <2> QED
    BY <2>1, <2>2
<1>3. CASE BootLoginRetries \/ BootLoginFails
  <2>1. CASE BootLoginRetries
    BY <2>1 DEF BootLoginRetries, FirstStep, asmVars
  <2>2. CASE BootLoginFails
    BY <2>2 DEF BootLoginFails, Abort, Exit, asmVars
  <2> QED
    BY <1>3, <2>1, <2>2
<1>4. ASSUME NEW f \in Flows, FallsBackToQr(f) PROVE SomebodyWorks'
  BY <1>4 DEF FallsBackToQr, asmVars
<1>5. ASSUME NEW a \in LoginAccounts, ControlLoginSucceeds(a) PROVE SomebodyWorks'
  BY <1>5 DEF ControlLoginSucceeds, Dispatch, TakePreempt, Racing, EndRace, BeginAssembly,
              StartAssembly, SoftRelogin, asmVars
<1>6. ASSUME NEW qr \in BOOLEAN, ControlLogin(qr) PROVE SomebodyWorks'
  BY <1>6 DEF ControlLogin, asmVars
<1>7. CASE ControlLoginFails \/ ControlStop
  BY <1>7 DEF ControlLoginFails, ControlStop, asmVars
<1>8. ASSUME NEW f \in Flows, Assembles(f) PROVE SomebodyWorks'
  <2>1. CASE Sessioned(f) \/ Built(f)
    BY <2>1 DEF Sessioned, Built, loginVars, toldVars
  <2>2. CASE Assembled(f)
    BY <2>2 DEF Assembled, loginVars, toldVars
  <2>3. CASE AssemblyRefused(f) \/ AssemblyThrows(f)
    BY <2>3 DEF AssemblyRefused, AssemblyThrows, Abort, Exit, loginVars, toldVars
  <2> QED
    BY <1>8, <2>1, <2>2, <2>3 DEF Assembles
<1>9. ASSUME NEW f \in Flows, QrProgress(f) PROVE SomebodyWorks'
  BY <1>9 DEF QrProgress, loginVars, asmVars
<1>10. CASE UNCHANGED controlVars
  BY <1>10 DEF controlVars, loginVars, asmVars
<1> QED
  BY <1>1, <1>2, <1>3, <1>4, <1>5, <1>6, <1>7, <1>8, <1>9, <1>10
  DEF LoginNext, BootLoginSettles, ControlLoginSettles

LEMMA LoginsLeadOn ==
  ASSUME IInv
  PROVE  /\ BootLoginSettles => LoginLeft("boot")' < LoginLeft("boot")
         /\ ControlLoginSettles => LoginLeft("control")' < LoginLeft("control")
<1> USE DEF IInv, LoginTypeOK, LoginLeft, Flows
<1>1. ASSUME NEW a \in LoginAccounts, BootLoginSucceeds(a)
      PROVE  LoginLeft("boot")' < LoginLeft("boot")
  BY <1>1 DEF BootLoginSucceeds
<1>2. BootLoginRetries => LoginLeft("boot")' < LoginLeft("boot")
  BY DEF BootLoginRetries, FirstStep
<1>3. BootLoginFails => LoginLeft("boot")' < LoginLeft("boot")
  BY DEF BootLoginFails
<1>4. ASSUME NEW f \in Flows, FallsBackToQr(f)
      PROVE  LoginLeft(f)' < LoginLeft(f)
  BY <1>4 DEF FallsBackToQr
<1>5. ASSUME NEW a \in LoginAccounts, ControlLoginSucceeds(a)
      PROVE  LoginLeft("control")' < LoginLeft("control")
  BY <1>5 DEF ControlLoginSucceeds
<1>6. ControlLoginFails => LoginLeft("control")' < LoginLeft("control")
  BY DEF ControlLoginFails
<1>7. BootLoginSettles => LoginLeft("boot")' < LoginLeft("boot")
  BY <1>1, <1>2, <1>3, <1>4 DEF BootLoginSettles
<1>8. ControlLoginSettles => LoginLeft("control")' < LoginLeft("control")
  BY <1>4, <1>5, <1>6 DEF ControlLoginSettles
<1> QED
  BY <1>7, <1>8

LEMMA AssembliesLeadOn ==
  ASSUME IInv, NEW f \in Flows, Assembles(f)
  PROVE  AssemblyLeft(f)' < AssemblyLeft(f)
<1> USE DEF IInv, LoginTypeOK, AssemblyLeft
<1>1. CASE Sessioned(f) \/ Built(f)
  BY <1>1 DEF Sessioned, Built
<1>2. CASE Assembled(f)
  BY <1>2 DEF Assembled
<1>3. CASE AssemblyRefused(f) \/ AssemblyThrows(f)
  BY <1>3 DEF AssemblyRefused, AssemblyThrows
<1> QED
  BY <1>1, <1>2, <1>3 DEF Assembles

\* No step touches the login of the other flow, or starts one that is under way.
LEMMA LoginsStay ==
  ASSUME IInv, LoginNext, NEW f \in Flows, login[f] # "off"
  PROVE  LoginLeft(f)' <= LoginLeft(f)
<1> DEFINE Same == login'[f] = login[f] /\ retried' = retried
<1>0. Same => LoginLeft(f)' <= LoginLeft(f)
  BY DEF LoginLeft
<1> USE DEF IInv, LoginTypeOK, Phased, Flows
<1>1. CASE BeginLogin
  BY <1>0, <1>1 DEF BeginLogin, FirstStep
<1>2. CASE BootLoginSettles
  <2>1. CASE f = "boot"
    BY <1>2, <2>1, LoginsLeadOn DEF LoginLeft
  <2>2. CASE f = "control"
    <3>1. login'["control"] = login["control"]
      BY <1>2
      DEF BootLoginSettles, BootLoginSucceeds, BootLoginRetries, BootLoginFails, FallsBackToQr
    <3> QED
      BY <2>2, <3>1 DEF LoginLeft
  <2> QED
    BY <2>1, <2>2
<1>3. CASE ControlLoginSettles
  <2>1. CASE f = "control"
    BY <1>3, <2>1, LoginsLeadOn DEF LoginLeft
  <2>2. CASE f = "boot"
    BY <1>0, <1>3, <2>2
    DEF ControlLoginSettles, ControlLoginSucceeds, ControlLoginFails, FallsBackToQr
  <2> QED
    BY <2>1, <2>2
<1>4. CASE \E qr \in BOOLEAN : ControlLogin(qr)
  BY <1>0, <1>4 DEF ControlLogin
<1>5. CASE ControlStop
  BY <1>0, <1>5 DEF ControlStop, loginVars, toldVars
<1>6. ASSUME NEW g \in Flows, Assembles(g) PROVE Same
  BY <1>6 DEF Assembles, Sessioned, Built, Assembled, AssemblyRefused, AssemblyThrows, loginVars
<1>7. ASSUME NEW g \in Flows, QrProgress(g) PROVE Same
  BY <1>7 DEF QrProgress, loginVars
<1> QED
  BY <1>0, <1>1, <1>2, <1>3, <1>4, <1>5, <1>6, <1>7 DEF LoginNext

\* Nor does it start an assembly over: EndRace and SoftRelogin find none of
\* their flow under way.
LEMMA AssembliesStay ==
  ASSUME IInv, LoginNext, NEW f \in Flows, stage[f] # "none"
  PROVE  AssemblyLeft(f)' <= AssemblyLeft(f)
<1> DEFINE Same == stage'[f] = stage[f]
<1>0. Same => AssemblyLeft(f)' <= AssemblyLeft(f)
  BY DEF AssemblyLeft
<1> USE DEF IInv, LoginTypeOK, Phased, Flows
<1>1. CASE BeginLogin
  BY <1>0, <1>1 DEF BeginLogin
<1>2. ASSUME NEW a \in LoginAccounts, BootLoginSucceeds(a) PROVE Same
  BY <1>2 DEF BootLoginSucceeds, asmVars
<1>3. CASE BootLoginRetries \/ BootLoginFails \/ ControlLoginFails \/ ControlStop
  BY <1>0, <1>3 DEF BootLoginRetries, BootLoginFails, ControlLoginFails, ControlStop, asmVars
<1>4. ASSUME NEW g \in Flows, FallsBackToQr(g) PROVE Same
  BY <1>4 DEF FallsBackToQr, asmVars
<1>5. ASSUME NEW a \in LoginAccounts, ControlLoginSucceeds(a) PROVE Same
  BY <1>5 DEF ControlLoginSucceeds, Dispatch, TakePreempt, Racing, SoftRelogin, StartAssembly,
              asmVars
<1>6. ASSUME NEW qr \in BOOLEAN, ControlLogin(qr) PROVE Same
  BY <1>6 DEF ControlLogin, asmVars
<1>7. ASSUME NEW g \in Flows, Assembles(g) PROVE AssemblyLeft(f)' <= AssemblyLeft(f)
  <2>1. CASE f = g
    BY <1>7, <2>1, AssembliesLeadOn DEF AssemblyLeft
  <2>2. CASE f # g
    BY <1>0, <1>7, <2>2
    DEF Assembles, Sessioned, Built, Assembled, AssemblyRefused, AssemblyThrows
  <2> QED
    BY <2>1, <2>2
<1>8. ASSUME NEW g \in Flows, QrProgress(g) PROVE Same
  BY <1>8 DEF QrProgress, asmVars
<1> HIDE DEF Same
<1> QED
  BY <1>0, <1>1, <1>2, <1>3, <1>4, <1>5, <1>6, <1>7, <1>8
  DEF LoginNext, BootLoginSettles, ControlLoginSettles

LEMMA StepsLeadOn == IInv /\ [LoginNext]_controlVars => [LeadsOn]_controlVars
<1> SUFFICES ASSUME IInv, LoginNext PROVE LeadsOn
  OBVIOUS
<1> QED
  BY LoginsLeadOn, AssembliesLeadOn, LoginsStay, AssembliesStay DEF LeadsOn

\* Whenever the process lives, a claim of the parent and an unfinished bootstrap
\* are somebody's work: no flow waits for one that is gone (ControlReleased and
\* BootSettles need nothing but the timers of that work).
THEOREM SomebodyAlwaysWorks == LoginSpec => []SomebodyWorks
<1> QED
  BY Always, WorkBegins, WorkGoesOn, PTL DEF LoginSpec

\* Logins and assemblies come to an end by themselves: each step that settles
\* one leaves less of it, whatever the other flow does meanwhile.
THEOREM EachStepLeadsOn == LoginSpec => [][LeadsOn]_controlVars
<1> QED
  BY Always, StepsLeadOn, PTL DEF LoginSpec
=============================================================================
