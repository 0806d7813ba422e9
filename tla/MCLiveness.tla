----------------------------- MODULE MCLiveness -----------------------------
(***************************************************************************)
(* Instance of the components that have an end to come to: the process     *)
(* tree, whose stop must reach every account (no operator and no signal    *)
(* disturbs it here), the login of a self-hosted process, and one kurobot  *)
(* connection.  They share no state: a behaviour is about one of them and  *)
(* the others stay as they began.                                          *)
(***************************************************************************)
EXTENDS Hosting, LoginControl, KurobotConnection

VARIABLE part       \* the component the behaviour is about

mcVars == <<part, hostingVars, controlVars, vars>>

\* The platform and the kind of start are left open in the tree's part only.
MCInit ==
    /\ part \in {"tree", "login", "connection"}
    /\ HostingInit /\ LoginInit /\ Init
    /\ part # "tree" => windows /\ sup = "off"

OthersStay ==
    /\ UNCHANGED part
    /\ part # "tree" => UNCHANGED hostingVars
    /\ part # "login" => UNCHANGED controlVars
    /\ part # "connection" => UNCHANGED vars

MCNext ==
    \/ part = "tree" /\ HostingNext /\ OthersStay
    \/ part = "login" /\ LoginNext /\ OthersStay
    \/ part = "connection" /\ Next /\ OthersStay

\* No fair action of the tree or of the connection is possible at the beginning,
\* so that their fairness asks nothing of the other parts. The login begins with a
\* fair step (BeginLogin), which only its own part can take.
MCSpec ==
    /\ MCInit
    /\ [][MCNext]_mcVars
    /\ HostingFairness
    /\ Fairness
    /\ WF_controlVars(part = "login" /\ BeginLogin)
    /\ WF_controlVars(BootLoginSettles)
    /\ WF_controlVars(ControlLoginSettles)
    /\ \A f \in Flows : WF_controlVars(Assembles(f))

\* The bootstrap ends in service or with the process, in every order of the two
\* logins (BootSettles, of the part that logs in).
BootConcludes == part = "login" => BootSettles
=============================================================================
