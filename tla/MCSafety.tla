------------------------------ MODULE MCSafety ------------------------------
(***************************************************************************)
(* Instance of the two components with the most states, for safety: the    *)
(* kurobot adapter over its connection, and the process tree with stop     *)
(* commands, signals, hangs and crashes.  They share no state: a behaviour *)
(* is about one of them and the other stays as it began.  Accounts are     *)
(* interchangeable.                                                        *)
(***************************************************************************)
EXTENDS KurobotBridge, Hosting, TLC

VARIABLE part       \* the component the behaviour is about

mcVars == <<part, allVars, hostingVars>>

MCSymmetry == Permutations(Accounts)

\* The platform and the kind of start are left open in the tree's part only.
MCInit ==
    /\ part \in {"adapter", "tree"}
    /\ BridgeInit /\ HostingInit
    /\ part # "tree" => windows /\ sup = "off"

MCNext ==
    \/ part = "adapter" /\ BridgeNext /\ UNCHANGED <<part, hostingVars>>
    \/ part = "tree" /\ HostingNext /\ UNCHANGED <<part, allVars>>

MCSpec == MCInit /\ [][MCNext]_mcVars
=============================================================================
