---------------------------- MODULE KurobotLink ----------------------------
(***************************************************************************)
(* What the owner of a KurobotConnection may rely on: a link that is off,  *)
(* trying, up, stopped by the owner, or ended by the server for good. It   *)
(* reports its end exactly once, and only when the server ended it.        *)
(***************************************************************************)
EXTENDS Naturals

VARIABLES phase, endReports

linkVars == <<phase, endReports>>

LinkInit == phase = "off" /\ endReports = 0

GoTrying == phase = "off" /\ phase' = "trying" /\ UNCHANGED endReports
GoUp == phase = "trying" /\ phase' = "up" /\ UNCHANGED endReports
GoDown == phase = "up" /\ phase' = "trying" /\ UNCHANGED endReports
GoEnded ==
    /\ phase \in {"trying", "up"}
    /\ phase' = "ended"
    /\ endReports' = endReports + 1
GoStopped ==
    /\ phase \in {"off", "trying", "up"}
    /\ phase' = "stopped"
    /\ UNCHANGED endReports

LinkNext == GoTrying \/ GoUp \/ GoDown \/ GoEnded \/ GoStopped

LinkSpec == LinkInit /\ [][LinkNext]_linkVars
=============================================================================
