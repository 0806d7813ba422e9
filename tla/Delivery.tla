------------------------------ MODULE Delivery ------------------------------
(***************************************************************************)
(* What a caller of the kernel's sends may rely on, however many calls are *)
(* under way and whatever the native side reports, loses or delays: a      *)
(* message is handed over at most once and only while its call is open,    *)
(* success is told of a message that is out by then, or, of a call that    *)
(* awaits no confirmation, of a message that was handed over, and what a   *)
(* caller was told is final. Failure says nothing of a message that was    *)
(* handed over: it may be out already, or go out later.                    *)
(***************************************************************************)
CONSTANT Sends

VARIABLES
    told,       \* by call: "nothing", "open", "ok" or "failed"
    watched,    \* calls that await the confirmation of their message
    handed,     \* calls whose message QQ was given
    delivered   \* calls whose message is out

deliveryVars == <<told, watched, handed, delivered>>

DeliveryInit ==
    /\ told = [s \in Sends |-> "nothing"]
    /\ watched = {}
    /\ handed = {}
    /\ delivered = {}

Tell(s, what) ==
    /\ told' = [told EXCEPT ![s] = what]
    /\ UNCHANGED <<handed, delivered>>

Ask(s) ==
    /\ told[s] = "nothing"
    /\ Tell(s, "open")
    /\ watched' = watched \/ watched' = watched \cup {s}

TellOk(s) ==
    /\ told[s] = "open"
    /\ s \in IF s \in watched THEN delivered ELSE handed
    /\ Tell(s, "ok")
    /\ UNCHANGED watched

TellFailed(s) ==
    /\ told[s] = "open"
    /\ Tell(s, "failed")
    /\ UNCHANGED watched

HandOver(s) ==
    /\ told[s] = "open"
    /\ s \notin handed
    /\ handed' = handed \cup {s}
    /\ UNCHANGED <<told, watched, delivered>>

Deliver(s) ==
    /\ s \in handed \ delivered
    /\ delivered' = delivered \cup {s}
    /\ UNCHANGED <<told, watched, handed>>

DeliveryNext ==
    \E s \in Sends : Ask(s) \/ HandOver(s) \/ Deliver(s) \/ TellOk(s) \/ TellFailed(s)

DeliverySpec == DeliveryInit /\ [][DeliveryNext]_deliveryVars
=============================================================================
