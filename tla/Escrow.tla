-------------------------------- MODULE Escrow --------------------------------
(***************************************************************************)
(* What the server promises about a deposit, whatever handlers, jobs and    *)
(* crashes do to its documents: a challenge that is closed stays closed, it *)
(* is completed on its last day and terminated only for a vector there are  *)
(* grounds against, and a closed one gets one refund at most.               *)
(* Module ViolationEngine implements it.                                    *)
(***************************************************************************)
EXTENDS Naturals

CONSTANTS Vectors, None

VARIABLES
    status,   \* of the challenge
    cause,    \* the vector it was terminated for
    due,      \* its last day is over
    grounds,  \* the vectors there are grounds against
    refunds   \* that the bank carried out

vars == <<status, cause, due, grounds, refunds>>

Init ==
    /\ status = "active" /\ cause = None
    /\ due = FALSE /\ grounds = {} /\ refunds = 0

\* Reports arrive, and days pass.
Accuse ==
    /\ UNCHANGED <<status, cause, due, refunds>>
    /\ grounds \subseteq grounds' /\ grounds' \subseteq Vectors

LastDay == due' = TRUE /\ UNCHANGED <<status, cause, grounds, refunds>>

\* Two outcomes may follow each other, no outcome is taken back.
Complete ==
    /\ due
    /\ status' = "completed"
    /\ UNCHANGED <<cause, due, grounds, refunds>>

Terminate(v) ==
    /\ cause' = v /\ v \in grounds
    /\ status' \in {"terminated", status} \ {"active"}
    /\ UNCHANGED <<due, grounds, refunds>>

Refund ==
    /\ due /\ status # "active" /\ refunds = 0
    /\ refunds' = 1
    /\ UNCHANGED <<status, cause, due, grounds>>

Next == Accuse \/ LastDay \/ Complete \/ (\E v \in Vectors : Terminate(v)) \/ Refund

Spec == Init /\ [][Next]_vars
===============================================================================
