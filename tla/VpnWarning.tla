----------------------------- MODULE VpnWarning -----------------------------
(***************************************************************************)
(* What the VPN warning promises the user, whatever the program is doing:  *)
(* one warning with a deadline; it ends when protection is re-applied, or  *)
(* when the deadline or another VPN session fails the challenge; a failure *)
(* is undone by nothing but a restart of the app.  Module VpnHandler       *)
(* implements it.                                                          *)
(***************************************************************************)

VARIABLES
    stage,  \* of the challenge: "clean", "warned", "resolved", "failed"
    late,   \* the deadline has passed
    gap     \* the VPN has been down since the warning

vars == <<stage, late, gap>>

Init == stage = "clean" /\ late = FALSE /\ gap = FALSE

\* A VPN is seen for the first time.
Warn ==
    /\ stage = "clean" /\ stage' = "warned"
    /\ late' = FALSE /\ gap' = FALSE

\* Time and the VPN go on.
DeadlinePasses == stage # "clean" /\ late' = TRUE /\ UNCHANGED <<stage, gap>>
SessionEnds == gap' = TRUE /\ UNCHANGED <<stage, late>>

\* A warning ends.
Resolve == stage = "warned" /\ stage' = "resolved" /\ UNCHANGED <<late, gap>>
Expire == stage = "warned" /\ late /\ stage' = "failed" /\ UNCHANGED <<late, gap>>

\* Another session, also after the first one's warning was resolved.
SecondAttempt ==
    /\ stage \in {"warned", "resolved"} /\ gap
    /\ stage' = "failed"
    /\ UNCHANGED <<late, gap>>

\* The record of a failure is wiped, in the end with the process.
Wipe ==
    /\ stage = "failed" /\ stage' \in {"failed", "clean"}
    /\ late' = FALSE
    /\ UNCHANGED gap

Decide == Resolve \/ Expire \/ SecondAttempt

Next == Warn \/ DeadlinePasses \/ SessionEnds \/ Decide \/ Wipe

Spec == Init /\ [][Next]_vars

\* A warning whose deadline has passed is decided.
Decided == WF_vars(stage = "warned" /\ late /\ Decide)
=============================================================================
