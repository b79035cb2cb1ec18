------------------------------- MODULE Ladder -------------------------------
(***************************************************************************)
(* What the escalation ladder promises, as if every call were atomic: the  *)
(* docstrings' view of EnforcementSessionState                             *)
(* (backend/app/decisions/session.py).  One variable is the posture the C7 *)
(* API gates on; the other is the code of the last PostureTransition, the  *)
(* evidence that moved it.                                                 *)
(***************************************************************************)
EXTENDS Integers

VARIABLES posture, code

Postures == {"NORMAL", "SOFT_CHALLENGE", "REAUTH_REQUIRED", "LOCKED_OUT"}

Rank == [p \in Postures |->
           CASE p = "NORMAL"          -> 0
             [] p = "SOFT_CHALLENGE"  -> 1
             [] p = "REAUTH_REQUIRED" -> 2
             [] p = "LOCKED_OUT"      -> 3]

Blocking == {"REAUTH_REQUIRED", "LOCKED_OUT"}

Codes == {"NONE", "ENFORCEMENT", "REAUTH_ACCEPTED", "CHALLENGE_ACCEPTED",
          "CHALLENGE_REJECTED", "CHALLENGE_EXPIRED"}

(* A decision the policy layer applied only ever raises the posture.       *)
Raise ==
  /\ \E p \in Postures :
       /\ Rank[p] > Rank[posture]
       /\ posture' = p
  /\ code' = "ENFORCEMENT"

(* A correct REAUTH answer clears everything, a lockout included.          *)
Reauthenticate ==
  /\ posture # "NORMAL"
  /\ posture' = "NORMAL"
  /\ code' = "REAUTH_ACCEPTED"

(* A correct soft answer clears a soft challenge and nothing above it.     *)
Acknowledge ==
  /\ posture = "SOFT_CHALLENGE"
  /\ posture' = "NORMAL"
  /\ code' = "CHALLENGE_ACCEPTED"

(* A failed challenge climbs: soft to REAUTH_REQUIRED, REAUTH to lockout.  *)
Fail ==
  /\ \/ Rank[posture] <= 1 /\ posture' = "REAUTH_REQUIRED"
     \/ posture # "LOCKED_OUT" /\ posture' = "LOCKED_OUT"
  /\ code' \in {"CHALLENGE_REJECTED", "CHALLENGE_EXPIRED"}

Init == posture = "NORMAL" /\ code = "NONE"

Next == Raise \/ Reauthenticate \/ Acknowledge \/ Fail

Spec == Init /\ [][Next]_<<posture, code>>
=============================================================================
