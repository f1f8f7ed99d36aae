------------------------------ MODULE MCApprovals ------------------------------
(***************************************************************************)
(* The instance of Approvals that TLC checks.                              *)
(***************************************************************************)
EXTENDS Approvals

\* One gate that may be escalated, and one that may be rejected.
GatePermits == <<{"APPROVE", "ESCALATE"}, {"APPROVE", "REJECT"}>>

===============================================================================
