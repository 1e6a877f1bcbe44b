------------------------------ MODULE Decision ------------------------------
(***************************************************************************)
(* What an approval promises, with no caller, task or clock in sight: one  *)
(* verdict, by the person the request is addressed to at that moment; the  *)
(* request passes to the backup at most once, before the verdict, and only *)
(* when it may.                                                            *)
(***************************************************************************)
CONSTANTS Original, Backup

VARIABLES
  verdict,      \* "open", "approved" or "rejected"
  addressee,    \* who may decide
  by,           \* who decided
  mayDelegate   \* the original approver is away and the backup may decide

decisionVars == <<verdict, addressee, by>>

DecisionInit ==
  /\ verdict = "open"
  /\ addressee = Original
  /\ by = "nobody"

Delegate ==
  /\ verdict = "open"
  /\ mayDelegate
  /\ addressee = Original
  /\ addressee' = Backup
  /\ UNCHANGED <<verdict, by>>

Conclude ==
  /\ verdict = "open"
  /\ verdict' \in {"approved", "rejected"}
  /\ by' = addressee
  /\ UNCHANGED addressee

DecisionSpec == DecisionInit /\ [][Delegate \/ Conclude]_decisionVars
=============================================================================
