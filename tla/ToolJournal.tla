----------------------------- MODULE ToolJournal -----------------------------
(***************************************************************************)
(* The provider boundary: PostgresToolAdapter's tool_invocations journal   *)
(* for the effects of one workflow, with the business effect of each key.  *)
(* A key is named by its step.  Each operator is one transaction of the    *)
(* adapter; an effect that is refused rolls its journal row back, so a     *)
(* "started" row is never visible to anyone else and "absent" stands for   *)
(* both.                                                                   *)
(*                                                                         *)
(* applied and reversed count what really reached the ERP tables.  They    *)
(* are written only where the adapter runs an effect and read by no action.*)
(***************************************************************************)
EXTENDS WorkflowDeclaration

CONSTANTS
  FallibleTools,        \* effects the ERP's own guards may refuse
  FallibleReversals     \* reverse effects they may refuse

ASSUME JournalAssumption ==
  /\ FallibleTools \subseteq ToolSteps
  /\ FallibleReversals \subseteq ToolSteps

VARIABLES
  journal,    \* status of the effect's row, by step
  reversal,   \* status of the compensation's row, by step
  applied,    \* times the effect of the step was committed
  reversed    \* times its reverse effect was committed

journalVars == <<journal, reversal, applied, reversed>>

JournalTypeOK ==
  /\ journal \in [ToolSteps -> {"absent", "succeeded", "compensated"}]
  /\ reversal \in [ToolSteps -> {"absent", "succeeded"}]
  /\ applied \in [ToolSteps -> Nat]
  /\ reversed \in [ToolSteps -> Nat]

JournalInit ==
  /\ journal = [i \in ToolSteps |-> "absent"]
  /\ reversal = [i \in ToolSteps |-> "absent"]
  /\ applied = [i \in ToolSteps |-> 0]
  /\ reversed = [i \in ToolSteps |-> 0]

-----------------------------------------------------------------------------
(* PostgresToolAdapter.execute                                             *)

\* Mutant: a key that already succeeded is executed again.
ApplyEffectAgain(i) ==
  /\ journal[i] # "compensated"
  /\ journal' = [journal EXCEPT ![i] = "succeeded"]
  /\ applied' = [applied EXCEPT ![i] = @ + 1]
  /\ UNCHANGED <<reversal, reversed>>

\* First execution of this key: the effect and its row commit together.
ApplyEffect(i) ==
  /\ journal[i] = "absent"
  /\ journal' = [journal EXCEPT ![i] = "succeeded"]
  /\ applied' = [applied EXCEPT ![i] = @ + 1]
  /\ UNCHANGED <<reversal, reversed>>

\* A replay of a succeeded key returns the stored result and changes nothing.
ReplayEffect(i) ==
  /\ journal[i] = "succeeded"
  /\ UNCHANGED journalVars

\* A terminal error: the key was compensated, or the effect was refused.
RefuseEffect(i) ==
  /\ \/ journal[i] = "compensated"
     \/ journal[i] = "absent" /\ i \in FallibleTools
  /\ UNCHANGED journalVars

-----------------------------------------------------------------------------
(* PostgresToolAdapter.compensate                                          *)

\* The reverse effect, its own row and the original row commit together.
ReverseEffect(i) ==
  /\ reversal[i] = "absent"
  /\ journal[i] = "succeeded"
  /\ reversal' = [reversal EXCEPT ![i] = "succeeded"]
  /\ journal' = [journal EXCEPT ![i] = "compensated"]
  /\ reversed' = [reversed EXCEPT ![i] = @ + 1]
  /\ UNCHANGED applied

ReplayReversal(i) ==
  /\ reversal[i] = "succeeded"
  /\ UNCHANGED journalVars

\* The original is not in the state it must be reversed from, or the ERP
\* record has changed since (the source_version guard of the reverse effect).
RefuseReversal(i) ==
  /\ reversal[i] = "absent"
  /\ journal[i] # "succeeded" \/ i \in FallibleReversals
  /\ UNCHANGED journalVars
=============================================================================
