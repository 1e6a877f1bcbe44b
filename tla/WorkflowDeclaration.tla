------------------------- MODULE WorkflowDeclaration -------------------------
(***************************************************************************)
(* An immutable, versioned workflow declaration: an ordered list of steps, *)
(* each a read-only guard or a tool with an external effect.               *)
(***************************************************************************)
EXTENDS Naturals

CONSTANTS
  NumSteps,     \* number of declared steps; step_index runs over 1..NumSteps
  ToolSteps     \* the steps whose tool_name is not NULL

\* po_reroute:v1 is guard, guard, tool, tool, tool, tool; a bounded tool plan
\* is tools only.  Both end with a tool, the only kind of step whose
\* completion can finish a workflow.
ASSUME StepsAssumption ==
  /\ NumSteps \in Nat \ {0}
  /\ ToolSteps \subseteq 1..NumSteps
  /\ NumSteps \in ToolSteps

Steps == 1..NumSteps
=============================================================================
