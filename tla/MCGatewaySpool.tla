--------------------------- MODULE MCGatewaySpool ---------------------------
(* Processors of one request are told apart by nothing, and neither are      *)
(* callers: permuting them is a symmetry of every state and step.            *)
EXTENDS GatewaySpool, TLC

\* An end of each kind that the statuses tell apart, with and without an effect.
MCOutcomes ==
  [effect : {TRUE}, result : {TRUE}, error : {"none", "BudgetExceeded"}]
    \cup [effect : {FALSE}, result : {FALSE},
          error : {"PolicyDenied", "BudgetExceeded", "UnsupportedTool", "AdapterFailed"}]
    \cup [effect : {TRUE}, result : {FALSE}, error : {"AdapterFailed"}]

Symmetry == Permutations(Processors) \cup Permutations(Callers)
=============================================================================
