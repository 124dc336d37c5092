------------------------ MODULE MCExecutionContract ------------------------
(* Instances of ExecutionContract for TLC.                                 *)
EXTENDS ExecutionContract, TLC

CONSTANTS sub, exe, fileA, fileB, item1, item2

Plan(targets, edits, steps, assessed) ==
  [targets |-> targets, edits |-> edits, steps |-> steps,
   assessed |-> assessed, deletes |-> FALSE, undecided |-> FALSE]

(* One model as strong as any plan asks, one that cannot keep a hard plan. *)
MCModels  == {sub, exe}
MCQuality == [m \in MCModels |-> IF m = sub THEN 4 ELSE 2]
MCPools   == {MCModels}

(* The least budget; and a plan one exclusion short of the frontier.       *)
EasyPlans == {Plan({fileA}, {fileA}, 1, 1)}
HardPlans == {Plan({fileA}, {fileA}, 1, 3)}

Items == Permutations({item1, item2})
============================================================================
