------------------------- MODULE MCPromptPromotion -------------------------
(***************************************************************************)
(* The default policy, with fewer samples and a delta of 0.1, and one      *)
(* outcome of each kind: a success, one that took repairs, a failure of    *)
(* one stage, a failure of the stage with the highest limit, of the last   *)
(* stages, and of all of them.                                             *)
(***************************************************************************)
EXTENDS PromptPromotion

DefaultMinimum == [m \in Metrics |-> IF m = "policy" THEN 19 ELSE 12]

SomeOutcomes == {[passed |-> Stages, repairs |-> 0],
                 [passed |-> Stages, repairs |-> 2],
                 [passed |-> Stages \ {"test"}, repairs |-> 0],
                 [passed |-> Stages \ {"policy"}, repairs |-> 1],
                 [passed |-> {}, repairs |-> 0]}
============================================================================
