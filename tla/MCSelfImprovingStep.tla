------------------------ MODULE MCSelfImprovingStep ------------------------
(* Limits two above those prompt-to-code sets, and one score on each side   *)
(* of the pass score.                                                       *)
EXTENDS SelfImprovingStep

ScoresAround == {PassScore - 1, PassScore}
=============================================================================
