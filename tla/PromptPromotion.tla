--------------------------- MODULE PromptPromotion ---------------------------
(***************************************************************************)
(* PromptPromoter: outcomes of workflow runs are recorded for two versions *)
(* of a prompt, one the baseline of the other, and decide whether a        *)
(* version is promoted, kept as a candidate or rejected.                   *)
(*                                                                         *)
(* A list of outcomes is kept as its sums, which is all summarize uses.    *)
(* The rates and limits of a policy are counted in parts of Unit, so a     *)
(* rate is compared by multiplying out.  A rate and a limit are each       *)
(* rounded once, alike, so the code's comparison of the two is exact; a    *)
(* baseline's rate plus a delta is rounded again, so at an exact tie the   *)
(* code may find either.                                                   *)
(***************************************************************************)
EXTENDS Integers

CONSTANTS
  Prompts,         \* the versions of the prompt
  Outcomes,        \* the outcomes a run may have
  MaxSamples,      \* how many outcomes are recorded for a version at most
  Unit,            \* the parts a rate of 1.0 has
  MinimumSamples,  \* PromptPromotionPolicy: minimum_samples,
  Minimum,         \* ... minimum_..._pass_rate, by metric,
  MaximumRepairs,  \* ... maximum_average_repair_iterations,
  Delta            \* ... minimum_workflow_pass_rate_delta

Stages == {"test", "requirements", "policy", "review"}

Metrics == Stages \cup {"workflow"}

Outcome == [passed : SUBSET Stages, repairs : Nat]

ASSUME PolicyAssumption ==
  /\ Outcomes \subseteq Outcome
  /\ MaxSamples \in Nat
  /\ Unit \in Nat \ {0}
  /\ MinimumSamples \in Nat
  /\ Minimum \in [Metrics -> 0..Unit]
  /\ MaximumRepairs \in Nat
  /\ Delta \in 0..Unit

VARIABLE tally   \* tally[p]: the sums over the outcomes of version p

Tally == [samples : Nat, passes : [Metrics -> Nat], repairs : Nat]

TypeOK == tally \in [Prompts -> Tally]

Init == tally = [p \in Prompts |-> [samples |-> 0,
                                    passes |-> [m \in Metrics |-> 0],
                                    repairs |-> 0]]

\* Mutant of Passes: a workflow passes when its last review does.
PassesReview(o, m) == IF m = "workflow" THEN "review" \in o.passed
                                        ELSE m \in o.passed

\* workflow_pass: all four flags.
Passes(o, m) == IF m = "workflow" THEN o.passed = Stages ELSE m \in o.passed

\* Mutant of Add: no sum is kept for the workflow.
AddStages(t, o) ==
  [samples |-> t.samples + 1,
   passes  |-> [m \in Stages |-> t.passes[m] + (IF m \in o.passed THEN 1 ELSE 0)],
   repairs |-> t.repairs + o.repairs]

Add(t, o) ==
  [samples |-> t.samples + 1,
   passes  |-> [m \in Metrics |-> t.passes[m] + (IF Passes(o, m) THEN 1 ELSE 0)],
   repairs |-> t.repairs + o.repairs]

Record(p, o) == /\ tally[p].samples < MaxSamples
                /\ tally' = [tally EXCEPT ![p] = Add(@, o)]

Next == \E p \in Prompts, o \in Outcomes : Record(p, o)

Spec == Init /\ [][Next]_tally
-----------------------------------------------------------------------------
(***************************************************************************)
(* The decision.  Without samples every rate is 0.0.                       *)
(***************************************************************************)
Divisor(t) == IF t.samples = 0 THEN 1 ELSE t.samples

MeetsMinimum(t, m) == t.passes[m] * Unit >= Minimum[m] * Divisor(t)

MeetsThresholds(t) ==
  /\ \A m \in Metrics : MeetsMinimum(t, m)
  /\ t.repairs * Unit <= MaximumRepairs * Divisor(t)

\* Mutants of Lead: the delta is what a candidate may fall short of; the
\* candidate and the baseline are swapped.
LeadWithin(c, b) == c.passes["workflow"] * b.samples * Unit
  - (b.passes["workflow"] * Unit - Delta * b.samples) * Divisor(c)

LeadOfBaseline(c, b) == b.passes["workflow"] * Divisor(c) * Unit
  - (c.passes["workflow"] * Unit + Delta * Divisor(c)) * b.samples

\* How far the rate of c is ahead of the baseline's plus the delta, scaled.
Lead(c, b) == c.passes["workflow"] * b.samples * Unit
  - (b.passes["workflow"] * Unit + Delta * b.samples) * Divisor(c)

\* An empty list of outcomes is no baseline.
BeatsBaseline(c, b) ==
  IF b.samples = 0 THEN {TRUE}
  ELSE {beats \in BOOLEAN : \/ Lead(c, b) > 0 /\ beats
                            \/ Lead(c, b) < 0 /\ ~beats
                            \/ Lead(c, b) = 0 /\ (beats \/ Delta # 0)}

Decide(c, b) ==
  IF c.samples < MinimumSamples THEN {"keep_candidate"}
  ELSE IF ~MeetsThresholds(c) THEN {"reject"}
  ELSE {IF beats THEN "promote" ELSE "keep_candidate" :
          beats \in BeatsBaseline(c, b)}

MayPromote(c, b) == "promote" \in Decide(c, b)
-----------------------------------------------------------------------------
(***************************************************************************)
(* With a positive delta no two versions are each promoted over the other, *)
(* however the ties are rounded: promotion does not go round in circles.   *)
(***************************************************************************)
NoMutualPromotion ==
  Delta > 0 =>
    \A p, q \in Prompts :
      tally[p].samples > 0 /\ MayPromote(tally[p], tally[q])
        => tally[q].samples = 0 \/ ~MayPromote(tally[q], tally[p])

(***************************************************************************)
(* A run passes as a whole only if it passes every stage, so a version     *)
(* that meets the minimum of the workflow meets that of every stage that   *)
(* asks for no more: by the default policy, of all but the policy review.  *)
(***************************************************************************)
WorkflowRateBoundsStages ==
  \A p \in Prompts, s \in Stages :
    MeetsMinimum(tally[p], "workflow") /\ Minimum[s] <= Minimum["workflow"]
      => MeetsMinimum(tally[p], s)

\* The step records a run of p that passed without a repair.
Succeeds(p) ==
  tally' = [tally EXCEPT ![p] = Add(@, [passed |-> Stages, repairs |-> 0])]

(***************************************************************************)
(* One more run that passes without a repair never costs a version its     *)
(* promotion, neither by a rate nor by an average nor by the comparison.   *)
(***************************************************************************)
SuccessKeepsPromotion ==
  [][\A p, q \in Prompts :
       p # q /\ Succeeds(p) /\ MayPromote(tally[p], tally[q])
         => MayPromote(tally'[p], tally'[q])]_tally
=============================================================================
