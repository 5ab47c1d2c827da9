-------------------------- MODULE SelfImprovingStep --------------------------
(***************************************************************************)
(* SelfImprovingLLMStepHandler.process, the handler behind prompt-to-code: *)
(* a judge model scores the prompt and has it refined until it passes or   *)
(* the refinements are spent; the task runs; a judge model checks the      *)
(* output and has it repaired likewise.                                    *)
(*                                                                         *)
(* A text is the number of its version, and an answer of the judge is the  *)
(* object that is read from it.  Any call of the model may raise, which    *)
(* ends process and reaches the except block of StepWorker.                *)
(***************************************************************************)
EXTENDS Integers, Sequences

CONSTANTS
    Scores,          \* the scores a judge may give
    Missing,         \* no readable value
    PassScore,       \* prompt_pass_score
    MaxRefinements,  \* max_prompt_refinement_iterations
    MaxRepairs,      \* max_output_repair_iterations
    ChecksOutput,    \* whether output_check_system_prompt is set
    RepairsOutput    \* whether output_repair_system_prompt is set

ASSUME JudgeAssumption ==
    /\ Scores \subseteq Int
    /\ Missing \notin Scores
    /\ Missing \notin BOOLEAN
    /\ PassScore \in Int

ASSUME LimitAssumption ==
    /\ MaxRefinements \in Nat
    /\ MaxRepairs \in Nat
    /\ ChecksOutput \in BOOLEAN
    /\ RepairsOutput \in BOOLEAN

VARIABLES
    phase,         \* the call of the model process makes next, or how it ended
    prompt,        \* the version of the prompt in use, counted from 0
    evaluations,   \* prompt_evaluations: the prompt judged and the verdict
    output,        \* the version of the output, 0 before the task ran
    checks,        \* output_checks: the output judged and the verdict
    refinements,   \* refinements_completed
    repairs,       \* repairs_completed
    calls          \* the calls of the model that were answered

vars == <<phase, prompt, evaluations, output, checks, refinements, repairs, calls>>

Phases == {"evaluate", "refine", "task", "check", "repair", "returned", "raised"}

Judgement == [of : Nat, passed : BOOLEAN]

TypeOK ==
    /\ phase \in Phases
    /\ prompt \in Nat
    /\ evaluations \in Seq(Judgement)
    /\ output \in Nat
    /\ checks \in Seq(Judgement)
    /\ refinements \in Nat
    /\ repairs \in Nat
    /\ calls \in Nat

Init ==
    /\ phase = "evaluate"
    /\ prompt = 0
    /\ evaluations = <<>>
    /\ output = 0
    /\ checks = <<>>
    /\ refinements = 0
    /\ repairs = 0
    /\ calls = 0

(* _bool_or_default and _int_or_none read a value, or find it Missing. *)
Flags == BOOLEAN \cup {Missing}

ScoresRead == Scores \cup {Missing}

(* _extract_json_object takes the first complete object of the answer, with   *)
(* whatever keys it has: the judge's own, one quoted before it, one nested in *)
(* it when the answer is cut, or the empty dictionary when there is none.  So *)
(* any flag and any score may be read, or be missing, whatever was meant.     *)
Payload == [flag : Flags, score : ScoresRead]

(* The score of a prompt decides, then the flag; with neither it fails. *)
EvaluationPasses(payload) ==
    IF payload.score = Missing THEN payload.flag = TRUE ELSE payload.score >= PassScore

(* The flag of a check decides; without one the output passes. *)
CheckPasses(payload) == payload.flag # FALSE

(* The call of the current phase is answered. *)
Answered(from) ==
    /\ phase = from
    /\ calls' = calls + 1

(* Mutant of AfterEvaluation: a refinement more than the limit. *)
RefinesOnceMore(passed) ==
    IF passed \/ refinements > MaxRefinements THEN "task" ELSE "refine"

AfterEvaluation(passed) ==
    IF passed \/ refinements >= MaxRefinements THEN "task" ELSE "refine"

(* Mutant of Evaluate: the raw flag is recorded in place of the verdict. *)
EvaluateRecordsFlag ==
    /\ Answered("evaluate")
    /\ \E payload \in Payload :
        /\ evaluations' = Append(evaluations, [of |-> prompt, passed |-> payload.flag])
        /\ phase' = AfterEvaluation(EvaluationPasses(payload))
    /\ UNCHANGED <<prompt, output, checks, refinements, repairs>>

Evaluate ==
    /\ Answered("evaluate")
    /\ \E payload \in Payload :
        LET passed == EvaluationPasses(payload) IN
        /\ evaluations' = Append(evaluations, [of |-> prompt, passed |-> passed])
        /\ phase' = AfterEvaluation(passed)
    /\ UNCHANGED <<prompt, output, checks, refinements, repairs>>

(* Mutant of AfterRefinement: the limit is looked at here as well. *)
TaskAfterLastRefinement ==
    IF refinements + 1 >= MaxRefinements THEN "task" ELSE "evaluate"

AfterRefinement == "evaluate"

Refine ==
    /\ Answered("refine")
    /\ prompt' = prompt + 1
    /\ refinements' = refinements + 1
    /\ phase' = AfterRefinement
    /\ UNCHANGED <<evaluations, output, checks, repairs>>

RunTask ==
    /\ Answered("task")
    /\ output' = 1
    /\ phase' = IF ChecksOutput THEN "check" ELSE "returned"
    /\ UNCHANGED <<prompt, evaluations, checks, refinements, repairs>>

AfterCheck(passed) ==
    IF passed \/ ~RepairsOutput \/ repairs >= MaxRepairs THEN "returned" ELSE "repair"

CheckOutput ==
    /\ Answered("check")
    /\ \E payload \in Payload :
        LET passed == CheckPasses(payload) IN
        /\ checks' = Append(checks, [of |-> output, passed |-> passed])
        /\ phase' = AfterCheck(passed)
    /\ UNCHANGED <<prompt, evaluations, output, refinements, repairs>>

(* Mutant of RepairOutput: the repaired output is returned at once. *)
RepairAndReturn ==
    /\ Answered("repair")
    /\ output' = output + 1
    /\ repairs' = repairs + 1
    /\ phase' = "returned"
    /\ UNCHANGED <<prompt, evaluations, checks, refinements>>

RepairOutput ==
    /\ Answered("repair")
    /\ output' = output + 1
    /\ repairs' = repairs + 1
    /\ phase' = "check"
    /\ UNCHANGED <<prompt, evaluations, checks, refinements>>

(* The model, or the connection to it, fails. *)
Raise ==
    /\ phase \notin {"returned", "raised"}
    /\ phase' = "raised"
    /\ UNCHANGED <<prompt, evaluations, output, checks, refinements, repairs, calls>>

Next == Evaluate \/ Refine \/ RunTask \/ CheckOutput \/ RepairOutput \/ Raise

Spec == Init /\ [][Next]_vars

-----------------------------------------------------------------------------
Latest(judgements) == judgements[Len(judgements)]

(* Every judgement but the last one failed: a passed text is never revised. *)
OnlyLatestPassed(judgements) ==
    \A i \in 1 .. Len(judgements) - 1 : ~judgements[i].passed

(* The task never runs on a prompt the judge has not seen: its prompt was     *)
(* evaluated last, and if it did not pass then every refinement is spent and  *)
(* no version before it passed either.                                        *)
TaskPromptIsJudged ==
    phase \in {"task", "check", "repair", "returned"} =>
        /\ Len(evaluations) = refinements + 1
        /\ Latest(evaluations).of = prompt
        /\ OnlyLatestPassed(evaluations)
        /\ Latest(evaluations).passed \/ refinements = MaxRefinements

(* Neither is an output returned that the judge has not seen, where there is *)
(* a judge: the output returned is the one checked last, and if it did not   *)
(* pass then no repair was left.                                             *)
ReturnedOutputIsJudged ==
    phase = "returned" /\ ChecksOutput =>
        /\ Len(checks) = repairs + 1
        /\ Latest(checks).of = output
        /\ OnlyLatestPassed(checks)
        /\ Latest(checks).passed \/ ~RepairsOutput \/ repairs = MaxRepairs

(* Whatever the judge answers, process makes no more calls than its two      *)
(* limits allow, and the lists it puts into the metadata account for each of *)
(* them: one per evaluation, refinement, task, check and repair.             *)
CallsAreBounded ==
    /\ calls <= 2 * MaxRefinements + 2 * MaxRepairs + 3
    /\ calls = Len(evaluations) + refinements
               + (IF output > 0 THEN 1 ELSE 0) + Len(checks) + repairs
=============================================================================
