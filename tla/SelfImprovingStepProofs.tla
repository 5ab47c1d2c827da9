----------------------- MODULE SelfImprovingStepProofs -----------------------
(***************************************************************************)
(* The two loops of SelfImprovingStep keep their promises for every pair   *)
(* of limits and every answer of the judge.                                *)
(***************************************************************************)
EXTENDS SelfImprovingStep, TLAPS

(* What holds between the loop of evaluations and the phases: before each   *)
(* evaluation the judgements so far are one per refinement and all failed;  *)
(* after it there is one more, of the prompt in use.                        *)
PromptLoop ==
    /\ refinements <= MaxRefinements
    /\ prompt = refinements
    /\ phase = "evaluate" =>
        /\ Len(evaluations) = refinements
        /\ \A i \in 1 .. Len(evaluations) : ~evaluations[i].passed
    /\ phase \in {"refine", "task", "check", "repair", "returned"} =>
        /\ Len(evaluations) = refinements + 1
        /\ evaluations[Len(evaluations)].of = prompt
        /\ \A i \in 1 .. Len(evaluations) - 1 : ~evaluations[i].passed
    /\ phase = "refine" =>
        /\ ~evaluations[Len(evaluations)].passed
        /\ refinements < MaxRefinements
    /\ phase \in {"task", "check", "repair", "returned"} =>
        evaluations[Len(evaluations)].passed \/ refinements = MaxRefinements

(* The same for the loop of checks. *)
OutputLoop ==
    /\ repairs <= MaxRepairs
    /\ phase \in {"evaluate", "refine", "task"} =>
        output = 0 /\ repairs = 0 /\ Len(checks) = 0
    /\ phase \in {"check", "repair"} => ChecksOutput
    /\ phase = "check" =>
        /\ output = repairs + 1
        /\ Len(checks) = repairs
        /\ \A i \in 1 .. Len(checks) : ~checks[i].passed
    /\ phase = "repair" =>
        /\ output = repairs + 1
        /\ Len(checks) = repairs + 1
        /\ \A i \in 1 .. Len(checks) : ~checks[i].passed
        /\ RepairsOutput
        /\ repairs < MaxRepairs
    /\ phase = "returned" /\ ChecksOutput =>
        /\ output = repairs + 1
        /\ Len(checks) = repairs + 1
        /\ checks[Len(checks)].of = output
        /\ \A i \in 1 .. Len(checks) - 1 : ~checks[i].passed
        /\ checks[Len(checks)].passed \/ ~RepairsOutput \/ repairs = MaxRepairs

(* How many calls were made, and at most how many of each kind. *)
CallCount ==
    /\ calls = Len(evaluations) + refinements
               + (IF output > 0 THEN 1 ELSE 0) + Len(checks) + repairs
    /\ Len(evaluations) <= MaxRefinements + 1
    /\ Len(checks) <= MaxRepairs + 1

LoopInv == TypeOK /\ PromptLoop /\ OutputLoop /\ CallCount

(* Appending a judgement leaves the earlier ones where they are. *)
LEMMA Judged ==
    ASSUME NEW s \in Seq(Judgement), NEW j \in Judgement
    PROVE  /\ Append(s, j) \in Seq(Judgement)
           /\ Len(Append(s, j)) = Len(s) + 1
           /\ Len(s) \in Nat
           /\ Append(s, j)[Len(s) + 1] = j
           /\ \A i \in 1 .. Len(s) : Append(s, j)[i] = s[i]
  OBVIOUS

(* Whatever is read from an answer has a verdict.                           *)
LEMMA VerdictTyped ==
    ASSUME NEW p \in Payload
    PROVE  EvaluationPasses(p) \in BOOLEAN /\ CheckPasses(p) \in BOOLEAN
<1>1. CASE p.score = Missing
  BY <1>1 DEF EvaluationPasses, CheckPasses
<1>2. CASE p.score # Missing
  BY <1>2, JudgeAssumption DEF Payload, ScoresRead, EvaluationPasses, CheckPasses
<1>3. QED
  BY <1>1, <1>2

LEMMA LoopInit == Init => LoopInv
  BY LimitAssumption DEF Init, LoopInv, TypeOK, Phases, PromptLoop, OutputLoop, CallCount

LEMMA EvaluateKeepsLoop == LoopInv /\ Evaluate => LoopInv'
<1> SUFFICES ASSUME LoopInv, Evaluate
             PROVE  LoopInv'
  OBVIOUS
<1>1. PICK payload \in Payload :
          /\ evaluations' = Append(evaluations,
                [of |-> prompt, passed |-> EvaluationPasses(payload)])
          /\ phase' = AfterEvaluation(EvaluationPasses(payload))
  BY DEF Evaluate
<1> DEFINE passed == EvaluationPasses(payload)
           judgement == [of |-> prompt, passed |-> passed]
<1>2. passed \in BOOLEAN
  BY VerdictTyped
<1>3. judgement \in Judgement
  BY <1>2 DEF Judgement, LoopInv, TypeOK
<1>4. /\ evaluations' \in Seq(Judgement)
      /\ Len(evaluations) \in Nat
      /\ Len(evaluations') = Len(evaluations) + 1
      /\ evaluations'[Len(evaluations) + 1] = judgement
      /\ \A i \in 1 .. Len(evaluations) : evaluations'[i] = evaluations[i]
  BY <1>1, <1>3, Judged DEF LoopInv, TypeOK
<1>5. /\ phase = "evaluate"
      /\ calls' = calls + 1
      /\ UNCHANGED <<prompt, output, checks, refinements, repairs>>
  BY DEF Evaluate, Answered
<1>6. \/ phase' = "task" /\ (passed \/ refinements >= MaxRefinements)
      \/ phase' = "refine" /\ ~passed /\ refinements < MaxRefinements
  BY <1>1, LimitAssumption DEF AfterEvaluation, LoopInv, TypeOK
<1> HIDE DEF passed
<1>7. TypeOK'
  BY <1>4, <1>5, <1>6 DEF LoopInv, TypeOK, Phases
<1>8. PromptLoop'
  BY <1>4, <1>5, <1>6, LimitAssumption DEF LoopInv, TypeOK, PromptLoop
<1>9. OutputLoop'
  BY <1>5, <1>6 DEF LoopInv, OutputLoop
<1>10. CallCount'
  <2>1. Len(evaluations) = refinements /\ refinements <= MaxRefinements
    BY <1>5 DEF LoopInv, PromptLoop
  <2>2. Len(checks) \in Nat
    BY DEF LoopInv, TypeOK
  <2>3. QED
    BY <1>4, <1>5, <2>1, <2>2, LimitAssumption DEF LoopInv, TypeOK, CallCount
<1>11. QED
  BY <1>7, <1>8, <1>9, <1>10 DEF LoopInv

LEMMA RefineKeepsLoop == LoopInv /\ Refine => LoopInv'
<1> SUFFICES ASSUME LoopInv, Refine
             PROVE  LoopInv'
  OBVIOUS
<1> USE DEF LoopInv, Refine, Answered, AfterRefinement
<1>1. TypeOK'
  BY DEF TypeOK, Phases
<1>2. PromptLoop'
  BY LimitAssumption DEF TypeOK, PromptLoop
<1>3. OutputLoop'
  BY DEF OutputLoop
<1>4. CallCount'
  BY DEF TypeOK, CallCount
<1>5. QED
  BY <1>1, <1>2, <1>3, <1>4

LEMMA RunTaskKeepsLoop == LoopInv /\ RunTask => LoopInv'
<1> SUFFICES ASSUME LoopInv, RunTask
             PROVE  LoopInv'
  OBVIOUS
<1> USE DEF LoopInv, RunTask, Answered
<1>1. TypeOK'
  BY DEF TypeOK, Phases
<1>2. PromptLoop'
  BY DEF PromptLoop
<1>3. OutputLoop'
  BY LimitAssumption DEF TypeOK, OutputLoop
<1>4. CallCount'
  BY DEF TypeOK, OutputLoop, CallCount
<1>5. QED
  BY <1>1, <1>2, <1>3, <1>4

LEMMA CheckKeepsLoop == LoopInv /\ CheckOutput => LoopInv'
<1> SUFFICES ASSUME LoopInv, CheckOutput
             PROVE  LoopInv'
  OBVIOUS
<1>1. PICK payload \in Payload :
          /\ checks' = Append(checks, [of |-> output,
                                       passed |-> CheckPasses(payload)])
          /\ phase' = AfterCheck(CheckPasses(payload))
  BY DEF CheckOutput
<1> DEFINE passed == CheckPasses(payload)
           judgement == [of |-> output, passed |-> passed]
<1>2. passed \in BOOLEAN
  BY VerdictTyped
<1>3. judgement \in Judgement
  BY <1>2 DEF Judgement, LoopInv, TypeOK
<1>4. /\ checks' \in Seq(Judgement)
      /\ Len(checks) \in Nat
      /\ Len(checks') = Len(checks) + 1
      /\ checks'[Len(checks) + 1] = judgement
      /\ \A i \in 1 .. Len(checks) : checks'[i] = checks[i]
  BY <1>1, <1>3, Judged DEF LoopInv, TypeOK
<1>5. /\ phase = "check"
      /\ calls' = calls + 1
      /\ UNCHANGED <<prompt, evaluations, output, refinements, repairs>>
  BY DEF CheckOutput, Answered
<1>6. \/ phase' = "returned" /\ (passed \/ ~RepairsOutput \/ repairs >= MaxRepairs)
      \/ phase' = "repair" /\ ~passed /\ RepairsOutput /\ repairs < MaxRepairs
  BY <1>1, LimitAssumption DEF AfterCheck, LoopInv, TypeOK
<1> HIDE DEF passed
<1>7. TypeOK'
  BY <1>4, <1>5, <1>6 DEF LoopInv, TypeOK, Phases
<1>8. PromptLoop'
  BY <1>5, <1>6 DEF LoopInv, PromptLoop
<1>9. OutputLoop'
  BY <1>4, <1>5, <1>6, LimitAssumption DEF LoopInv, TypeOK, OutputLoop
<1>10. CallCount'
  BY <1>4, <1>5, LimitAssumption DEF LoopInv, TypeOK, OutputLoop, CallCount
<1>11. QED
  BY <1>7, <1>8, <1>9, <1>10 DEF LoopInv

LEMMA RepairKeepsLoop == LoopInv /\ RepairOutput => LoopInv'
<1> SUFFICES ASSUME LoopInv, RepairOutput
             PROVE  LoopInv'
  OBVIOUS
<1> USE DEF LoopInv, RepairOutput, Answered
<1>1. TypeOK'
  BY DEF TypeOK, Phases
<1>2. PromptLoop'
  BY DEF PromptLoop
<1>3. OutputLoop'
  BY LimitAssumption DEF TypeOK, OutputLoop
<1>4. CallCount'
  <2>1. /\ Len(evaluations) \in Nat
        /\ Len(checks) \in Nat
        /\ output > 0
        /\ output' > 0
    BY DEF TypeOK, OutputLoop
  <2>2. QED
    BY <2>1 DEF TypeOK, CallCount
<1>5. QED
  BY <1>1, <1>2, <1>3, <1>4

LEMMA LoopStep == LoopInv /\ [Next]_vars => LoopInv'
<1> SUFFICES ASSUME LoopInv, [Next]_vars
             PROVE  LoopInv'
  OBVIOUS
<1>1. CASE Evaluate
  BY <1>1, EvaluateKeepsLoop
<1>2. CASE Refine
  BY <1>2, RefineKeepsLoop
<1>3. CASE RunTask
  BY <1>3, RunTaskKeepsLoop
<1>4. CASE CheckOutput
  BY <1>4, CheckKeepsLoop
<1>5. CASE RepairOutput
  BY <1>5, RepairKeepsLoop
<1>6. CASE Raise
  BY <1>6 DEF Raise, LoopInv, TypeOK, Phases, PromptLoop, OutputLoop, CallCount
<1>7. CASE UNCHANGED vars
  BY <1>7 DEF vars, LoopInv, TypeOK, PromptLoop, OutputLoop, CallCount
<1>8. QED
  BY <1>1, <1>2, <1>3, <1>4, <1>5, <1>6, <1>7 DEF Next

LEMMA LoopInvariant == Spec => []LoopInv
  BY LoopInit, LoopStep, PTL DEF Spec

(* Every variable keeps its type: the lists hold verdicts on versions of a    *)
(* text, and process is at one of its calls or over.                          *)
THEOREM TypeCorrect == Spec => []TypeOK
<1>1. LoopInv => TypeOK
  BY DEF LoopInv
<1>2. QED
  BY <1>1, LoopInvariant, PTL

(* The task of prompt-to-code runs on the prompt judged last, which passed or *)
(* used up every refinement, whatever the limits and the judge.               *)
THEOREM TaskPromptIsJudgedHolds == Spec => []TaskPromptIsJudged
<1>1. LoopInv => TaskPromptIsJudged
  BY DEF LoopInv, PromptLoop, TaskPromptIsJudged, OnlyLatestPassed, Latest
<1>2. QED
  BY <1>1, LoopInvariant, PTL

(* The output prompt-to-code returns is the one checked last, which passed or *)
(* had no repair left.                                                        *)
THEOREM ReturnedOutputIsJudgedHolds == Spec => []ReturnedOutputIsJudged
<1>1. LoopInv => ReturnedOutputIsJudged
  BY DEF LoopInv, OutputLoop, ReturnedOutputIsJudged, OnlyLatestPassed, Latest
<1>2. QED
  BY <1>1, LoopInvariant, PTL

(* The calls of the model in one process are bounded by its two limits. *)
THEOREM CallsAreBoundedHolds == Spec => []CallsAreBounded
<1>1. LoopInv => CallsAreBounded
  <2> SUFFICES ASSUME LoopInv
               PROVE  CallsAreBounded
    OBVIOUS
  <2>1. /\ Len(evaluations) \in Nat
        /\ Len(checks) \in Nat
    BY DEF LoopInv, TypeOK
  <2>2. QED
    BY <2>1, LimitAssumption DEF LoopInv, TypeOK, PromptLoop, OutputLoop, CallCount, CallsAreBounded
<1>2. QED
  BY <1>1, LoopInvariant, PTL
=============================================================================
