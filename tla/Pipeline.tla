----------------------------- MODULE Pipeline -----------------------------
(***************************************************************************)
(* The deployed pipeline: step workers running the services' handlers.     *)
(***************************************************************************)
EXTENDS StepWorker, StepHandlers

ASSUME HandlersAssumption ==
  \A t \in StepType, c \in Content : Results(t, c) = HandlerResults(t, c)

Regeneration(r) == [FirstAttempt(r, "prompt_to_code") EXCEPT !.attempt = 2]

HumanReview(r) == FirstAttempt(r, "human_review")

ReviewStages == {"test_runner", "requirements_review", "policy_review",
                 "code_review"}

(***************************************************************************)
(* A run is completed only if one artifact of it passed all four gates,    *)
(* and then its code is fit for both deterministic reviews: each flag was  *)
(* set by its own service and carried by the services after it.            *)
(***************************************************************************)
CompletedRunPassedEveryGate ==
  \A r \in Runs :
    runs[r] = "completed" =>
      \E a \in artifacts : /\ a.run = r
                           /\ a.content.type = "review_result"
                           /\ a.content.gates = Gates
                           /\ a.content.code = "clean"

\* The flags of the stages before a review stage.
GatesBefore(type) ==
  CASE type = "requirements_review" -> {"test_pass"}
    [] type = "policy_review" -> {"test_pass", "requirements_pass"}
    [] type = "code_review" -> {"test_pass", "requirements_pass",
                                "policy_pass"}
    [] OTHER -> {}

(***************************************************************************)
(* Each review stage is handed an artifact with the flags of exactly the   *)
(* stages before it, whatever was retried, and failure routing is handed   *)
(* a failed review with the prompt it may have to send back.               *)
(***************************************************************************)
StagesReceivePassedWork ==
  \A m \in Messages :
    /\ m.step.type \in ReviewStages =>
         m.input.content.gates = GatesBefore(m.step.type)
    /\ m.step.type = "failure_routing" =>
         m.input.content.stage \in ReviewStages /\ m.input.content.prompt

\* The steps the worker of step k may publish.
Successors(k) ==
  CASE k.type = "ticket_to_prompt"    -> {FirstAttempt(k.run, "prompt_to_code")}
    [] k.type = "prompt_to_code"      -> {FirstAttempt(k.run, "test_runner")}
    [] k.type = "test_runner"         -> {FirstAttempt(k.run, "requirements_review")}
    [] k.type = "requirements_review" -> {FirstAttempt(k.run, "policy_review")}
    [] k.type = "policy_review"       -> {FirstAttempt(k.run, "code_review")}
    [] k.type = "failure_routing"     ->
         {Regeneration(k.run), HumanReview(k.run)}
    [] OTHER -> {}

(***************************************************************************)
(* The audit trail tells the truth: an event that says a hand-off was      *)
(* published, or that a run has its verdict, is never found without the    *)
(* rows it reports, although each event is written by a call of its own.   *)
(***************************************************************************)
AuditTrailTruthful ==
  \A e \in events :
    /\ e.type = "next_step_published" =>
         \E k \in Successors(e.step) : Exists(k)
    /\ e.type = "workflow_failure_published" =>
         Exists(FirstAttempt(e.step.run, "failure_routing"))
    /\ e.type \in TerminalEvents =>
         runs[e.step.run] \in {"completed", "failed"}

\* Run r has a verdict.
Judged(r) == runs[r] \in {"completed", "failed"}

(***************************************************************************)
(* The verdict on a run is taken back by nobody but the failure routing    *)
(* that sends its work back to prompt-to-code, and only when it was a      *)
(* failure.  It takes a run without faults: a review that is retried may   *)
(* answer differently.                                                     *)
(***************************************************************************)
VerdictIsFinal ==
  [][\A r \in Runs :
       Judged(r) /\ runs'[r] # runs[r] =>
         /\ runs[r] = "failed"
         /\ \E w \in Workers : /\ pc[w] = "override"
                              /\ NextStep(w) = Regeneration(r)]_vars

(***************************************************************************)
(* Every accepted run gets a verdict: the stages hand it on until one of   *)
(* them ends it, and a call that fails is made again.                      *)
(***************************************************************************)
EveryRunIsJudged == \A r \in Runs : request[r] = "done" ~> Judged(r)

(***************************************************************************)
(* README: after a failed review the work goes back to prompt-to-code once *)
(* more, or to human review.                                               *)
(***************************************************************************)
FailedRunsAreRouted ==
  \A r \in Runs : runs[r] = "failed" ~> \/ Exists(Regeneration(r))
                                         \/ Exists(HumanReview(r))

\* The flags of a review stage that passed.
GatesAfter(type) ==
  CASE type = "test_runner"         -> {"test_pass"}
    [] type = "requirements_review" -> GatesBefore("policy_review")
    [] type = "policy_review"       -> GatesBefore("code_review")
    [] type = "code_review"         -> Gates

FailedReview(k) == /\ k.type \in ReviewStages
                   /\ StatusOf(k) = "completed"
                   /\ steps[k].output.content.gates # GatesAfter(k.type)

(***************************************************************************)
(* README: if any review stage fails, the failure artifact is published to *)
(* workflow-failures.in.  A review failed when its own flag is missing.    *)
(***************************************************************************)
FailuresArePublished ==
  \A r \in Runs, t \in ReviewStages :
    FailedReview(FirstAttempt(r, t))
      ~> Exists(FirstAttempt(r, "failure_routing"))

(***************************************************************************)
(* Nothing is regenerated, or sent to a human, unless a review of the run  *)
(* has failed: the failure that is routed is an artifact some review       *)
(* stored without its own flag, whatever was retried or redelivered.       *)
(***************************************************************************)
RoutedOnFailureOnly ==
  \A r \in Runs :
    Exists(Regeneration(r)) \/ Exists(HumanReview(r)) =>
      \E a \in artifacts : /\ a.run = r
                           /\ a.content.stage \in ReviewStages
                           /\ a.content.gates # GatesAfter(a.content.stage)

\* The regenerated code of run r is such that test-runner refuses it.
FailedRegeneration(r) ==
  /\ StatusOf(Regeneration(r)) = "completed"
  /\ \A res \in TestRunner(steps[Regeneration(r)].output.content) : res.failure

(***************************************************************************)
(* README: failure-routing routes to human-review.in after any failed      *)
(* regeneration attempt.  The code hands the regenerated artifact to the   *)
(* first attempt of test_runner, which is completed, so that nobody may    *)
(* claim it: the regeneration is not reviewed.                             *)
(***************************************************************************)
FailedRegenerationsReachAHuman ==
  \A r \in Runs : FailedRegeneration(r) ~> Exists(HumanReview(r))
==========================================================================
