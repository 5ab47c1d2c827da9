------------------------ MODULE WorkflowContracts ------------------------
(***************************************************************************)
(* The vocabulary the services share: step types, statuses, artifacts,     *)
(* messages and the result a step handler returns.                         *)
(*                                                                         *)
(* An artifact row is written once and never changed, so an artifact id is *)
(* modelled by the row it names.  Of the content only what some service    *)
(* branches on is kept.  A step id is modelled by the (run, type, attempt) *)
(* triple that workflow_steps_idempotency_idx makes unique.                *)
(***************************************************************************)
EXTENDS Naturals

CONSTANTS Runs,        \* the workflow run ids
          NoArtifact   \* the NULL of an artifact column

None == "none"         \* the None of an optional field

WorkflowStatus == {"pending", "running", "completed", "failed"}

StepStatus == {"pending", "running", "completed", "failed"}

StepType == {"ticket_to_prompt", "prompt_to_code", "test_runner",
             "requirements_review", "policy_review", "code_review",
             "failure_routing", "human_review"}

ArtifactType == {"source_ticket", "prompt", "code_artifact", "test_result",
                 "requirements_review_result", "policy_review_result",
                 "review_result", "failure_result"}

(***************************************************************************)
(* The *_pass flags a review artifact accumulates.                         *)
(***************************************************************************)
Gates == {"test_pass", "requirements_pass", "policy_pass",
          "general_review_pass"}

(***************************************************************************)
(* The generated files, up to the deterministic checks run on them:        *)
(* "unfinished" is refused by the test runner (empty or placeholder code), *)
(* "oversized" by the policy review, "clean" by neither.                   *)
(***************************************************************************)
CodeClass == {"absent", "clean", "unfinished", "oversized"}

Content == [type   : ArtifactType,
            prompt : BOOLEAN,                 \* a non-empty prompt is present
            regen  : 0..1,                    \* regeneration_attempt
            code   : CodeClass,
            gates  : SUBSET Gates,            \* the flags that are true
            stage  : StepType \cup {None}]    \* review_stage

Artifact == [run : Runs, content : Content]

(***************************************************************************)
(* 1 and 2 are the attempt numbers the handlers ask for.                   *)
(***************************************************************************)
Attempt == {1, 2}

StepKey == [run : Runs, type : StepType, attempt : Attempt]

\* Mutant of FirstAttempt: attempts are counted from zero.
FirstAttemptIsZero(r, t) == [run |-> r, type |-> t, attempt |-> 0]

FirstAttempt(r, t) == [run |-> r, type |-> t, attempt |-> 1]

(***************************************************************************)
(* A message on a stage queue.  workflow_run_id and step_type are those of *)
(* the step it names; the attempt and trace_id fields are read by nobody.  *)
(* The tag is the broker's: publication order.                             *)
(***************************************************************************)
WorkflowMessage == [tag : Nat, step : StepKey, input : Artifact]

TerminalEvents == {"workflow_completed", "workflow_terminated",
                   "review_failed_test", "review_failed_requirements",
                   "review_failed_policy", "review_failed_general"}

\* The events of the trail that report a verdict or a hand-off.
EventType == TerminalEvents \cup
             {"next_step_published", "workflow_failure_published"}

StepResult == [content  : Content,
               next     : StepType \cup {None},
               attempt  : Attempt,
               terminal : WorkflowStatus \cup {None},
               event    : TerminalEvents \cup {None},
               failure  : BOOLEAN,            \* failure_queue_name is set
               override : WorkflowStatus \cup {None}]
==========================================================================
