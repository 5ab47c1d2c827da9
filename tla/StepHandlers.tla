--------------------------- MODULE StepHandlers ---------------------------
(***************************************************************************)
(* What the process methods of the seven services return.  The LLM is a    *)
(* free choice: of the class of code it writes, and of its verdict on it.  *)
(***************************************************************************)
EXTENDS WorkflowContracts

CONSTANTS
  GeneratedCode,       \* the classes of code the LLM writes
  RoutingActions       \* the values FAILURE_ROUTING_DEFAULT_ACTION takes: a
                       \* restart may change it

ASSUME HandlerAssumption == /\ GeneratedCode \in SUBSET (CodeClass \ {"absent"})
                            /\ RoutingActions \in SUBSET {"regenerate", "human_review"}

Proceed(content, next) ==
  [content |-> content, next |-> next, attempt |-> 1, terminal |-> None,
   event |-> None, failure |-> FALSE, override |-> None]

(***************************************************************************)
(* The result of a failed review goes to workflow-failures.in.             *)
(***************************************************************************)
ReviewFailed(content, event) ==
  [content |-> content, next |-> None, attempt |-> 1, terminal |-> "failed",
   event |-> event, failure |-> TRUE, override |-> None]

\* Mutant of ReviewPassed: failure_queue_name is set whatever the verdict.
ReviewPassedToFailureQueue(content) ==
  [content |-> content, next |-> None, attempt |-> 1,
   terminal |-> "completed", event |-> "workflow_completed",
   failure |-> TRUE, override |-> None]

ReviewPassed(content) ==
  [content |-> content, next |-> None, attempt |-> 1,
   terminal |-> "completed", event |-> "workflow_completed",
   failure |-> FALSE, override |-> None]

(***************************************************************************)
(* A review artifact: the input's code and prompt, the flags of the stages *)
(* before it that the handler names, and its own.                          *)
(***************************************************************************)
Reviewed(c, type, stage, carried, own) ==
  [c EXCEPT !.type = type, !.stage = stage,
            !.gates = (c.gates \cap carried) \cup own]

TicketToPrompt(c) ==
  {Proceed([c EXCEPT !.type = "prompt", !.prompt = TRUE, !.regen = 0,
                     !.code = "absent", !.gates = {}, !.stage = None],
           "prompt_to_code")}

(***************************************************************************)
(* preserved_input_content_keys keeps "prompt" and "ticket" alone, so      *)
(* regeneration_attempt starts over.                                       *)
(***************************************************************************)
PromptToCode(c) ==
  {Proceed([type |-> "code_artifact", prompt |-> c.prompt, regen |-> 0,
            code |-> code, gates |-> {}, stage |-> None], "test_runner") :
     code \in GeneratedCode}

TestRunner(c) ==
  IF c.code \in {"absent", "unfinished"}
    THEN {ReviewFailed(Reviewed(c, "test_result", "test_runner", {}, {}),
                       "review_failed_test")}
    ELSE {Proceed(Reviewed(c, "test_result", "test_runner", {},
                           {"test_pass"}), "requirements_review")}

RequirementsReview(c) ==
  LET result(own) == Reviewed(c, "requirements_review_result",
                              "requirements_review", {"test_pass"}, own)
  IN  {Proceed(result({"requirements_pass"}), "policy_review"),
       ReviewFailed(result({}), "review_failed_requirements")}

\* Mutant of PolicyReview: requirements_pass is not carried over.
PolicyReviewDropsFlag(c) ==
  LET result(own) == Reviewed(c, "policy_review_result", "policy_review",
                              {"test_pass"}, own)
  IN  IF c.code = "oversized"
        THEN {ReviewFailed(result({}), "review_failed_policy")}
        ELSE {Proceed(result({"policy_pass"}), "code_review")}

\* Mutant of PolicyReview: the size of the files is not looked at.
PolicyReviewIgnoresSize(c) ==
  {Proceed(Reviewed(c, "policy_review_result", "policy_review",
                    {"test_pass", "requirements_pass"}, {"policy_pass"}),
           "code_review")}

PolicyReview(c) ==
  LET result(own) == Reviewed(c, "policy_review_result", "policy_review",
                              {"test_pass", "requirements_pass"}, own)
  IN  IF c.code = "oversized"
        THEN {ReviewFailed(result({}), "review_failed_policy")}
        ELSE {Proceed(result({"policy_pass"}), "code_review")}

CodeReview(c) ==
  LET result(own) ==
        Reviewed(c, "review_result", "code_review",
                 {"test_pass", "requirements_pass", "policy_pass"}, own)
  IN  {ReviewPassed(result({"general_review_pass"})),
       ReviewFailed(result({}), "review_failed_general")}

\* Mutant of RouteFailure: every failed run is marked running and goes to a
\* human.
RouteFailureReopens(c, action) ==
  [Proceed([c EXCEPT !.type = "failure_result"], "human_review")
     EXCEPT !.override = "running"]

RouteFailure(c, action) ==
  IF action = "regenerate" /\ c.regen < 1 /\ c.prompt
    THEN [Proceed([type |-> "prompt", prompt |-> TRUE, regen |-> c.regen + 1,
                   code |-> "absent", gates |-> {}, stage |-> None],
                  "prompt_to_code")
            EXCEPT !.attempt = 2, !.override = "running"]
    ELSE [Proceed([c EXCEPT !.type = "failure_result"], "human_review")
            EXCEPT !.override = "failed"]

FailureRouting(c) == {RouteFailure(c, action) : action \in RoutingActions}

(***************************************************************************)
(* No service handles human_review steps.                                  *)
(***************************************************************************)
HandlerResults(type, c) ==
  CASE type = "ticket_to_prompt"    -> TicketToPrompt(c)
    [] type = "prompt_to_code"      -> PromptToCode(c)
    [] type = "test_runner"         -> TestRunner(c)
    [] type = "requirements_review" -> RequirementsReview(c)
    [] type = "policy_review"       -> PolicyReview(c)
    [] type = "code_review"         -> CodeReview(c)
    [] type = "failure_routing"     -> FailureRouting(c)
    [] type = "human_review"        -> {}
==========================================================================
