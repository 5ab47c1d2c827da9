-------------------------- MODULE PipelineProofs --------------------------
(***************************************************************************)
(* Proofs about the deployed pipeline, for any number of runs, workers and *)
(* faults, whatever code and verdicts the LLM returns and however failure  *)
(* routing is configured.                                                  *)
(***************************************************************************)
EXTENDS Pipeline, StrandingProofs

(***************************************************************************)
(* What a step of type t is handed.                                        *)
(***************************************************************************)
InputFits(t, c) ==
  /\ t \notin {"ticket_to_prompt", "human_review"} => c.prompt
  /\ t \in ReviewStages => c.gates = GatesBefore(t)
  /\ t \in {"requirements_review", "policy_review", "code_review"} =>
       c.code \notin {"absent", "unfinished"}
  /\ t = "code_review" => c.code # "oversized"
  /\ t = "failure_routing" =>
       c.stage \in ReviewStages /\ c.gates # GatesAfter(c.stage)

(***************************************************************************)
(* What the handlers return.                                               *)
(***************************************************************************)
LEMMA ReviewedFields ==
  ASSUME NEW c \in Content, NEW type, NEW stage, NEW carried, NEW own
  PROVE  LET a == Reviewed(c, type, stage, carried, own)
         IN  /\ a.type = type /\ a.stage = stage /\ a.prompt = c.prompt
             /\ a.code = c.code /\ a.gates = (c.gates \cap carried) \cup own
BY DEF Reviewed, Content

\* A review passes its work on with its own flag, or fails it without.
Passes(res, c, next, flags) ==
  /\ res.next = next /\ res.attempt = 1 /\ res.terminal = None /\ res.override = None
  /\ ~res.failure
  /\ res.content.prompt = c.prompt /\ res.content.code = c.code
  /\ res.content.gates = flags

Fails(res, c, stage, flags) ==
  /\ res.next = None /\ res.terminal = "failed" /\ res.failure
  /\ res.content.prompt = c.prompt
  /\ res.content.stage = stage
  /\ res.content.gates = flags

LEMMA TestRunnerResults ==
  ASSUME NEW c \in Content, NEW res \in TestRunner(c)
  PROVE  \/ /\ Passes(res, c, "requirements_review", {"test_pass"})
            /\ c.code \notin {"absent", "unfinished"}
         \/ Fails(res, c, "test_runner", {})
BY ReviewedFields DEF TestRunner, Proceed, ReviewFailed, Passes, Fails, None

LEMMA RequirementsReviewResults ==
  ASSUME NEW c \in Content, c.gates = {"test_pass"}, NEW res \in RequirementsReview(c)
  PROVE  \/ Passes(res, c, "policy_review", {"test_pass", "requirements_pass"})
         \/ Fails(res, c, "requirements_review", {"test_pass"})
<1>1. c.gates \cap {"test_pass"} = {"test_pass"}
  OBVIOUS
<1> QED
  BY <1>1, ReviewedFields
     DEF RequirementsReview, Proceed, ReviewFailed, Passes, Fails, None

LEMMA PolicyReviewResults ==
  ASSUME NEW c \in Content, c.gates = {"test_pass", "requirements_pass"},
         NEW res \in PolicyReview(c)
  PROVE  \/ /\ Passes(res, c, "code_review",
                      {"test_pass", "requirements_pass", "policy_pass"})
            /\ c.code # "oversized"
         \/ Fails(res, c, "policy_review", {"test_pass", "requirements_pass"})
<1>1. c.gates \cap {"test_pass", "requirements_pass"} = {"test_pass", "requirements_pass"}
  OBVIOUS
<1> QED
  BY <1>1, ReviewedFields
     DEF PolicyReview, Proceed, ReviewFailed, Passes, Fails, None

LEMMA CodeReviewResults ==
  ASSUME NEW c \in Content, c.gates = {"test_pass", "requirements_pass", "policy_pass"},
         NEW res \in CodeReview(c)
  PROVE  \/ /\ res.next = None /\ res.terminal = "completed" /\ ~res.failure
            /\ res.content.type = "review_result"
            /\ res.content.code = c.code
            /\ res.content.gates = Gates
         \/ Fails(res, c, "code_review",
                  {"test_pass", "requirements_pass", "policy_pass"})
<1>1. /\ c.gates \cap {"test_pass", "requirements_pass", "policy_pass"}
           = {"test_pass", "requirements_pass", "policy_pass"}
      /\ Gates = {"test_pass", "requirements_pass", "policy_pass"}
                   \cup {"general_review_pass"}
  BY DEF Gates
<1> QED
  BY <1>1, ReviewedFields DEF CodeReview, ReviewPassed, ReviewFailed, Fails, None

LEMMA PromptResults ==
  ASSUME NEW c \in Content, NEW res
  PROVE  /\ res \in TicketToPrompt(c) =>
              /\ res.next = "prompt_to_code" /\ res.attempt = 1 /\ res.terminal = None
              /\ ~res.failure /\ res.override = None /\ res.content.prompt
         /\ res \in PromptToCode(c) =>
              /\ res.next = "test_runner" /\ res.attempt = 1 /\ res.terminal = None
              /\ ~res.failure /\ res.override = None
              /\ res.content.prompt = c.prompt /\ res.content.gates = {}
<1>1. ASSUME res \in TicketToPrompt(c)
      PROVE  /\ res.next = "prompt_to_code" /\ res.attempt = 1 /\ res.terminal = None
             /\ ~res.failure /\ res.override = None /\ res.content.prompt
  <2> PICK a : a = [c EXCEPT !.type = "prompt", !.prompt = TRUE, !.regen = 0,
                            !.code = "absent", !.gates = {}, !.stage = None]
    OBVIOUS
  <2>1. a.prompt = TRUE
    BY DEF Content
  <2>2. res = Proceed(a, "prompt_to_code")
    BY <1>1 DEF TicketToPrompt
  <2> QED
    BY <2>1, <2>2 DEF Proceed, None
<1>2. ASSUME res \in PromptToCode(c)
      PROVE  /\ res.next = "test_runner" /\ res.attempt = 1 /\ res.terminal = None
             /\ ~res.failure /\ res.override = None
             /\ res.content.prompt = c.prompt /\ res.content.gates = {}
  BY <1>2 DEF PromptToCode, Proceed, None
<1> QED
  BY <1>1, <1>2

\* Failure routing sends the work back, or hands it to a human.
SendsBack(res) ==
  /\ res.next = "prompt_to_code" /\ res.attempt = 2 /\ res.terminal = None
  /\ ~res.failure /\ res.override = "running"
  /\ res.content.type = "prompt" /\ res.content.prompt

AsksHuman(res) ==
  /\ res.next = "human_review" /\ res.attempt = 1 /\ res.terminal = None
  /\ ~res.failure /\ res.override = "failed"
  /\ res.content.type = "failure_result"

LEMMA FailureRoutingResults ==
  ASSUME NEW c \in Content, NEW res \in FailureRouting(c)
  PROVE  (SendsBack(res) /\ "regenerate" \in RoutingActions) \/ AsksHuman(res)
<1>1. PICK action \in RoutingActions : res = RouteFailure(c, action)
  BY DEF FailureRouting
<1>2. CASE action = "regenerate" /\ c.regen < 1 /\ c.prompt
  BY <1>1, <1>2 DEF RouteFailure, Proceed, SendsBack, None
<1>3. CASE ~(action = "regenerate" /\ c.regen < 1 /\ c.prompt)
  BY <1>1, <1>3 DEF RouteFailure, Proceed, AsksHuman, None, Content
<1> QED
  BY <1>2, <1>3

(***************************************************************************)
(* The handlers, each given what it expects: a result that ends the run    *)
(* carries a verdict, completed only for work that passed every gate; one  *)
(* that goes on is fit for the step it names, which is a successor; and    *)
(* only failure routing sends work back or to a human.                     *)
(***************************************************************************)
Ends(t, c, res) ==
  /\ res.next = None
  /\ \/ /\ res.terminal = "completed" /\ ~res.failure
        /\ t = "code_review"
        /\ res.content.type = "review_result"
        /\ res.content.code = c.code
        /\ res.content.gates = Gates
     \/ /\ res.terminal = "failed" /\ res.failure
        /\ t \in ReviewStages
        /\ InputFits("failure_routing", res.content)

GoesOn(t, res) ==
  /\ res.terminal = None /\ ~res.failure
  /\ res.next # None
  /\ InputFits(res.next, res.content)
  /\ \A k : k.type = t =>
       [run |-> k.run, type |-> res.next, attempt |-> res.attempt] \in Successors(k)
  /\ IF t = "failure_routing" THEN SendsBack(res) \/ AsksHuman(res)
                              ELSE /\ res.attempt = 1 /\ res.override = None
                                   /\ res.next # "human_review"

LEMMA HandlersKeepTheContract ==
  ASSUME NEW t \in StepType, NEW c \in Content, InputFits(t, c),
         NEW res \in HandlerResults(t, c)
  PROVE  Ends(t, c, res) \/ GoesOn(t, res)
<1> USE DEF ReviewStages
<1>g. /\ "test_pass" \in GatesAfter("test_runner")
      /\ "requirements_pass" \in GatesAfter("requirements_review")
      /\ "policy_pass" \in GatesAfter("policy_review")
      /\ "general_review_pass" \in GatesAfter("code_review")
      /\ GatesBefore("test_runner") = {}
      /\ GatesBefore("requirements_review") = {"test_pass"}
      /\ GatesBefore("policy_review") = {"test_pass", "requirements_pass"}
      /\ GatesBefore("code_review") = {"test_pass", "requirements_pass", "policy_pass"}
  BY DEF GatesAfter, GatesBefore, Gates
<1>1. CASE t = "ticket_to_prompt"
  <2>1. res \in TicketToPrompt(c)
    BY <1>1 DEF HandlerResults
  <2> QED
    BY <1>1, <2>1, PromptResults DEF GoesOn, InputFits, None, Successors, FirstAttempt
<1>2. CASE t = "prompt_to_code"
  <2>1. res \in PromptToCode(c) /\ c.prompt
    BY <1>2 DEF HandlerResults, InputFits
  <2> QED
    BY <1>2, <1>g, <2>1, PromptResults
       DEF GoesOn, InputFits, None, Successors, FirstAttempt
<1>3. CASE t = "test_runner"
  <2>1. res \in TestRunner(c) /\ c.prompt
    BY <1>3 DEF HandlerResults, InputFits
  <2>2. ASSUME Passes(res, c, "requirements_review",
                      {"test_pass"}),
               c.code \notin {"absent", "unfinished"}
        PROVE  GoesOn(t, res)
    BY <1>3, <1>g, <2>1, <2>2
       DEF Passes, GoesOn, InputFits, None, Successors, FirstAttempt
  <2>3. ASSUME Fails(res, c, "test_runner", {})
        PROVE  Ends(t, c, res)
    BY <1>3, <1>g, <2>1, <2>3 DEF Fails, Ends, InputFits
  <2> QED
    BY <2>1, <2>2, <2>3, TestRunnerResults
<1>4. CASE t = "requirements_review"
  <2>1. res \in RequirementsReview(c) /\ c.prompt /\ c.gates = {"test_pass"}
        /\ c.code \notin {"absent", "unfinished"}
    BY <1>4, <1>g DEF HandlerResults, InputFits
  <2>2. ASSUME Passes(res, c, "policy_review",
                      {"test_pass", "requirements_pass"})
        PROVE  GoesOn(t, res)
    BY <1>4, <1>g, <2>1, <2>2
       DEF Passes, GoesOn, InputFits, None, Successors, FirstAttempt
  <2>3. ASSUME Fails(res, c, "requirements_review", {"test_pass"})
        PROVE  Ends(t, c, res)
    BY <1>4, <1>g, <2>1, <2>3 DEF Fails, Ends, InputFits
  <2> QED
    BY <2>1, <2>2, <2>3, RequirementsReviewResults
<1>5. CASE t = "policy_review"
  <2>1. res \in PolicyReview(c) /\ c.prompt /\ c.gates = {"test_pass", "requirements_pass"}
        /\ c.code \notin {"absent", "unfinished"}
    BY <1>5, <1>g DEF HandlerResults, InputFits
  <2>2. ASSUME Passes(res, c, "code_review",
                      {"test_pass", "requirements_pass", "policy_pass"}),
               c.code # "oversized"
        PROVE  GoesOn(t, res)
    BY <1>5, <1>g, <2>1, <2>2
       DEF Passes, GoesOn, InputFits, None, Successors, FirstAttempt
  <2>3. ASSUME Fails(res, c, "policy_review", {"test_pass", "requirements_pass"})
        PROVE  Ends(t, c, res)
    BY <1>5, <1>g, <2>1, <2>3 DEF Fails, Ends, InputFits
  <2> QED
    BY <2>1, <2>2, <2>3, PolicyReviewResults
<1>6. CASE t = "code_review"
  <2>1. res \in CodeReview(c) /\ c.prompt
        /\ c.gates = {"test_pass", "requirements_pass", "policy_pass"}
    BY <1>6, <1>g DEF HandlerResults, InputFits
  <2> QED
    BY <1>6, <1>g, <2>1, CodeReviewResults
       DEF Fails, Ends, InputFits, None
<1>7. CASE t = "failure_routing"
  <2>1. res \in FailureRouting(c)
    BY <1>7 DEF HandlerResults
  <2> QED
    BY <1>7, <2>1, FailureRoutingResults
       DEF SendsBack, AsksHuman, GoesOn, InputFits, None, Successors, FirstAttempt,
           Regeneration, HumanReview
<1>8. CASE t = "human_review"
  BY <1>8 DEF HandlerResults
<1> QED
  BY <1>1, <1>2, <1>3, <1>4, <1>5, <1>6, <1>7, <1>8 DEF StepType
-----------------------------------------------------------------------------
(***************************************************************************)
(* The inductive invariant of the contract between the stages: messages    *)
(* are fit for their steps, results are what the handler returns for the   *)
(* message, and the branch a worker takes is the one its result asks for.  *)
(***************************************************************************)
MessagesFit ==
  \A m \in Messages :
    /\ InputFits(m.step.type, m.input.content)
    /\ m.step.attempt # 1 => m.step.type = "prompt_to_code"

ResultsFit ==
  \A w \in Workers :
    pc[w] \in ResultLabels =>
      result[w] \in HandlerResults(Step(w).type, msg[w].input.content)

FailureLabels == {"failure_step", "failure_publish", "failure_event"}

TerminalLabels == {"terminal", "terminal_event"} \cup FailureLabels

FinishLabels == {"finish", "finish_event"}

HandOnLabels == {"next_step", "publish", "publish_event"}

Branch(label, res) ==
  /\ label \in TerminalLabels => res.terminal # None
  /\ label \in FailureLabels => res.failure
  /\ label \in {"override"} \cup FinishLabels \cup HandOnLabels => res.terminal = None
  /\ label = "override" => res.override # None
  /\ label \in FinishLabels => res.next = None
  /\ label \in HandOnLabels =>
       res.next # None /\ (res.override # None => StatusNameBound)

BranchTaken == \A w \in Workers : Branch(pc[w], result[w])

ContractInv == ResolvableInv /\ MessagesFit /\ ResultsFit /\ BranchTaken

\* What a worker hands on keeps the contract.
LEMMA ResultKeepsTheContract ==
  ASSUME ContractInv, NEW w \in Workers, pc[w] \in ResultLabels
  PROVE  LET t == Step(w).type
             c == msg[w].input.content
         IN  /\ t \in StepType /\ c \in Content /\ InputFits(t, c)
             /\ Step(w).attempt # 1 => t = "prompt_to_code"
             /\ Ends(t, c, result[w]) \/ GoesOn(t, result[w])
<1> DEFINE t == Step(w).type
           c == msg[w].input.content
<1>1. pc[w] # "idle" /\ msg[w] \in Messages
  BY DEF ResultLabels, TryLabels, Messages
<1>2. t \in StepType /\ c \in Content
  BY <1>1 DEF ContractInv, ResolvableInv, TypeOK, WorkerTypeOK, WorkflowMessage,
              Step, StepKey, Artifact
<1>3. InputFits(t, c) /\ (Step(w).attempt # 1 => t = "prompt_to_code")
  BY <1>1 DEF ContractInv, MessagesFit, Step
<1>4. result[w] \in HandlerResults(t, c)
  BY DEF ContractInv, ResultsFit
<1> HIDE DEF t, c
<1>5. Ends(t, c, result[w]) \/ GoesOn(t, result[w])
  BY <1>2, <1>3, <1>4, HandlersKeepTheContract
<1> QED
  BY <1>2, <1>3, <1>5 DEF t, c

LEMMA ContractInit == Init => ContractInv
<1> SUFFICES ASSUME Init PROVE ContractInv
  OBVIOUS
<1>1. Messages = {}
  BY DEF Init, QueueInit, Messages
<1>2. \A w \in Workers : pc[w] = "idle"
  BY DEF Init
<1> QED
  BY <1>1, <1>2, ResolvableInit
     DEF ContractInv, MessagesFit, ResultsFit, BranchTaken, Branch, ResultLabels,
         TryLabels, TerminalLabels, FailureLabels, FinishLabels, HandOnLabels

LEMMA BranchStep ==
  ASSUME TypeOK, NEW w \in Workers, Moves(w), Branch(pc[w], result[w])
  PROVE  Branch(pc'[w], result'[w])
<1>1. Fate(w)
  BY WorkerFate
<1> USE DEF Branch, TerminalLabels, FailureLabels, FinishLabels, HandOnLabels
<1>2. CASE Received(w) \/ Processed(w) \/ Caught(w) \/ Returned(w) \/ Abandoned(w)
  BY <1>2 DEF Received, Processed, Caught, Returned, Abandoned
<1>3. CASE Detached(w)
  BY <1>3 DEF Detached
<1>4. CASE Advanced(w)
  <2>1. Onward(w) /\ result' = result
    BY <1>4 DEF Advanced
  <2>2. AfterOverride(w) \in {"finish", "next_step"}
        /\ (AfterOverride(w) = "finish" <=> result[w].next = None)
    BY DEF AfterOverride
  <2>3. CASE pc[w] = "complete" /\ pc'[w] = AfterComplete(w)
    <3>1. \/ AfterComplete(w) = "terminal" /\ result[w].terminal # None
          \/ /\ AfterComplete(w) = "override"
             /\ result[w].terminal = None /\ result[w].override # None
          \/ /\ AfterComplete(w) = AfterOverride(w)
             /\ result[w].terminal = None /\ result[w].override = None
      BY DEF AfterComplete
    <3> QED
      BY <2>1, <2>2, <2>3, <3>1
  <2>4. CASE pc[w] = "override" /\ pc'[w] = AfterOverride(w) /\ StatusNameBound
    BY <2>1, <2>2, <2>4
  <2>5. CASE ~(pc[w] \in {"complete", "override"})
    BY <2>1, <2>5 DEF Onward
  <2> QED
    BY <2>1, <2>3, <2>4, <2>5 DEF Onward
<1> QED
  BY <1>1, <1>2, <1>3, <1>4 DEF Fate

LEMMA ContractStep == ContractInv /\ [Next]_vars => ContractInv'
<1> SUFFICES ASSUME ContractInv, [Next]_vars PROVE ContractInv'
  OBVIOUS
<1>t. TypeOK
  BY DEF ContractInv, ResolvableInv
<1>1. ResolvableInv'
  BY ResolvableStep DEF ContractInv
<1>2. BranchTaken'
  <2> SUFFICES ASSUME NEW w \in Workers PROVE Branch(pc'[w], result'[w])
    BY DEF BranchTaken, Branch
  <2> QED
    BY <1>t, BranchStep, MovesOrStays DEF ContractInv, BranchTaken
<1>3. ResultsFit'
  <2> SUFFICES ASSUME NEW w \in Workers, pc'[w] \in ResultLabels
               PROVE  result'[w] \in HandlerResults(msg'[w].step.type,
                                                    msg'[w].input.content)
    BY DEF ResultsFit, Step, HandlerResults
  <2>1. ASSUME msg'[w] = msg[w], result'[w] = result[w], pc[w] \in ResultLabels
        PROVE  result'[w] \in HandlerResults(msg'[w].step.type, msg'[w].input.content)
    BY <2>1 DEF ContractInv, ResultsFit, Step
  <2>2. CASE Moves(w) /\ pc[w] = "process" /\ pc'[w] = "store"
    <3>1. msg'[w] = msg[w]
      BY <1>t, <2>2, WorkerCameFrom
    <3>2. Fate(w)
      BY <1>t, <2>2, WorkerFate
    <3>3. result'[w] \in Results(Step(w).type, msg[w].input.content)
      BY <2>2, <3>2
         DEF Fate, Received, Processed, Advanced, Onward, Caught, Returned,
             ReturnLabels, Abandoned, Detached
    <3>4. Step(w).type \in StepType /\ msg[w].input.content \in Content
      BY <1>t, <2>2
         DEF TypeOK, WorkerTypeOK, WorkflowMessage, Step, StepKey, Artifact
    <3> QED
      BY <3>1, <3>3, <3>4, HandlersAssumption DEF Step
  <2> QED
    BY <1>t, <2>1, <2>2, MovesOrStays, WorkerCameFrom
<1>4. MessagesFit'
  <2> SUFFICES ASSUME NEW m \in Messages'
               PROVE  /\ InputFits(m.step.type, m.input.content)
                      /\ m.step.attempt # 1 => m.step.type = "prompt_to_code"
    BY DEF MessagesFit, InputFits
  <2>1. CASE m \in Messages
    BY <2>1 DEF ContractInv, MessagesFit
  <2>2. ASSUME NEW w \in Workers, m.input = Output(w), pc[w] = "publish",
               m.step = NextStep(w)
        PROVE  /\ InputFits(m.step.type, m.input.content)
               /\ m.step.attempt # 1 => m.step.type = "prompt_to_code"
    <3>1. pc[w] \in ResultLabels /\ result[w].next # None
      BY <2>2 DEF ContractInv, BranchTaken, Branch, HandOnLabels, ResultLabels,
                  TryLabels
    <3>2. GoesOn(Step(w).type, result[w])
      BY <3>1, ResultKeepsTheContract DEF Ends
    <3> QED
      BY <2>2, <3>2 DEF GoesOn, NextStep, Output, SendsBack, AsksHuman
  <2>3. ASSUME NEW w \in Workers, m.input = Output(w), pc[w] = "failure_publish",
               m.step = FailureStep(w)
        PROVE  /\ InputFits(m.step.type, m.input.content)
               /\ m.step.attempt # 1 => m.step.type = "prompt_to_code"
    <3>1. pc[w] \in ResultLabels /\ result[w].failure
      BY <2>3 DEF ContractInv, BranchTaken, Branch, FailureLabels, ResultLabels,
                  TryLabels
    <3>2. InputFits("failure_routing", result[w].content)
      BY <3>1, ResultKeepsTheContract DEF Ends, GoesOn
    <3> QED
      BY <2>3, <3>2 DEF FailureStep, FirstAttempt, Output
  <2>4. ASSUME NEW r \in Runs, m.step = FirstStep(r)
        PROVE  /\ InputFits(m.step.type, m.input.content)
               /\ m.step.attempt # 1 => m.step.type = "prompt_to_code"
    BY <2>4 DEF FirstStep, FirstAttempt, InputFits, ReviewStages
  <2> QED
    BY <1>t, <2>1, <2>2, <2>3, <2>4, MessagesAreSent
<1> QED
  BY <1>1, <1>2, <1>3, <1>4 DEF ContractInv

(***************************************************************************)
(* Each review stage is handed work with the flags of exactly the stages   *)
(* before it, and failure routing a failed review with its prompt, for any *)
(* number of runs and workers and through every fault.                     *)
(***************************************************************************)
THEOREM StagesReceivePassedWorkHolds == Spec => []StagesReceivePassedWork
<1>1. ContractInv => StagesReceivePassedWork
  BY DEF ContractInv, MessagesFit, InputFits, StagesReceivePassedWork
<1> QED
  BY <1>1, ContractInit, ContractStep, PTL DEF Spec
-----------------------------------------------------------------------------
(***************************************************************************)
(* Who changes the status of a run: its request, which sets it running, a  *)
(* worker with a verdict, and failure routing.                             *)
(***************************************************************************)
LEMMA RunChanges ==
  ASSUME ContractInv, [Next]_vars, NEW r \in Runs, runs'[r] # runs[r]
  PROVE  \/ request[r] = "create_run" /\ runs'[r] = "running"
         \/ \E w \in Workers :
              /\ Moves(w) /\ Step(w).run = r
              /\ \/ /\ pc[w] = "terminal"
                    /\ result[w].terminal \in {"completed", "failed"}
                    /\ runs'[r] = result[w].terminal
                 \/ /\ pc[w] = "override" /\ StatusNameBound
                    /\ runs'[r] \in {"running", "failed"}
<1>t. TypeOK /\ runs \in [Runs -> WorkflowStatus \cup {"absent"}]
  BY DEF ContractInv, ResolvableInv, TypeOK, DbTypeOK
<1>1. ASSUME NEW q \in Runs, RequestMoves(q)
      PROVE  request[r] = "create_run" /\ runs'[r] = "running"
  BY <1>t, <1>1, RequestFate
     DEF RequestCalls, CreateWorkflowRun, CreateArtifact, CreateWorkflowStep, dbVars
<1>2. ASSUME NEW w \in Workers, Moves(w)
      PROVE  /\ Step(w).run = r
             /\ \/ /\ pc[w] = "terminal"
                   /\ result[w].terminal \in {"completed", "failed"}
                   /\ runs'[r] = result[w].terminal
                \/ /\ pc[w] = "override" /\ StatusNameBound
                   /\ runs'[r] \in {"running", "failed"}
  <2>1. ASSUME NEW q, NEW status, MarkWorkflow(q, status)
        PROVE  q = r /\ runs'[r] = status
    BY <1>t, <2>1 DEF MarkWorkflow
  <2>2. Writes(w)
    BY <1>t, <1>2, WorkerWrites DEF WritesNothing, dbVars
  <2>3. runs' # runs
    OBVIOUS
  <2>4. \/ /\ pc[w] = "terminal" /\ result[w].terminal \in {"completed", "failed"}
           /\ MarkWorkflow(Step(w).run, result[w].terminal)
        \/ /\ pc[w] = "override" /\ StatusNameBound
           /\ result[w].override # None
           /\ MarkWorkflow(Step(w).run, result[w].override)
        \/ pc[w] = "finish"
    BY <2>2, <2>3
       DEF Writes, ClaimStepForProcessing, CreateArtifact, MarkStepCompleted,
           RecordEvent, CreateWorkflowStep, MarkStepFailed, None
  <2>5. pc[w] \in {"override", "finish"} => pc[w] \in ResultLabels /\ result[w].terminal = None
    BY DEF ContractInv, BranchTaken, Branch, FinishLabels, ResultLabels, TryLabels
  <2>6. pc[w] \in {"override", "finish"} => GoesOn(Step(w).type, result[w])
    BY <2>5, ResultKeepsTheContract DEF Ends, None
  <2>7. pc[w] # "finish"
    BY <2>6 DEF GoesOn, ContractInv, BranchTaken, Branch, FinishLabels
  <2>8. CASE pc[w] = "override" /\ MarkWorkflow(Step(w).run, result[w].override)
    <3>1. Step(w).run = r /\ runs'[r] = result[w].override
      BY <2>1, <2>8
    <3>2. pc[w] = "override" => result[w].override \in {"running", "failed"}
      BY <2>4, <2>6, <2>8 DEF GoesOn, SendsBack, AsksHuman
    <3> QED
      BY <2>4, <2>8, <3>1, <3>2
  <2> QED
    BY <2>1, <2>4, <2>7, <2>8
<1> QED
  BY <1>1, <1>2, NextCases DEF vars, dbVars

(***************************************************************************)
(* A run is completed only if one stored artifact of it passed all four    *)
(* gates with code fit for both deterministic reviews, however calls are   *)
(* retried, lost or reordered.                                             *)
(***************************************************************************)
THEOREM CompletedRunPassedEveryGateHolds == Spec => []CompletedRunPassedEveryGate
<1>1. Init => CompletedRunPassedEveryGate
  BY DEF Init, DbInit, CompletedRunPassedEveryGate
<1>2. ContractInv /\ CompletedRunPassedEveryGate /\ [Next]_vars
        => CompletedRunPassedEveryGate'
  <2> SUFFICES ASSUME ContractInv, CompletedRunPassedEveryGate, [Next]_vars,
                      NEW r \in Runs, runs'[r] = "completed"
               PROVE  \E a \in artifacts' : /\ a.run = r
                                            /\ a.content.type = "review_result"
                                            /\ a.content.gates = Gates
                                            /\ a.content.code = "clean"
    BY DEF CompletedRunPassedEveryGate
  <2>g. artifacts \subseteq artifacts'
    BY RowsRemain DEF ContractInv, ResolvableInv
  <2>1. CASE runs[r] = "completed"
    BY <2>1, <2>g DEF CompletedRunPassedEveryGate
  <2>2. CASE runs[r] # "completed"
    <3>1. PICK w \in Workers : /\ Step(w).run = r /\ pc[w] = "terminal"
                               /\ result[w].terminal = "completed"
      BY <2>2, RunChanges
    <3>2. pc[w] \in ResultLabels \ {"store"}
      BY <3>1 DEF ResultLabels, TryLabels
    <3>3. Output(w) \in artifacts
      BY <3>2 DEF ContractInv, ResolvableInv, OutputsStored
    <3>4. LET c == msg[w].input.content
          IN  /\ c \in Content /\ InputFits("code_review", c)
              /\ result[w].content.type = "review_result"
              /\ result[w].content.code = c.code
              /\ result[w].content.gates = Gates
      BY <3>1, <3>2, ResultKeepsTheContract DEF Ends, GoesOn, None
    <3>5. result[w].content.code = "clean"
      BY <3>4 DEF InputFits, Content, CodeClass
    <3> QED
      BY <2>g, <3>1, <3>3, <3>4, <3>5 DEF Output
  <2> QED
    BY <2>1, <2>2
<1> QED
  BY <1>1, <1>2, ContractInit, ContractStep, PTL DEF Spec
-----------------------------------------------------------------------------
(***************************************************************************)
(* The inductive invariant of the audit trail: before its request nothing  *)
(* of a run exists, events are about steps that exist, and a worker that   *)
(* is about to record a verdict has written it.                            *)
(***************************************************************************)
NothingBeforeRequest ==
  \A r \in Runs : request[r] = "create_run" => \A k \in DOMAIN steps : k.run # r

EventsHaveSteps == \A e \in events : Exists(e.step)

VerdictWritten == \A w \in Workers : pc[w] = "terminal_event" => Judged(Step(w).run)

TrailInv == /\ ContractInv
            /\ NothingBeforeRequest
            /\ EventsHaveSteps
            /\ VerdictWritten
            /\ AuditTrailTruthful

\* A worker handles a step that has a row.
LEMMA WorkersHaveSteps ==
  ASSUME ContractInv, NEW w \in Workers, pc[w] # "idle"
  PROVE  Exists(Step(w)) /\ Step(w) \in StepKey
<1>1. msg[w] \in Messages
  BY DEF Messages
<1> QED
  BY <1>1, StepTyped DEF ContractInv, ResolvableInv, MessagesResolvable, Step

LEMMA TrailInit == Init => TrailInv
BY ContractInit
   DEF TrailInv, NothingBeforeRequest, EventsHaveSteps, VerdictWritten,
       AuditTrailTruthful, Init, DbInit

\* Where a new step row comes from.
LEMMA StepsAreCreated ==
  ASSUME TypeOK, [Next]_vars, NEW k \in DOMAIN steps', k \notin DOMAIN steps
  PROVE  \/ \E w \in Workers :
              \/ pc[w] = "next_step" /\ k = NextStep(w)
              \/ pc[w] = "failure_step" /\ k = FailureStep(w)
         \/ \E r \in Runs : request[r] = "create_step" /\ k = FirstStep(r)
<1>1. ASSUME NEW j, NEW a, CreateWorkflowStep(j, a) PROVE k = j
  BY <1>1 DEF CreateWorkflowStep
<1>2. ASSUME NEW w \in Workers, Moves(w)
      PROVE  \/ pc[w] = "next_step" /\ k = NextStep(w)
             \/ pc[w] = "failure_step" /\ k = FailureStep(w)
  <2>1. Writes(w) \/ WritesNothing(w)
    BY <1>2, WorkerWrites
  <2>2. \/ pc[w] = "failure_step" /\ CreateWorkflowStep(FailureStep(w), Output(w))
        \/ pc[w] = "next_step" /\ CreateWorkflowStep(NextStep(w), Output(w))
    BY <2>1 DEF Writes, WritesNothing, ClaimStepForProcessing, CreateArtifact,
                MarkStepCompleted, RecordEvent, MarkWorkflow, MarkStepFailed, dbVars
  <2> QED
    BY <1>1, <2>2
<1>3. ASSUME NEW r \in Runs, RequestMoves(r)
      PROVE  request[r] = "create_step" /\ k = FirstStep(r)
  BY <1>1, <1>3, RequestFate DEF RequestCalls, CreateWorkflowRun, CreateArtifact, dbVars
<1> QED
  BY <1>2, <1>3, NextCases DEF vars, dbVars

LEMMA NothingBeforeRequestStep ==
  ASSUME TrailInv, [Next]_vars
  PROVE  NothingBeforeRequest'
<1>t. TypeOK /\ request \in [Runs -> RequestLabels]
  BY DEF TrailInv, ContractInv, ResolvableInv, TypeOK
<1> SUFFICES ASSUME NEW r \in Runs, request'[r] = "create_run", NEW k \in DOMAIN steps'
             PROVE  k.run # r
  BY DEF NothingBeforeRequest
<1>1. request[r] = "create_run"
  <2>1. ASSUME NEW q \in Runs, RequestMoves(q) PROVE request[r] = "create_run"
    BY <1>t, <2>1, RequestFate DEF RequestCalls
  <2> QED
    BY <1>t, <2>1, WorkerWrites, NextCases DEF vars
<1>2. CASE k \in DOMAIN steps
  BY <1>1, <1>2 DEF TrailInv, NothingBeforeRequest
<1>3. ASSUME NEW w \in Workers, pc[w] # "idle" PROVE Step(w).run # r
  BY <1>1, <1>3, WorkersHaveSteps DEF TrailInv, NothingBeforeRequest, Exists
<1>4. CASE k \notin DOMAIN steps
  BY <1>t, <1>1, <1>3, <1>4, StepsAreCreated
     DEF NextStep, FailureStep, FirstStep, FirstAttempt
<1> QED
  BY <1>2, <1>4

\* Which events are new, and what the worker that records one has at hand.
LEMMA EventsAreRecorded ==
  ASSUME ContractInv, [Next]_vars, NEW e \in events', e \notin events
  PROVE  \E w \in Workers :
           /\ e.step = Step(w) /\ pc[w] # "idle"
           /\ \/ pc[w] = "terminal_event" /\ e.type \in TerminalEvents
              \/ pc[w] = "failure_event" /\ e.type = "workflow_failure_published"
              \/ pc[w] = "publish_event" /\ e.type = "next_step_published"
<1>t. TypeOK
  BY DEF ContractInv, ResolvableInv
<1>1. ASSUME NEW r \in Runs, RequestMoves(r) PROVE FALSE
  BY <1>t, <1>1, RequestFate
     DEF RequestCalls, CreateWorkflowRun, CreateArtifact, CreateWorkflowStep, dbVars
<1>2. ASSUME NEW w \in Workers, Moves(w)
      PROVE  /\ e.step = Step(w) /\ pc[w] # "idle"
             /\ \/ pc[w] = "terminal_event" /\ e.type \in TerminalEvents
                \/ pc[w] = "failure_event" /\ e.type = "workflow_failure_published"
                \/ pc[w] = "publish_event" /\ e.type = "next_step_published"
  <2>1. ASSUME NEW k, NEW type, RecordEvent(k, type)
        PROVE  e.step = k /\ e.type = type
    BY <2>1 DEF RecordEvent
  <2>2. Writes(w)
    BY <1>t, <1>2, WorkerWrites DEF WritesNothing, dbVars
  <2>3. events' # events
    OBVIOUS
  <2>4. \/ /\ pc[w] = "terminal_event"
           /\ RecordEvent(Step(w), IF result[w].event = None
                                     THEN "workflow_terminated" ELSE result[w].event)
        \/ pc[w] = "failure_event" /\ RecordEvent(Step(w), "workflow_failure_published")
        \/ pc[w] = "finish_event"
        \/ pc[w] = "publish_event" /\ RecordEvent(Step(w), "next_step_published")
    BY <2>2, <2>3
       DEF Writes, ClaimStepForProcessing, CreateArtifact, MarkStepCompleted,
           MarkWorkflow, CreateWorkflowStep, MarkStepFailed
  <2>5. ASSUME pc[w] = "finish_event" PROVE FALSE
    <3>1. pc[w] \in ResultLabels /\ result[w].terminal = None /\ result[w].next = None
      BY <2>5 DEF ContractInv, BranchTaken, Branch, FinishLabels, ResultLabels, TryLabels
    <3> QED
      BY <3>1, ResultKeepsTheContract DEF Ends, GoesOn, None
  <2>6. pc[w] = "terminal_event" => result[w].event \in TerminalEvents \cup {None}
    BY <1>t DEF TypeOK, WorkerTypeOK, ResultLabels, TryLabels, StepResult
  <2> QED
    BY <2>1, <2>4, <2>5, <2>6 DEF TerminalEvents
<1> QED
  BY <1>1, <1>2, NextCases DEF vars, dbVars

LEMMA JudgedStays ==
  ASSUME TrailInv, [Next]_vars, ~StatusNameBound,
         NEW k \in DOMAIN steps, k.run \in Runs, Judged(k.run)
  PROVE  runs'[k.run] \in {"completed", "failed"}
<1>1. request[k.run] # "create_run"
  BY DEF TrailInv, NothingBeforeRequest
<1> QED
  BY <1>1, RunChanges DEF TrailInv, Judged

LEMMA TrailStep ==
  ASSUME TrailInv, [Next]_vars, ~StatusNameBound
  PROVE  TrailInv'
<1>c. ContractInv /\ ContractInv'
  BY ContractStep DEF TrailInv
<1>t. TypeOK
  BY <1>c DEF ContractInv, ResolvableInv
<1>g. DOMAIN steps \subseteq DOMAIN steps'
  BY <1>t, RowsRemain DEF Exists
<1>k. \A k \in DOMAIN steps : k \in StepKey /\ k.run \in Runs
  BY <1>t DEF TypeOK, DbTypeOK, StepKey
<1>w. \A w \in Workers : pc[w] # "idle" => Step(w) \in DOMAIN steps
  BY <1>c, WorkersHaveSteps DEF Exists
<1>1. EventsHaveSteps'
  <2> SUFFICES ASSUME NEW e \in events' PROVE e.step \in DOMAIN steps'
    BY DEF EventsHaveSteps, Exists
  <2> QED
    BY <1>c, <1>g, <1>w, EventsAreRecorded DEF TrailInv, EventsHaveSteps, Exists
<1>2. VerdictWritten'
  <2> SUFFICES ASSUME NEW w \in Workers, pc'[w] = "terminal_event"
               PROVE  runs'[msg'[w].step.run] \in {"completed", "failed"}
    BY DEF VerdictWritten, Judged, Step
  <2>1. CASE pc[w] = "terminal_event" /\ msg'[w] = msg[w]
    <3>1. Judged(Step(w).run) /\ Step(w) \in DOMAIN steps
      BY <1>w, <2>1 DEF TrailInv, VerdictWritten
    <3>2. runs'[Step(w).run] \in {"completed", "failed"}
      BY <1>k, <3>1, JudgedStays
    <3> QED
      BY <2>1, <3>2 DEF Step
  <2>2. CASE Moves(w) /\ pc[w] # "terminal_event"
    <3>1. pc[w] = "terminal" /\ msg'[w] = msg[w]
          /\ result[w].terminal \in {"completed", "failed"}
      <4>1. Fate(w)
        BY <1>t, <2>2, WorkerFate
      <4> QED
        BY <2>2, <4>1
           DEF Fate, Received, Processed, Advanced, Onward, AfterComplete,
               AfterOverride, Sends, Caught, Returned, Abandoned, Detached, queueVars
    <3>2. MarkWorkflow(Step(w).run, result[w].terminal)
      BY <1>t, <2>2, <3>1, WorkerWrites DEF Writes, WritesNothing, SilentLabels
    <3>3. Step(w).run \in Runs
      BY <1>k, <1>w, <3>1
    <3>4. runs'[Step(w).run] = result[w].terminal
      BY <1>t, <3>2, <3>3 DEF MarkWorkflow, TypeOK, DbTypeOK
    <3> QED
      BY <3>1, <3>4 DEF Step
  <2>3. CASE Moves(w) /\ pc[w] = "terminal_event"
    <3>1. msg'[w] = msg[w]
      BY <1>t, <2>3, WorkerCameFrom DEF ResultLabels, TryLabels
    <3> QED
      BY <2>1, <2>3, <3>1
  <2> QED
    BY <1>t, <2>1, <2>2, <2>3, MovesOrStays
<1>3. AuditTrailTruthful'
  <2> SUFFICES ASSUME NEW e \in events'
               PROVE  /\ e.type = "next_step_published" =>
                           \E k \in Successors(e.step) : k \in DOMAIN steps'
                      /\ e.type = "workflow_failure_published" =>
                           FirstAttempt(e.step.run, "failure_routing") \in DOMAIN steps'
                      /\ e.type \in TerminalEvents =>
                           runs'[e.step.run] \in {"completed", "failed"}
    BY DEF AuditTrailTruthful, Exists
  <2>1. CASE e \in events
    <3>1. e.step \in DOMAIN steps
      BY <2>1 DEF TrailInv, EventsHaveSteps, Exists
    <3>2. e.type \in TerminalEvents => runs'[e.step.run] \in {"completed", "failed"}
      BY <1>k, <2>1, <3>1, JudgedStays DEF TrailInv, AuditTrailTruthful, Judged
    <3> QED
      BY <1>g, <2>1, <3>2 DEF TrailInv, AuditTrailTruthful, Exists
  <2>2. CASE e \notin events
    <3>1. PICK w \in Workers :
            /\ e.step = Step(w) /\ pc[w] # "idle"
            /\ \/ pc[w] = "terminal_event" /\ e.type \in TerminalEvents
               \/ pc[w] = "failure_event" /\ e.type = "workflow_failure_published"
               \/ pc[w] = "publish_event" /\ e.type = "next_step_published"
      BY <1>c, <2>2, EventsAreRecorded
    <3>n. /\ "next_step_published" \notin TerminalEvents
          /\ "workflow_failure_published" \notin TerminalEvents
      BY DEF TerminalEvents
    <3>2. CASE pc[w] = "terminal_event" /\ e.type \in TerminalEvents
      <4>1. Judged(Step(w).run) /\ Step(w) \in DOMAIN steps
        BY <1>w, <3>2 DEF TrailInv, VerdictWritten
      <4> QED
        BY <1>k, <3>1, <3>2, <3>n, <4>1, JudgedStays
    <3>3. CASE pc[w] = "failure_event" /\ e.type = "workflow_failure_published"
      <4>1. FailureStep(w) \in DOMAIN steps
        BY <1>c, <3>3 DEF ContractInv, ResolvableInv, HandOffsCreated, Exists
      <4> QED
        BY <1>g, <3>1, <3>3, <3>n, <4>1 DEF FailureStep
    <3>4. CASE pc[w] = "publish_event" /\ e.type = "next_step_published"
      <4>1. NextStep(w) \in DOMAIN steps
        BY <1>c, <3>4 DEF ContractInv, ResolvableInv, HandOffsCreated, Exists
      <4>2. pc[w] \in ResultLabels /\ result[w].next # None
        BY <1>c, <3>4 DEF ContractInv, BranchTaken, Branch, HandOnLabels,
                          ResultLabels, TryLabels
      <4>3. GoesOn(Step(w).type, result[w])
        BY <1>c, <4>2, ResultKeepsTheContract DEF Ends
      <4>4. NextStep(w) \in Successors(Step(w))
        BY <4>3 DEF GoesOn, NextStep
      <4> QED
        BY <1>g, <3>1, <3>4, <3>n, <4>1, <4>4
    <3> QED
      BY <3>1, <3>2, <3>3, <3>4
  <2> QED
    BY <2>1, <2>2
<1> QED
  BY <1>c, <1>1, <1>2, <1>3, NothingBeforeRequestStep DEF TrailInv

(***************************************************************************)
(* The audit trail never reports a hand-off or a verdict that is not in    *)
(* the tables, through every fault.  As committed, worker.py cannot take a *)
(* verdict back; with the import repaired failure routing can.             *)
(***************************************************************************)
THEOREM AuditTrailTruthfulHolds ==
  ASSUME ~StatusNameBound
  PROVE  Spec => []AuditTrailTruthful
<1>1. TrailInv /\ [Next]_vars => TrailInv'
  BY TrailStep
<1>2. TrailInv => AuditTrailTruthful
  BY DEF TrailInv
<1> QED
  BY <1>1, <1>2, TrailInit, PTL DEF Spec
-----------------------------------------------------------------------------
(***************************************************************************)
(* The inductive invariant of routing.  The row of a step its worker has   *)
(* completed holds the worker's output; without faults only the failure    *)
(* routing raises, when the status name is not bound; and the row of the completed  *)
(* failure routing step says which way the run went.                       *)
(***************************************************************************)
OutputRecorded ==
  \A w \in Workers : pc[w] \in PastLabels => steps[Step(w)].output = Output(w)

RaisesUnbound ==
  \A w \in Workers : pc[w] \in {"except", "except_event"} =>
    ~StatusNameBound /\ Step(w).type = "failure_routing"

Routing(r) == FirstAttempt(r, "failure_routing")

RoutedBy(r, type) == /\ StatusNameBound
                     /\ StatusOf(Routing(r)) = "completed"
                     /\ steps[Routing(r)].output.content.type = type

RoutedOneWay ==
  \A r \in Runs : /\ Exists(Regeneration(r)) => RoutedBy(r, "prompt")
                  /\ Exists(HumanReview(r)) => RoutedBy(r, "failure_result")

\* A stored artifact of run r failed a review.
HasFailedReview(r) ==
  \E a \in artifacts : /\ a.run = r
                       /\ a.content.stage \in ReviewStages
                       /\ a.content.gates # GatesAfter(a.content.stage)

RoutedAfterFailure ==
  \A r \in Runs :
    Exists(Regeneration(r)) \/ Exists(HumanReview(r)) => HasFailedReview(r)

RoutingInv == /\ ContractInv
              /\ OrphanInv
              /\ OutputRecorded
              /\ RaisesUnbound
              /\ RoutedOneWay
              /\ RoutedAfterFailure

LEMMA RoutingInit == Init => RoutingInv
BY ContractInit, OrphanInit
   DEF RoutingInv, OutputRecorded, RaisesUnbound, RoutedOneWay, RoutedAfterFailure,
       Init, DbInit, Exists, PastLabels, TryLabels

\* The row of a completed step changes only when its handler gives it up.
LEMMA CompletedRowStays ==
  ASSUME OrphanInv, [Next]_vars, NEW k, StatusOf(k) = "completed",
         \A v \in Workers : ~GivesUp(v, k)
  PROVE  StatusOf(k)' = "completed" /\ steps'[k].output = steps[k].output
<1>t. TypeOK /\ DbTypeOK /\ k \in DOMAIN steps
  BY DEF OrphanInv, LifecycleInv, ExclusiveInv, TypeOK, StatusOf, Exists
<1>1. StatusOf(k)' = "completed"
  BY <1>t, StatusIsKept DEF StatusKept
<1>2. ASSUME UNCHANGED steps PROVE steps'[k].output = steps[k].output
  BY <1>2
<1>3. ASSUME NEW j, NEW a, CreateWorkflowStep(j, a)
      PROVE  steps'[k].output = steps[k].output
  BY <1>t, <1>3 DEF CreateWorkflowStep, Exists
<1>4. ASSUME NEW w \in Workers, Moves(w) PROVE steps'[k].output = steps[k].output
  <2>1. TableEffect(w)
    BY <1>t, <1>4, WorkerTableEffect DEF Moves
  <2>2. CASE ClaimStepForProcessing(Step(w))
    BY <1>t, <2>2 DEF ClaimStepForProcessing, DbTypeOK, StepRow
  <2>3. CASE pc[w] = "complete" /\ MarkStepCompleted(Step(w), Output(w))
    <3>1. StatusOf(Step(w)) = "running"
      BY <2>3 DEF OrphanInv, LifecycleInv, RunningUntilCompleted, WorkLabels
    <3>2. Step(w) # k
      BY <3>1
    <3> QED
      BY <1>t, <2>3, <3>2 DEF MarkStepCompleted, DbTypeOK, StepRow
  <2>4. CASE MarkStepFailed(Step(w))
    BY <1>t, <2>4 DEF MarkStepFailed, DbTypeOK, StepRow
  <2> QED
    BY <1>2, <1>3, <2>1, <2>2, <2>3, <2>4 DEF TableEffect
<1>5. ASSUME NEW r \in Runs, RequestMoves(r) PROVE steps'[k].output = steps[k].output
  BY <1>t, <1>2, <1>3, <1>5, RequestEffect DEF RequestMoves
<1> QED
  BY <1>1, <1>2, <1>4, <1>5, NextCases DEF vars, dbVars

LEMMA OutputRecordedStep ==
  ASSUME OrphanInv, OutputRecorded, [Next]_vars
  PROVE  OutputRecorded'
<1>t. TypeOK /\ DbTypeOK
  BY DEF OrphanInv, LifecycleInv, ExclusiveInv, TypeOK
<1> SUFFICES ASSUME NEW w \in Workers, pc'[w] \in PastLabels
             PROVE  steps'[Step(w)'].output = Output(w)'
  BY DEF OutputRecorded
<1>1. ASSUME pc[w] \in PastLabels, msg'[w] = msg[w], result'[w] = result[w]
      PROVE  steps'[Step(w)'].output = Output(w)'
  <2>1. StatusOf(Step(w)) = "completed" /\ steps[Step(w)].output = Output(w)
    BY <1>1 DEF OrphanInv, CompletedPast, OutputRecorded
  <2>2. \A v \in Workers : ~GivesUp(v, Step(w))
    BY <1>1 DEF GivesUp, OrphanInv, LifecycleInv, ExclusiveInv, ExclusiveExecution,
                Owns, OwnerLabels, PastLabels, TryLabels
  <2>3. steps'[Step(w)].output = steps[Step(w)].output
    BY <2>1, <2>2, CompletedRowStays
  <2> QED
    BY <1>1, <2>1, <2>3, HandOffStays
<1>2. ASSUME Moves(w) PROVE steps'[Step(w)'].output = Output(w)'
  <2>1. msg'[w] = msg[w] /\ result'[w] = result[w]
    BY <1>t, <1>2, WorkerCameFrom, PastCameFrom
       DEF PastLabels, ResultLabels, TryLabels
  <2>2. CASE pc[w] \in PastLabels
    BY <1>1, <2>1, <2>2
  <2>3. CASE pc[w] = "complete" /\ MarkStepCompleted(Step(w), Output(w))
    <3>1. StatusOf(Step(w)) = "running"
      BY <2>3 DEF OrphanInv, LifecycleInv, RunningUntilCompleted, WorkLabels
    <3>2. Step(w) \in DOMAIN steps
      BY <3>1 DEF StatusOf, Exists
    <3>3. steps'[Step(w)].output = Output(w)
      BY <1>t, <2>3, <3>2 DEF MarkStepCompleted, DbTypeOK, StepRow
    <3> QED
      BY <2>1, <3>3, HandOffStays
  <2> QED
    BY <1>t, <1>2, <2>2, <2>3, PastCameFrom
<1> QED
  BY <1>t, <1>1, <1>2, MovesOrStays

LEMMA NoFaults ==
  ASSUME TypeOK, [Next]_vars, MaxFaults = 0
  PROVE  faults = 0 /\ faults' = faults
<1>1. TypeOK'
  BY NextTyped
<1> QED
  BY <1>1 DEF TypeOK

LEMMA RaisesUnboundStep ==
  ASSUME ContractInv, RaisesUnbound, [Next]_vars, MaxFaults = 0
  PROVE  RaisesUnbound'
<1>t. TypeOK
  BY DEF ContractInv, ResolvableInv
<1>0. faults = 0 /\ faults' = faults
  BY <1>t, NoFaults
<1> SUFFICES ASSUME NEW w \in Workers, pc'[w] \in {"except", "except_event"}
             PROVE  ~StatusNameBound /\ Step(w)'.type = "failure_routing"
  BY DEF RaisesUnbound
<1>1. CASE pc[w] \in {"except", "except_event"}
  <2>1. msg'[w] = msg[w]
    <3>1. CASE Moves(w)
      BY <1>t, <1>1, <3>1, MessageFate
         DEF Received, Keeps, Returned, Abandoned, Detached, CloseChannel
    <3> QED
      BY <1>t, <3>1, MovesOrStays
  <2> QED
    BY <1>1, <2>1 DEF RaisesUnbound, Step
<1>2. CASE Moves(w) /\ pc[w] \notin {"except", "except_event"}
  <2>1. Caught(w)
    <3>1. Fate(w)
      BY <1>t, <1>2, WorkerFate
    <3> QED
      BY <1>2, <3>1
         DEF Fate, Received, Processed, Advanced, Onward, AfterComplete,
             AfterOverride, Returned, Abandoned, Detached
  <2>2. Unsupported(w) /\ msg'[w] = msg[w]
    BY <1>0, <2>1 DEF Caught, queueVars
  <2>3. CASE pc[w] = "terminal" /\ result[w].terminal \notin {"completed", "failed"}
    <3>1. pc[w] \in ResultLabels /\ result[w].terminal # None
      BY <2>3 DEF ContractInv, BranchTaken, Branch, TerminalLabels, ResultLabels,
                  TryLabels
    <3> QED
      BY <2>3, <3>1, ResultKeepsTheContract DEF Ends, GoesOn
  <2>4. CASE /\ pc[w] = "override"
             /\ result[w].override \notin {"running", "failed", "completed"}
    <3>1. /\ pc[w] \in ResultLabels /\ result[w].terminal = None
          /\ result[w].override # None
      BY <2>4 DEF ContractInv, BranchTaken, Branch, ResultLabels, TryLabels
    <3> QED
      BY <2>4, <3>1, ResultKeepsTheContract
         DEF Ends, GoesOn, SendsBack, AsksHuman, None
  <2>5. pc[w] = "override" => Step(w).type = "failure_routing"
    <3>1. pc[w] = "override" => /\ pc[w] \in ResultLabels /\ result[w].terminal = None
                                /\ result[w].override # None
      BY DEF ContractInv, BranchTaken, Branch, ResultLabels, TryLabels
    <3> QED
      BY <3>1, ResultKeepsTheContract DEF Ends, GoesOn, None
  <2> QED
    BY <2>2, <2>3, <2>4, <2>5 DEF Unsupported, Step
<1> QED
  BY <1>t, <1>1, <1>2, MovesOrStays

\* Only failure routing creates a second attempt or a human review.
LEMMA RoutingCreates ==
  ASSUME ContractInv, [Next]_vars, NEW r \in Runs,
         NEW k \in {Regeneration(r), HumanReview(r)},
         k \in DOMAIN steps', k \notin DOMAIN steps
  PROVE  \E w \in Workers :
           /\ pc[w] = "next_step" /\ Step(w) = Routing(r)
           /\ StatusNameBound
           /\ IF k = Regeneration(r) THEN result[w].content.type = "prompt"
                                     ELSE result[w].content.type = "failure_result"
<1>t. TypeOK
  BY DEF ContractInv, ResolvableInv
<1>k. /\ Regeneration(r) = [run |-> r, type |-> "prompt_to_code", attempt |-> 2]
      /\ HumanReview(r) = [run |-> r, type |-> "human_review", attempt |-> 1]
      /\ Routing(r) = [run |-> r, type |-> "failure_routing", attempt |-> 1]
  BY DEF Regeneration, HumanReview, Routing, FirstAttempt
<1>1. PICK w \in Workers : pc[w] = "next_step" /\ k = NextStep(w)
  BY <1>t, <1>k, StepsAreCreated DEF FailureStep, FirstStep, FirstAttempt
<1>2. /\ pc[w] \in ResultLabels /\ result[w].next # None
      /\ result[w].override # None => StatusNameBound
  BY <1>1 DEF ContractInv, BranchTaken, Branch, HandOnLabels, ResultLabels, TryLabels
<1>3. GoesOn(Step(w).type, result[w])
      /\ (Step(w).attempt # 1 => Step(w).type = "prompt_to_code")
  BY <1>2, ResultKeepsTheContract DEF Ends
<1>4. /\ Step(w).run = r
      /\ \/ k = Regeneration(r) /\ result[w].attempt = 2
         \/ /\ k # Regeneration(r)
            /\ result[w].next = "human_review" /\ result[w].attempt = 1
  BY <1>k, <1>1 DEF NextStep
<1>5. Step(w).type = "failure_routing"
  BY <1>3, <1>4 DEF GoesOn
<1>6. Step(w) = Routing(r)
  BY <1>t, <1>k, <1>1, <1>3, <1>4, <1>5, StepTyped DEF StepKey
<1> QED
  BY <1>1, <1>2, <1>3, <1>4, <1>5, <1>6 DEF GoesOn, SendsBack, AsksHuman, None

LEMMA RoutedAfterFailureStep ==
  ASSUME ContractInv, RoutedAfterFailure, [Next]_vars
  PROVE  RoutedAfterFailure'
<1>t. TypeOK
  BY DEF ContractInv, ResolvableInv
<1>g. artifacts \subseteq artifacts'
  BY <1>t, RowsRemain
<1> SUFFICES ASSUME NEW r \in Runs,
                    NEW k \in {Regeneration(r), HumanReview(r)}, k \in DOMAIN steps'
             PROVE  HasFailedReview(r)
  BY <1>g DEF RoutedAfterFailure, HasFailedReview, Exists, Regeneration, HumanReview,
              FirstAttempt
<1>1. CASE k \in DOMAIN steps
  BY <1>1 DEF RoutedAfterFailure, Exists
<1>2. CASE k \notin DOMAIN steps
  <2>1. PICK w \in Workers : pc[w] = "next_step" /\ Step(w) = Routing(r)
    BY <1>2, RoutingCreates
  <2>2. msg[w] \in Messages /\ pc[w] \in ResultLabels
    BY <2>1 DEF Messages, ResultLabels, TryLabels
  <2>3. msg[w].input \in artifacts /\ msg[w].input.run = r
    BY <2>1, <2>2
       DEF ContractInv, ResolvableInv, MessagesResolvable, Step, Routing, FirstAttempt
  <2>4. InputFits("failure_routing", msg[w].input.content)
    BY <2>1, <2>2, ResultKeepsTheContract DEF Routing, FirstAttempt
  <2> QED
    BY <2>3, <2>4 DEF InputFits, HasFailedReview
<1> QED
  BY <1>1, <1>2

LEMMA RoutedOneWayStep ==
  ASSUME RoutingInv, [Next]_vars
  PROVE  RoutedOneWay'
<1>t. TypeOK
  BY DEF RoutingInv, ContractInv, ResolvableInv
<1> SUFFICES ASSUME NEW r \in Runs
             PROVE  /\ Regeneration(r) \in DOMAIN steps' => RoutedBy(r, "prompt")'
                    /\ HumanReview(r) \in DOMAIN steps' => RoutedBy(r, "failure_result")'
  BY DEF RoutedOneWay, Exists, Regeneration, HumanReview, FirstAttempt
<1>1. ASSUME NEW type, RoutedBy(r, type) PROVE RoutedBy(r, type)'
  <2>1. \A v \in Workers : ~GivesUp(v, Routing(r))
    BY <1>1 DEF RoutedBy, GivesUp, RoutingInv, RaisesUnbound
  <2>2. /\ StatusOf(Routing(r))' = "completed"
        /\ steps'[Routing(r)].output = steps[Routing(r)].output
    BY <1>1, <2>1, CompletedRowStays DEF RoutedBy, RoutingInv
  <2> QED
    BY <1>1, <2>2 DEF RoutedBy, StatusOf, Exists, Routing, FirstAttempt
<1>2. ASSUME NEW k \in {Regeneration(r), HumanReview(r)},
             k \in DOMAIN steps', k \notin DOMAIN steps
      PROVE  IF k = Regeneration(r) THEN RoutedBy(r, "prompt")
                                    ELSE RoutedBy(r, "failure_result")
  <2>1. PICK w \in Workers :
          /\ pc[w] = "next_step" /\ Step(w) = Routing(r)
          /\ StatusNameBound
          /\ IF k = Regeneration(r) THEN result[w].content.type = "prompt"
                                    ELSE result[w].content.type = "failure_result"
    BY <1>2, RoutingCreates DEF RoutingInv
  <2>2. pc[w] \in PastLabels
    BY <2>1 DEF PastLabels, TryLabels
  <2>3. StatusOf(Step(w)) = "completed" /\ steps[Step(w)].output = Output(w)
    BY <2>2 DEF RoutingInv, OrphanInv, CompletedPast, OutputRecorded
  <2> QED
    BY <2>1, <2>3 DEF RoutedBy, Output
<1>3. Regeneration(r) # HumanReview(r)
  BY DEF Regeneration, HumanReview, FirstAttempt
<1>4. ASSUME Regeneration(r) \in DOMAIN steps' PROVE RoutedBy(r, "prompt")
  <2>1. CASE Regeneration(r) \in DOMAIN steps
    BY <2>1 DEF RoutingInv, RoutedOneWay, Exists
  <2>2. CASE Regeneration(r) \notin DOMAIN steps
    BY <1>2, <1>4, <2>2
  <2> QED
    BY <2>1, <2>2
<1>5. ASSUME HumanReview(r) \in DOMAIN steps' PROVE RoutedBy(r, "failure_result")
  <2>1. CASE HumanReview(r) \in DOMAIN steps
    BY <2>1 DEF RoutingInv, RoutedOneWay, Exists
  <2>2. CASE HumanReview(r) \notin DOMAIN steps
    BY <1>2, <1>3, <1>5, <2>2
  <2> QED
    BY <2>1, <2>2
<1> QED
  BY <1>1, <1>4, <1>5

LEMMA RoutingStep ==
  ASSUME MaxFaults = 0, RoutingInv, [Next]_vars
  PROVE  RoutingInv'
BY ContractStep, OrphanStep, OutputRecordedStep, RaisesUnboundStep, RoutedOneWayStep,
   RoutedAfterFailureStep DEF RoutingInv

(***************************************************************************)
(* A run is sent back or to a human only after one of its reviews stored a *)
(* failure, through every fault, whatever the routing action is configured *)
(* to and whether the import is repaired or not: failure routing takes its *)
(* input from the stage that names it.                                     *)
(***************************************************************************)
THEOREM RoutedOnFailureOnlyHolds == Spec => []RoutedOnFailureOnly
<1> DEFINE Inv == ContractInv /\ RoutedAfterFailure
<1>1. Init => Inv
  BY ContractInit, RoutingInit DEF RoutingInv
<1>2. Inv /\ [Next]_vars => Inv'
  BY ContractStep, RoutedAfterFailureStep
<1>3. Inv => RoutedOnFailureOnly
  BY DEF RoutedAfterFailure, HasFailedReview, RoutedOnFailureOnly, Exists
<1> HIDE DEF Inv
<1> QED
  BY <1>1, <1>2, <1>3, PTL DEF Spec
-----------------------------------------------------------------------------
(***************************************************************************)
(* The stages in the order in which a run takes them.  Only the failure    *)
(* routing sends work back, when it is configured to, and it does so by    *)
(* way of a status override, which nothing comes after while               *)
(* WorkflowStatus is not imported.                                         *)
(***************************************************************************)
Rank == [t \in StepType |->
           CASE t = "ticket_to_prompt"    -> 0
             [] t = "prompt_to_code"      -> 1
             [] t = "test_runner"         -> 2
             [] t = "requirements_review" -> 3
             [] t = "policy_review"       -> 4
             [] t = "code_review"         -> 5
             [] t = "failure_routing"     -> 6
             [] t = "human_review"        -> 7]

SentBack == {HandOff("prompt_to_code", 2)}

LEMMA RankTyped == Rank \in [StepType -> Nat]
BY DEF Rank, StepType

LEMMA HandlersGoForward ==
  /\ Forward(Rank, SentBack)
  /\ ~StatusNameBound \/ "regenerate" \notin RoutingActions => Forward(Rank, {})
<1> SUFFICES ASSUME NEW t \in StepType, NEW c \in Content, NEW res \in Results(t, c)
             PROVE  /\ res.next # None =>
                         \/ Rank[t] < Rank[res.next]
                         \/ /\ HandOff(res.next, res.attempt) \in SentBack
                            /\ res.override # None
                            /\ "regenerate" \in RoutingActions
                    /\ res.failure => Rank[t] < Rank["failure_routing"]
  BY DEF Forward
<1>1. res \in HandlerResults(t, c)
  BY HandlersAssumption
<1>2. CASE t \in {"ticket_to_prompt", "prompt_to_code"}
  BY <1>1, <1>2, PromptResults DEF HandlerResults, Rank, StepType
<1>3. CASE t = "test_runner"
  BY <1>1, <1>3
     DEF HandlerResults, TestRunner, Proceed, ReviewFailed, Rank, StepType
<1>4. CASE t = "requirements_review"
  BY <1>1, <1>4
     DEF HandlerResults, RequirementsReview, Proceed, ReviewFailed, Rank, StepType
<1>5. CASE t = "policy_review"
  BY <1>1, <1>5
     DEF HandlerResults, PolicyReview, Proceed, ReviewFailed, Rank, StepType
<1>6. CASE t = "code_review"
  BY <1>1, <1>6
     DEF HandlerResults, CodeReview, ReviewPassed, ReviewFailed, Rank, StepType, None
<1>7. CASE t = "failure_routing"
  <2>1. (SendsBack(res) /\ "regenerate" \in RoutingActions) \/ AsksHuman(res)
    BY <1>1, <1>7, FailureRoutingResults DEF HandlerResults
  <2> QED
    BY <1>7, <2>1 DEF SendsBack, AsksHuman, SentBack, HandOff, Rank, StepType, None
<1>8. CASE t = "human_review"
  BY <1>1, <1>8 DEF HandlerResults
<1> QED
  BY <1>2, <1>3, <1>4, <1>5, <1>6, <1>7, <1>8 DEF StepType

(***************************************************************************)
(* StrandedRunsNeedFaults, for the pipeline as it is committed, and with   *)
(* the import repaired for one that sends every failure to a human.        *)
(***************************************************************************)
THEOREM RunsAreStrandedByFaultsAlone ==
  ASSUME ~StatusNameBound \/ "regenerate" \notin RoutingActions
  PROVE  Spec => []StrandedRunsNeedFaults
<1>1. Rank \in [StepType -> Nat] /\ Forward(Rank, {})
  BY RankTyped, HandlersGoForward
<1> QED
  BY <1>1, StrandedRunsNeedFaultsHolds

(***************************************************************************)
(* A run that is sent back is left without a message (the violation        *)
(* FailedRegenerationsReachAHuman shows).  It is the only way: without     *)
(* faults, and with the import repaired or not, every other running run    *)
(* has a message.                                                          *)
(***************************************************************************)
OnlySentBackAreStranded == \A r \in Stranded : Exists(Regeneration(r))

THEOREM OnlySentBackAreStrandedHolds ==
  ASSUME MaxFaults = 0
  PROVE  Spec => []OnlySentBackAreStranded
<1> DEFINE Counted == AdriftCounted(Rank, SentBack)
<1>1. Init => ReturnInv /\ Counted
  BY ReturnInit, AdriftInit
<1>2. ReturnInv /\ Counted /\ [Next]_vars => ReturnInv' /\ Counted'
  BY ReturnStep, AdriftStep, RankTyped, HandlersGoForward
<1>3. ReturnInv /\ Counted => OnlySentBackAreStranded
  <2> SUFFICES ASSUME ReturnInv, Counted, NEW r \in Stranded
               PROVE  Exists(Regeneration(r))
    BY DEF OnlySentBackAreStranded
  <2>t. TypeOK /\ faults = 0
    BY DEF ReturnInv, ExclusiveInv, TypeOK
  <2>1. Adrift(Rank, SentBack) = {}
    <3>1. IsFiniteSet(Adrift(Rank, SentBack)) /\ Cardinality(Adrift(Rank, SentBack)) <= 0
      BY <2>t DEF AdriftCounted
    <3>2. Cardinality(Adrift(Rank, SentBack)) = 0
      BY <3>1, FS_CardinalityType
    <3> QED
      BY <3>1, <3>2, FS_EmptySet
  <2>2. PICK k \in DOMAIN steps :
          k.run = r /\ HandOff(k.type, k.attempt) = HandOff("prompt_to_code", 2)
    BY <2>t, <2>1, StrandedIsAdrift DEF Detoured, SentBack
  <2>3. k \in StepKey /\ k.type = "prompt_to_code" /\ k.attempt = 2
    BY <2>t, <2>2 DEF TypeOK, DbTypeOK, HandOff
  <2>4. k = Regeneration(r)
    BY <2>2, <2>3 DEF StepKey, Regeneration, FirstAttempt
  <2> QED
    BY <2>2, <2>4 DEF Exists
<1> HIDE DEF Counted
<1> QED
  BY <1>1, <1>2, <1>3, PTL DEF Spec
-----------------------------------------------------------------------------
(***************************************************************************)
(* Without faults.  Before a run is sent back, its status is what the work *)
(* at hand accounts for: running until a review has its verdict, then that *)
(* verdict, and failed until the failure routing has written its override. *)
(***************************************************************************)
ReportLabels == {"terminal_event", "failure_step", "failure_publish"}

JudgedByItsWork(r) ==
  /\ request[r] = "create_run" => runs[r] = "absent"
  /\ request[r] \in Unsent \ {"create_run"} => runs[r] = "running"
  /\ \A m \in Live(r) :
       /\ m.step.type \notin {"failure_routing", "human_review"} =>
            \/ runs[r] = "running"
            \/ \E w \in Workers : msg[w] = m /\ pc[w] \in ReportLabels
       /\ m.step.type = "failure_routing" =>
            \/ runs[r] = "failed"
            \/ \E w \in Workers : msg[w] = m /\ pc[w] \in {"next_step", "publish"}
  /\ \A w \in Workers :
       Handles(w, r) /\ pc[w] \in ReportLabels => runs[r] = result[w].terminal

(***************************************************************************)
(* After it, nobody is about to write a status: the prompt is turned into  *)
(* code once more, and the test run that the code is handed to is          *)
(* completed, so that the message for it is acknowledged unread.           *)
(***************************************************************************)
TestRun(r) == FirstAttempt(r, "test_runner")

ReworkLabels == {"claim", "skip", "start", "process", "store", "complete",
                 "next_step", "publish"}

Reworks(w, r) ==
  \/ pc[w] \in SentLabels
  \/ pc[w] = "publish" /\ NextStep(w) = Regeneration(r)
  \/ pc[w] \in ReworkLabels /\ Step(w) = Regeneration(r)
  \/ pc[w] \in {"claim", "skip"} /\ Step(w) = TestRun(r)

Reworking(r) ==
  /\ request[r] \notin Unsent
  /\ StatusOf(TestRun(r)) = "completed"
  /\ \A w \in Workers : Handles(w, r) => Reworks(w, r)
  /\ \A m \in queue :
       m.step.run = r /\ (\A w \in Workers : Handles(w, r) => msg[w] # m)
         => m.step \in {Regeneration(r), TestRun(r)}

\* The steps after the test run are created when it is completed.
TestedFirst ==
  \A k \in DOMAIN steps :
    Rank[k.type] > Rank["test_runner"] => StatusOf(TestRun(k.run)) = "completed"

VerdictInv ==
  /\ RoutingInv /\ ReturnInv /\ Delivered /\ TestedFirst
  /\ \A r \in Runs :
       IF Exists(Regeneration(r)) THEN Reworking(r)
                                  ELSE OnCourse(r, Rank) /\ JudgedByItsWork(r)

LEMMA VerdictInit == Init => VerdictInv
<1> SUFFICES ASSUME Init PROVE VerdictInv
  OBVIOUS
<1>1. \A w \in Workers : pc[w] = "idle"
  BY DEF Init
<1>2. queue = {} /\ DOMAIN steps = {}
  BY DEF Init, DbInit, QueueInit
<1>3. ASSUME NEW r \in Runs PROVE OnCourse(r, Rank) /\ JudgedByItsWork(r)
  <2>1. request[r] = "create_run" /\ runs[r] = "absent"
    BY DEF Init, DbInit
  <2>2. Live(r) = {} /\ \A w \in Workers : ~Handles(w, r)
    BY <1>1, <1>2 DEF Live, Handles
  <2> QED
    BY <1>2, <2>1, <2>2
       DEF OnCourse, OneCarrier, Submission, Carried, Waiting, Ordered, Unsent,
           JudgedByItsWork
<1>4. Delivered
  BY <1>1 DEF Delivered
<1> QED
  BY <1>2, <1>3, <1>4, RoutingInit, ReturnInit DEF VerdictInv, TestedFirst, Exists

\* What a worker of the pipeline is about to do, by its label.
LEMMA WorkIsSorted ==
  ASSUME RoutingInv, NEW w \in Workers, pc[w] \in ResultLabels
  PROVE  /\ pc[w] \notin FinishLabels
         /\ pc[w] = "terminal" \/ pc[w] \in ReportLabels =>
              /\ Step(w).type \notin {"failure_routing", "human_review"}
              /\ result[w].terminal \in {"completed", "failed"}
         /\ pc[w] \in {"failure_step", "failure_publish"} => result[w].terminal = "failed"
         /\ pc[w] = "override" =>
              /\ Step(w).type = "failure_routing"
              /\ result[w].next # None
              /\ SendsBack(result[w]) \/ AsksHuman(result[w])
         /\ pc[w] \in {"next_step", "publish"} =>
              /\ Step(w).attempt # 1 => Step(w).type = "prompt_to_code"
              /\ NextStep(w) \in Successors(Step(w))
         /\ Step(w).type = "prompt_to_code" =>
              /\ result[w].terminal = None /\ result[w].override = None
              /\ result[w].next = "test_runner" /\ result[w].attempt = 1
<1>c. ContractInv /\ Branch(pc[w], result[w])
  BY DEF RoutingInv, ContractInv, BranchTaken
<1>1. /\ Step(w).type \in StepType /\ msg[w].input.content \in Content
      /\ Step(w).attempt # 1 => Step(w).type = "prompt_to_code"
      /\ \/ Ends(Step(w).type, msg[w].input.content, result[w])
         \/ GoesOn(Step(w).type, result[w])
  BY <1>c, ResultKeepsTheContract
<1>2. pc[w] \notin FinishLabels
  BY <1>c, <1>1 DEF Branch, Ends, GoesOn, None
<1>3. pc[w] = "terminal" \/ pc[w] \in ReportLabels =>
        /\ Step(w).type \notin {"failure_routing", "human_review"}
        /\ result[w].terminal \in {"completed", "failed"}
        /\ pc[w] \in {"failure_step", "failure_publish"} => result[w].terminal = "failed"
  BY <1>c, <1>1
     DEF Branch, TerminalLabels, FailureLabels, ReportLabels, Ends, GoesOn, ReviewStages
<1>4. pc[w] = "override" =>
        /\ Step(w).type = "failure_routing"
        /\ result[w].next # None
        /\ SendsBack(result[w]) \/ AsksHuman(result[w])
  BY <1>c, <1>1 DEF Branch, Ends, GoesOn, None
<1>5. pc[w] \in {"next_step", "publish"} => NextStep(w) \in Successors(Step(w))
  BY <1>c, <1>1 DEF Branch, HandOnLabels, Ends, GoesOn, NextStep
<1>6. Step(w).type = "prompt_to_code" =>
        /\ result[w].terminal = None /\ result[w].override = None
        /\ result[w].next = "test_runner" /\ result[w].attempt = 1
  <2>1. result[w] \in HandlerResults(Step(w).type, msg[w].input.content)
    BY <1>c DEF ContractInv, ResultsFit
  <2> QED
    BY <1>1, <2>1, PromptResults DEF HandlerResults
<1> QED
  BY <1>1, <1>2, <1>3, <1>4, <1>5, <1>6 DEF ReportLabels

(***************************************************************************)
(* A completed test run stays completed.                                   *)
(***************************************************************************)
LEMMA TestRunStays ==
  ASSUME RoutingInv, [Next]_vars, NEW r \in Runs, StatusOf(TestRun(r)) = "completed"
  PROVE  StatusOf(TestRun(r))' = "completed"
<1>t. TypeOK
  BY DEF RoutingInv, ContractInv, ResolvableInv
<1> PICK k : k = TestRun(r)
  OBVIOUS
<1>1. k.type = "test_runner"
  BY DEF TestRun, FirstAttempt
<1>2. \A v \in Workers : ~GivesUp(v, k)
  BY <1>1 DEF GivesUp, RoutingInv, RaisesUnbound
<1>3. StatusOf(k)' = "completed"
  BY <1>t, <1>2, StatusIsKept DEF StatusKept
<1> QED
  BY <1>3 DEF TestRun, FirstAttempt, StatusOf, Exists

LEMMA TestedFirstStep ==
  ASSUME RoutingInv, TestedFirst, [Next]_vars
  PROVE  TestedFirst'
<1>t. TypeOK /\ TypeOK'
  BY NextTyped DEF RoutingInv, ContractInv, ResolvableInv
<1> SUFFICES ASSUME NEW k \in DOMAIN steps', Rank[k.type] > Rank["test_runner"]
             PROVE  StatusOf(TestRun(k.run))' = "completed"
  BY DEF TestedFirst
<1>k. k \in StepKey
  BY <1>t DEF TypeOK, DbTypeOK
<1>1. SUFFICES StatusOf(TestRun(k.run)) = "completed"
  BY <1>k, TestRunStays DEF StepKey
<1>2. CASE k \in DOMAIN steps
  BY <1>2 DEF TestedFirst
<1>3. ASSUME NEW w \in Workers, pc[w] \in {"next_step", "failure_step"},
             k.run = Step(w).run,
             \/ Rank[Step(w).type] > Rank["test_runner"]
             \/ Step(w) = TestRun(k.run)
      PROVE  StatusOf(TestRun(k.run)) = "completed"
  <2>1. StatusOf(Step(w)) = "completed"
    BY <1>3 DEF RoutingInv, OrphanInv, CompletedPast, PastLabels, TryLabels
  <2>2. Step(w) \in DOMAIN steps
    BY <2>1 DEF StatusOf, Exists
  <2> QED
    BY <1>3, <2>1, <2>2 DEF TestedFirst
<1>4. CASE k \notin DOMAIN steps
  <2>r. Rank["test_runner"] = 2 /\ Rank["ticket_to_prompt"] = 0
        /\ Rank["prompt_to_code"] = 1 /\ Rank["failure_routing"] = 6
        /\ Rank["requirements_review"] = 3 /\ Rank["policy_review"] = 4
        /\ Rank["code_review"] = 5
    BY DEF Rank, StepType
  <2>1. ASSUME NEW w \in Workers, pc[w] = "next_step", k = NextStep(w)
        PROVE  StatusOf(TestRun(k.run)) = "completed"
    <3>1. /\ NextStep(w) \in Successors(Step(w))
          /\ Step(w).attempt # 1 => Step(w).type = "prompt_to_code"
          /\ Step(w) \in StepKey
      BY <1>t, <2>1, WorkIsSorted, StepTyped DEF ResultLabels, TryLabels
    <3>2. k.run = Step(w).run
      BY <2>1 DEF NextStep
    <3>3. \/ k.type \in {"prompt_to_code", "test_runner"}
          \/ Step(w).type \in {"requirements_review", "policy_review", "failure_routing"}
          \/ Step(w).type = "test_runner"
      BY <2>1, <3>1 DEF Successors, FirstAttempt
    <3>4. Step(w).type = "test_runner" => Step(w) = TestRun(k.run)
      BY <3>1, <3>2 DEF TestRun, FirstAttempt, StepKey
    <3> QED
      BY <1>3, <2>r, <2>1, <3>2, <3>3, <3>4
  <2>2. ASSUME NEW w \in Workers, pc[w] = "failure_step", k = FailureStep(w)
        PROVE  StatusOf(TestRun(k.run)) = "completed"
    <3>1. Step(w).type \in ReviewStages /\ Step(w).attempt = 1 /\ Step(w) \in StepKey
      <4>1. /\ pc[w] \in ResultLabels /\ Branch(pc[w], result[w]) /\ ContractInv
        BY <2>2 DEF RoutingInv, ContractInv, BranchTaken, ResultLabels, TryLabels
      <4>2. Step(w).type \in ReviewStages
        BY <2>2, <4>1, ResultKeepsTheContract
           DEF Branch, TerminalLabels, FailureLabels, Ends, GoesOn, ReviewStages
      <4>3. Step(w).attempt # 1 => Step(w).type = "prompt_to_code"
        BY <4>1, ResultKeepsTheContract
      <4> QED
        BY <1>t, <2>2, <4>2, <4>3, StepTyped DEF ReviewStages
    <3>2. k.run = Step(w).run
      BY <2>2 DEF FailureStep, FirstAttempt
    <3>3. Step(w).type = "test_runner" => Step(w) = TestRun(k.run)
      BY <3>1, <3>2 DEF TestRun, FirstAttempt, StepKey
    <3> QED
      BY <1>3, <2>r, <2>2, <3>1, <3>2, <3>3 DEF ReviewStages
  <2>3. ASSUME NEW r \in Runs, k = FirstStep(r) PROVE FALSE
    BY <2>r, <2>3 DEF FirstStep, FirstAttempt
  <2> QED
    BY <1>t, <1>4, <2>1, <2>2, <2>3, StepsAreCreated
<1> QED
  BY <1>2, <1>4

(***************************************************************************)
(* JudgedByItsWork is kept: by the steps of other runs, ...                *)
(***************************************************************************)
LEMMA UntouchedIsJudged ==
  ASSUME NEW r \in Runs, JudgedByItsWork(r), Untouched(r)
  PROVE  JudgedByItsWork(r)'
<1>1. /\ \A w \in Workers :
           /\ Handles(w, r)' <=> Handles(w, r)
           /\ Handles(w, r) => /\ pc'[w] = pc[w] /\ msg'[w] = msg[w]
                               /\ linked'[w] = linked[w] /\ result'[w] = result[w]
      /\ Live(r)' = Live(r)
  BY UntouchedViews
<1>2. runs'[r] = runs[r] /\ request'[r] = request[r]
  BY DEF Untouched
<1>3. ASSUME NEW m \in Live(r), NEW w \in Workers, msg[w] = m,
             pc[w] \in ReportLabels \cup {"next_step", "publish"}
      PROVE  msg'[w] = m /\ pc'[w] = pc[w]
  <2>1. Handles(w, r)
    BY <1>3 DEF Handles, Step, Live, ReportLabels
  <2> QED
    BY <1>1, <1>3, <2>1
<1> QED
  BY <1>1, <1>2, <1>3 DEF JudgedByItsWork

\* ... by the request that creates the run, ...
LEMMA RequestIsJudged ==
  ASSUME TypeOK, NEW r \in Runs, JudgedByItsWork(r), OnCourse(r, Rank), OnCourse(r, Rank)',
         RequestMoves(r), faults' = faults
  PROVE  JudgedByItsWork(r)'
<1>t. runs \in [Runs -> WorkflowStatus \cup {"absent"}] /\ faults \in Nat
  BY FaultAssumption DEF TypeOK, DbTypeOK
<1>1. request'[r] # "error" /\ RequestCalls(r) /\ UNCHANGED <<pc, result>>
  BY <1>t, RequestFate
<1>2. UNCHANGED <<msg, linked>>
  BY <1>1 DEF RequestCalls, Publish, queueVars
<1>3. OneCarrier(r) /\ Submission(r) /\ OneCarrier(r)' /\ Submission(r)'
  BY DEF OnCourse
<1>4. CASE request[r] = "started_event"
  <2>1. request'[r] = "done" /\ UNCHANGED <<dbVars, queueVars>>
    BY <1>1, <1>4 DEF RequestCalls
  <2>2. Live(r)' = Live(r) /\ runs' = runs /\ \A w : Handles(w, r)' <=> Handles(w, r)
    BY <1>1, <1>2, <2>1 DEF Live, Handles, Step, queueVars, dbVars
  <2> QED
    BY <1>1, <1>2, <2>1, <2>2 DEF JudgedByItsWork, Unsent
<1>5. CASE request[r] \in Unsent
  <2>1. \A w \in Workers : ~Handles(w, r)'
    BY <1>1, <1>2, <1>3, <1>5 DEF Submission, OneCarrier, Handles, Step
  <2>2. runs'[r] = "running" /\ request'[r] # "create_run"
    <3>1. CASE request[r] = "create_run"
      BY <1>1, <1>t, <3>1 DEF RequestCalls, CreateWorkflowRun
    <3>2. CASE request[r] # "create_run"
      <4>1. runs[r] = "running"
        BY <1>5, <3>2 DEF JudgedByItsWork
      <4> QED
        BY <1>1, <1>5, <3>2, <4>1
           DEF RequestCalls, Unsent, CreateArtifact, CreateWorkflowStep, dbVars
    <3> QED
      BY <3>1, <3>2
  <2>3. \A m \in Live(r)' : m.step.type = "ticket_to_prompt"
    <3>1. \A m \in queue : m.step.run # r
      BY <1>3, <1>5 DEF Submission
    <3>2. \A m \in queue' : m \in queue \/ m.step = FirstStep(r)
      BY <1>1 DEF RequestCalls, Publish, queueVars
    <3> QED
      BY <3>1, <3>2 DEF Live, FirstStep, FirstAttempt
  <2> QED
    BY <2>1, <2>2, <2>3 DEF JudgedByItsWork
<1> QED
  BY <1>1, <1>4, <1>5 DEF RequestCalls, Unsent

\* ... by a worker that takes up or is done with its message, ...
LEMMA TakenIsJudged ==
  ASSUME TypeOK, NEW r \in Runs, JudgedByItsWork(r), OnCourse(r, Rank),
         NEW u \in Workers, Moves(u),
         \/ Received(u) /\ Handles(u, r)'
         \/ Handles(u, r) /\ Returned(u)
         \/ Handles(u, r) /\ Abandoned(u) /\ pc[u] = "except_event"
  PROVE  JudgedByItsWork(r)'
<1>o. OtherWorkersStay(u)
  BY OthersStay DEF OtherWorkersStay, Moves
<1>1. OneCarrier(r) /\ request' = request
  BY WorkerWrites DEF OnCourse
<1>2. runs' = runs
  <2>1. Writes(u) \/ WritesNothing(u)
    BY WorkerWrites
  <2>2. pc[u] \in {"idle", "skip", "terminal_event", "failure_event", "finish_event",
                   "publish_event", "except_event"}
    BY DEF Received, Returned, ReturnLabels
  <2> QED
    BY <2>1, <2>2 DEF Writes, WritesNothing, RecordEvent, dbVars
<1>3. /\ \A m \in Live(r)' : m \in Live(r)
      /\ pc'[u] \in {"idle", "claim"}
      /\ \A m \in Live(r)' :
           msg[u] = m => pc[u] \in {"idle", "except_event"}
  <2>1. CASE Received(u)
    <3>1. queue' = queue /\ pc[u] = "idle" /\ pc'[u] = "claim"
      BY <2>1 DEF Received, Deliver
    <3> QED
      BY <1>o, <3>1 DEF Live, SentLabels, OtherWorkersStay
  <2>2. CASE Handles(u, r) /\ Returned(u)
    <3>1. queue' = queue \ {msg[u]} /\ pc'[u] = "idle"
      BY <1>1, <2>2 DEF Returned, Acknowledge, OneCarrier
    <3> QED
      BY <1>o, <3>1 DEF Live, SentLabels, OtherWorkersStay
  <2>3. CASE Abandoned(u) /\ pc[u] = "except_event"
    <3>1. queue' = queue /\ pc'[u] = "idle"
      BY <2>3 DEF Abandoned, Requeue
    <3> QED
      BY <1>o, <2>3, <3>1 DEF Live, SentLabels, OtherWorkersStay
  <2> QED
    BY <2>1, <2>2, <2>3
<1>4. ASSUME NEW m \in Live(r)', NEW w \in Workers, msg[w] = m,
             pc[w] \in ReportLabels \cup {"next_step", "publish"}
      PROVE  msg'[w] = m /\ pc'[w] = pc[w]
  <2>1. w # u
    BY <1>3, <1>4 DEF ReportLabels
  <2> QED
    BY <1>o, <1>4, <2>1 DEF OtherWorkersStay
<1>5. ASSUME NEW w \in Workers, Handles(w, r)', pc'[w] \in ReportLabels
      PROVE  /\ Handles(w, r) /\ pc[w] \in ReportLabels
             /\ result'[w] = result[w]
  <2>1. w # u
    BY <1>3, <1>5 DEF ReportLabels
  <2> QED
    BY <1>o, <1>5, <2>1 DEF OtherWorkersStay, Handles, Step
<1> QED
  BY <1>1, <1>2, <1>3, <1>4, <1>5 DEF JudgedByItsWork

\* ... and by a worker that goes on with it, until the run is sent back.
LEMMA CarrierIsJudged ==
  ASSUME RoutingInv, TypeOK, NEW r \in Runs, JudgedByItsWork(r),
         OnCourse(r, Rank), OnCourse(r, Rank)',
         NEW u \in Workers, Moves(u), Handles(u, r), faults' = faults,
         Processed(u) \/ Advanced(u) \/ (Caught(u) /\ Unsupported(u) /\ UNCHANGED queueVars),
         ~Exists(Regeneration(r))
  PROVE  JudgedByItsWork(r)'
<1>o. OtherWorkersStay(u)
  BY OthersStay DEF OtherWorkersStay, Moves
<1>t. runs \in [Runs -> WorkflowStatus \cup {"absent"}] /\ Step(u).run = r
  BY DEF TypeOK, DbTypeOK, Handles
<1>1. /\ OneCarrier(r) /\ OneCarrier(r)' /\ Submission(r) /\ OnTime(u, r)
      /\ request' = request /\ (Writes(u) \/ WritesNothing(u))
  BY WorkerWrites DEF OnCourse
<1>2. pc[u] \notin SentLabels /\ pc'[u] # "idle" /\ msg'[u] = msg[u]
  BY DEF Processed, Advanced, Onward, AfterComplete, AfterOverride, Sends, Publish,
         Caught, Unsupported, SentLabels, queueVars
<1>3. /\ Live(r) = {msg[u]} /\ msg[u] \in queue /\ msg[u].step.run = r
      /\ \A v \in Workers : v # u /\ Handles(v, r) => pc[v] \in SentLabels
  BY <1>1, <1>2, LiveCarrier DEF OneCarrier, Handles, Step
<1>4. request[r] \notin Unsent
  BY <1>1, <1>3 DEF Submission
<1>5. ASSUME NEW w \in Workers, Handles(w, r)',
             pc'[w] \in ReportLabels \cup {"next_step", "publish"}
      PROVE  w = u
  <2>1. CASE w # u
    <3>1. pc'[w] = pc[w] /\ Handles(w, r)
      BY <1>o, <1>5, <2>1 DEF OtherWorkersStay, Handles, Step
    <3> QED
      BY <1>3, <1>5, <2>1, <3>1 DEF SentLabels, ReportLabels
  <2> QED
    BY <2>1
<1>6. ASSUME NEW w \in Workers, msg[w] = msg[u],
             pc[w] \in ReportLabels \cup {"next_step", "publish"}
      PROVE  w = u
  <2>1. Handles(w, r)
    BY <1>t, <1>6 DEF Handles, Step, ReportLabels
  <2> QED
    BY <1>3, <1>6, <2>1 DEF SentLabels, ReportLabels
\* What the work at hand says of the run before the step.
<1>7. /\ Step(u).type \notin {"failure_routing", "human_review"} =>
           runs[r] = "running" \/ pc[u] \in ReportLabels
      /\ Step(u).type = "failure_routing" =>
           runs[r] = "failed" \/ pc[u] \in {"next_step", "publish"}
      /\ pc[u] \in ReportLabels => runs[r] = result[u].terminal
  BY <1>3, <1>6 DEF JudgedByItsWork, Step
<1>r. /\ pc[u] \in ReportLabels \cup {"terminal", "override", "next_step", "publish"}
           => pc[u] \in ResultLabels
      /\ pc[u] # "finish"
  <2>1. ReportLabels \cup {"terminal", "override", "next_step", "publish", "finish"}
          \subseteq ResultLabels
    BY DEF ReportLabels, ResultLabels, TryLabels
  <2>2. pc[u] = "finish" => pc[u] \notin FinishLabels
    BY <2>1, WorkIsSorted
  <2> QED
    BY <2>1, <2>2 DEF FinishLabels
\* It does not publish.
<1>8. CASE pc[u] \notin {"publish", "failure_publish"}
  <2>1. queue' = queue /\ pc'[u] \notin SentLabels
    BY <1>8 DEF Processed, Advanced, Onward, AfterComplete, AfterOverride, Sends,
                Caught, Unsupported, SentLabels, queueVars
  <2>2. Live(r)' = {msg[u]}
    <3>1. msg[u] \in Live(r)'
      <4>1. ASSUME NEW w \in Workers, pc'[w] \in SentLabels, msg'[w] = msg[u] PROVE FALSE
        <5>1. w # u
          BY <2>1, <4>1
        <5>2. pc[w] \in SentLabels /\ msg[w] = msg[u]
          BY <1>o, <4>1, <5>1 DEF OtherWorkersStay
        <5>3. Handles(w, r)
          BY <1>t, <5>2 DEF Handles, Step, SentLabels
        <5> QED
          BY <1>1, <5>1, <5>2, <5>3 DEF OneCarrier
      <4> QED
        BY <1>3, <2>1, <4>1 DEF Live
    <3> QED
      BY <1>1, <3>1 DEF OneCarrier
  <2>3. /\ Step(u).type \notin {"failure_routing", "human_review"} =>
             runs'[r] = "running" \/ pc'[u] \in ReportLabels
        /\ Step(u).type = "failure_routing" =>
             runs'[r] = "failed" \/ pc'[u] \in {"next_step", "publish"}
        /\ pc'[u] \in ReportLabels => runs'[r] = result'[u].terminal
    <3>1. CASE pc[u] = "terminal"
      <4>1. Step(u).type \notin {"failure_routing", "human_review"}
            /\ result[u].terminal \in {"completed", "failed"}
        BY <1>r, <3>1, WorkIsSorted
      <4>2. Advanced(u) /\ pc'[u] = "terminal_event"
        BY <3>1, <4>1 DEF Processed, Advanced, Onward, Caught, Unsupported
      <4>3. MarkWorkflow(r, result[u].terminal) /\ result' = result
        BY <1>1, <1>t, <3>1, <4>2 DEF Writes, WritesNothing, SilentLabels, Advanced
      <4> QED
        BY <1>t, <4>1, <4>2, <4>3 DEF MarkWorkflow, ReportLabels
    <3>2. CASE pc[u] = "override" /\ Advanced(u)
      <4>1. Step(u).type = "failure_routing" /\ result[u].next # None
        BY <1>r, <3>2, WorkIsSorted
      <4>2. pc'[u] = "next_step"
        BY <3>2, <4>1 DEF Advanced, Onward, AfterOverride
      <4> QED
        BY <4>1, <4>2 DEF ReportLabels
    <3>3. CASE pc[u] # "terminal" /\ ~(pc[u] = "override" /\ Advanced(u))
      <4>1. runs' = runs
        <5>1. CASE WritesNothing(u)
          BY <5>1 DEF WritesNothing, dbVars
        <5>2. CASE pc[u] = "override" /\ ~Advanced(u)
          <6>1. Caught(u) /\ Unsupported(u)
            BY <5>2 DEF Processed
          <6> QED
            BY <1>1, <5>1, <5>2, <6>1 DEF Writes, Unsupported
        <5>3. CASE Writes(u) /\ pc[u] \notin {"terminal", "override", "finish"}
          BY <5>3 DEF Writes, ClaimStepForProcessing, CreateArtifact, MarkStepCompleted,
                      RecordEvent, CreateWorkflowStep, MarkStepFailed
        <5> QED
          BY <1>1, <1>r, <3>3, <5>1, <5>2, <5>3
      <4>2. pc[u] \in ReportLabels => pc'[u] \in ReportLabels /\ result' = result
        BY <1>8 DEF ReportLabels, Processed, Advanced, Onward, Caught, Unsupported
      <4>3. pc'[u] \in ReportLabels => pc[u] \in ReportLabels
        BY <3>3 DEF ReportLabels, Processed, Advanced, Onward, AfterComplete,
                    AfterOverride, Caught
      <4>4. pc[u] = "next_step" => pc'[u] = "publish"
        BY DEF Processed, Advanced, Onward, Caught, Unsupported
      <4> QED
        BY <1>7, <1>8, <4>1, <4>2, <4>3, <4>4
    <3> QED
      BY <3>1, <3>2, <3>3
  <2>4. ASSUME NEW w \in Workers, Handles(w, r)', pc'[w] \in ReportLabels
        PROVE  runs'[r] = result'[w].terminal
    BY <1>5, <2>3, <2>4
  <2> QED
    BY <1>1, <1>2, <1>4, <2>2, <2>3, <2>4 DEF JudgedByItsWork, Step, Unsent
\* It hands the work on.
<1>9. CASE pc[u] \in {"publish", "failure_publish"}
  <2>1. Advanced(u) /\ pc'[u] \in SentLabels
    BY <1>9 DEF Processed, Advanced, Onward, Caught, Unsupported, SentLabels
  <2>2. runs' = runs
    BY <1>1, <1>9 DEF Writes, WritesNothing, dbVars
  <2> PICK k : k = IF pc[u] = "publish" THEN NextStep(u) ELSE FailureStep(u)
    OBVIOUS
  <2> PICK m : m = [tag |-> published + 1, step |-> k, input |-> Output(u)]
    OBVIOUS
  <2>3. queue' = queue \cup {m}
    BY <1>9, <2>1 DEF Advanced, Sends, Publish
  <2>4. \A n \in Live(r)' : n = m
    <3>1. ASSUME NEW n \in Live(r)', n \in queue PROVE FALSE
      <4>1. n # msg[u]
        BY <1>2, <2>1, <3>1 DEF Live
      <4>2. n \notin Live(r)
        BY <1>3, <4>1
      <4>3. PICK w \in Workers : pc[w] \in SentLabels /\ msg[w] = n
        BY <3>1, <4>2 DEF Live
      <4>4. w # u
        BY <1>2, <4>3
      <4>5. pc'[w] \in SentLabels /\ msg'[w] = n
        BY <1>o, <4>3, <4>4 DEF OtherWorkersStay
      <4> QED
        BY <3>1, <4>5 DEF Live
    <3> QED
      BY <2>3, <3>1 DEF Live
  <2>5. /\ k.type \notin {"failure_routing", "human_review"} => runs[r] = "running"
        /\ k.type = "failure_routing" => runs[r] = "failed"
    <3>1. CASE pc[u] = "failure_publish"
      <4>1. k.type = "failure_routing"
        BY <3>1 DEF FailureStep, FirstAttempt
      <4>2. runs[r] = "failed"
        BY <1>7, <1>r, <3>1, WorkIsSorted DEF ReportLabels
      <4> QED
        BY <4>1, <4>2
    <3>2. CASE pc[u] = "publish"
      <4>1. k = NextStep(u) /\ k \in Successors(Step(u)) /\ Exists(k)
        <5>1. StatusOf(NextStep(u)) = "pending"
          BY <1>1, <3>2 DEF OnTime
        <5> QED
          BY <1>r, <3>2, <5>1, WorkIsSorted DEF StatusOf
      <4>2. CASE Step(u).type = "failure_routing"
        <5>1. k = HumanReview(r)
          BY <1>t, <4>1, <4>2 DEF Successors
        <5> QED
          BY <5>1 DEF HumanReview, FirstAttempt
      <4>3. CASE Step(u).type # "failure_routing"
        <5>1. k.type # "failure_routing" /\ Step(u).type # "human_review"
          BY <4>1, <4>3 DEF Successors, FirstAttempt
        <5> QED
          BY <1>7, <3>2, <4>3, <5>1 DEF ReportLabels
      <4> QED
        BY <4>2, <4>3
    <3> QED
      BY <1>9, <3>1, <3>2
  <2>6. \A w \in Workers : Handles(w, r)' => pc'[w] \notin ReportLabels
    BY <1>5, <2>1 DEF SentLabels, ReportLabels
  <2>7. \A n \in Live(r)' : n.step = k
    BY <2>4
  <2> QED
    BY <1>1, <1>4, <2>2, <2>5, <2>6, <2>7 DEF JudgedByItsWork, Unsent
<1> QED
  BY <1>8, <1>9

(***************************************************************************)
(* The run is sent back.                                                   *)
(***************************************************************************)
LEMMA ReworkingBegins ==
  ASSUME RoutingInv, TestedFirst, [Next]_vars, faults' = faults, NEW r \in Runs,
         OnCourse(r, Rank), ~Exists(Regeneration(r)), Exists(Regeneration(r))'
  PROVE  Reworking(r)'
<1>t. TypeOK /\ faults \in Nat
  BY FaultAssumption DEF RoutingInv, ContractInv, ResolvableInv, TypeOK
<1>k. /\ Regeneration(r) = [run |-> r, type |-> "prompt_to_code", attempt |-> 2]
      /\ Regeneration(r)' = Regeneration(r)
      /\ TestRun(r).run = r /\ TestRun(r)' = TestRun(r)
  BY DEF Regeneration, TestRun, FirstAttempt
<1>1. Regeneration(r) \in DOMAIN steps' /\ Regeneration(r) \notin DOMAIN steps
  BY <1>k DEF Exists
<1>2. PICK u \in Workers : /\ Moves(u) /\ pc[u] = "next_step"
                           /\ NextStep(u) = Regeneration(r)
  <2>0. UNCHANGED steps => FALSE
    BY <1>1
  <2>1. ASSUME NEW j, NEW a, CreateWorkflowStep(j, a) PROVE j = Regeneration(r)
    BY <1>1, <2>1 DEF CreateWorkflowStep
  <2>2. ASSUME NEW w \in Workers, Moves(w)
        PROVE  pc[w] = "next_step" /\ NextStep(w) = Regeneration(r)
    <3>1. Writes(w) \/ WritesNothing(w)
      BY <1>t, <2>2, WorkerWrites
    <3>2. \/ pc[w] = "failure_step" /\ CreateWorkflowStep(FailureStep(w), Output(w))
          \/ pc[w] = "next_step" /\ CreateWorkflowStep(NextStep(w), Output(w))
      BY <1>1, <3>1
         DEF Writes, WritesNothing, ClaimStepForProcessing, CreateArtifact,
             MarkStepCompleted, RecordEvent, MarkWorkflow, MarkStepFailed, dbVars
    <3>3. FailureStep(w) # Regeneration(r)
      BY <1>k DEF FailureStep, FirstAttempt
    <3> QED
      BY <2>1, <3>2, <3>3
  <2>3. ASSUME NEW q \in Runs, RequestMoves(q) PROVE FALSE
    <3>1. FirstStep(q) # Regeneration(r)
      BY <1>k DEF FirstStep, FirstAttempt
    <3> QED
      BY <1>t, <2>0, <2>1, <2>3, <3>1, RequestFate
         DEF RequestCalls, CreateWorkflowRun, CreateArtifact, dbVars
  <2> QED
    BY <2>0, <2>2, <2>3, NextCases DEF vars, dbVars
<1>o. OtherWorkersStay(u)
  BY <1>t, <1>2, OthersStay DEF OtherWorkersStay, Moves
<1>3. Advanced(u) /\ pc'[u] = "publish"
  <2>1. Fate(u)
    BY <1>t, <1>2, WorkerFate
  <2> QED
    BY <1>t, <1>1, <1>2, <2>1
       DEF Fate, Received, Processed, Advanced, Onward, Caught, Unsupported, Returned,
           ReturnLabels, Abandoned, Detached, dbVars
<1>4. Handles(u, r) /\ msg'[u] = msg[u] /\ result'[u] = result[u] /\ queue' = queue
      /\ request' = request
  BY <1>t, <1>2, <1>3, <1>k, WorkerWrites
     DEF Handles, NextStep, Advanced, Sends, queueVars
<1>5. /\ Live(r) = {msg[u]} /\ msg[u] \in queue /\ msg[u].step.run = r
      /\ \A v \in Workers : v # u /\ Handles(v, r) => pc[v] \in SentLabels
  BY <1>2, <1>4, LiveCarrier DEF OnCourse, OneCarrier, Handles, Step, SentLabels
<1>6. request'[r] \notin Unsent
  BY <1>4, <1>5 DEF OnCourse, Submission
<1>7. StatusOf(TestRun(r))' = "completed"
  <2>1. Step(u).type = "failure_routing"
    <3>1. NextStep(u) \in Successors(Step(u)) /\ NextStep(u).attempt = 2
      BY <1>2, <1>k, WorkIsSorted DEF ResultLabels, TryLabels
    <3> QED
      BY <3>1 DEF Successors, FirstAttempt
  <2>2. Step(u) \in DOMAIN steps
    BY <1>4, WorkersHaveSteps DEF RoutingInv, Handles, Exists
  <2>3. Rank["failure_routing"] > Rank["test_runner"]
    BY DEF Rank, StepType
  <2>4. StatusOf(TestRun(r)) = "completed"
    BY <1>4, <2>1, <2>2, <2>3 DEF TestedFirst, Handles
  <2> QED
    BY <2>4, TestRunStays
<1>8. ASSUME NEW w \in Workers, Handles(w, r)' PROVE Reworks(w, r)'
  <2>1. CASE w = u
    BY <1>2, <1>3, <1>4, <1>k, <2>1, HandOffStays DEF Reworks
  <2>2. CASE w # u
    <3>1. Handles(w, r) /\ pc'[w] = pc[w]
      BY <1>8, <1>o, <2>2 DEF OtherWorkersStay, Handles, Step
    <3> QED
      BY <1>5, <2>2, <3>1 DEF Reworks
  <2> QED
    BY <2>1, <2>2
<1>9. ASSUME NEW m \in queue', m.step.run = r, \A w \in Workers : Handles(w, r)' => msg'[w] # m
      PROVE  FALSE
  <2>1. Handles(u, r)'
    BY <1>3, <1>4, <1>5 DEF Handles, Step
  <2>2. m # msg[u] /\ m \in queue
    BY <1>4, <1>9, <2>1
  <2>3. PICK w \in Workers : pc[w] \in SentLabels /\ msg[w] = m
    BY <1>5, <1>9, <2>2 DEF Live
  <2>4. w # u
    BY <2>2, <2>3
  <2>5. pc'[w] = pc[w] /\ msg'[w] = m
    BY <1>o, <2>3, <2>4 DEF OtherWorkersStay
  <2> QED
    BY <1>9, <2>3, <2>5 DEF Handles, Step, SentLabels
<1> QED
  BY <1>6, <1>7, <1>8, <1>9 DEF Reworking

\* What a worker does for a run that was sent back.
LEMMA ReworkGoesOn ==
  ASSUME RoutingInv, TypeOK, Delivered, NEW r \in Runs, Reworking(r),
         NEW u \in Workers, Moves(u), faults' = faults,
         Handles(u, r) \/ Handles(u, r)'
  PROVE  /\ Handles(u, r)' => Reworks(u, r)'
         /\ Handles(u, r) => \/ /\ pc'[u] # "idle" /\ msg'[u] = msg[u]
                                /\ queue \subseteq queue'
                             \/ Returned(u)
         /\ \A m \in queue' : m \in queue \/ m.step \in {Regeneration(r), TestRun(r)}
<1>k. /\ Regeneration(r) = [run |-> r, type |-> "prompt_to_code", attempt |-> 2]
      /\ TestRun(r) = [run |-> r, type |-> "test_runner", attempt |-> 1]
      /\ Regeneration(r)' = Regeneration(r) /\ TestRun(r)' = TestRun(r)
  BY DEF Regeneration, TestRun, FirstAttempt
<1>f. Fate(u) /\ faults' # faults + 1
  BY WorkerFate, FaultAssumption DEF TypeOK
<1>1. CASE Received(u)
  <2>1. /\ pc[u] = "idle" /\ pc'[u] = "claim" /\ queue' = queue
        /\ msg'[u] \in queue
        /\ \A w \in Workers : linked[w] => msg[w] # msg'[u]
    <3>1. queue' = queue
      BY <1>1 DEF Received, Deliver
    <3>2. PICK m \in Ready(Service[u]) : msg' = [msg EXCEPT ![u] = m]
      BY <1>1 DEF Received, Deliver
    <3> QED
      BY <1>1, <3>1, <3>2 DEF Received, Ready, TypeOK, QueueTypeOK
  <2>2. \A w \in Workers : Handles(w, r) => msg[w] # msg'[u]
    BY <2>1 DEF Delivered, Handles
  <2>3. ~Handles(u, r) /\ msg'[u].step.run = r
    BY <2>1 DEF Handles, Step
  <2>4. msg'[u].step \in {Regeneration(r), TestRun(r)}
    BY <2>1, <2>2, <2>3 DEF Reworking
  <2> QED
    BY <1>k, <2>1, <2>3, <2>4 DEF Reworks, ReworkLabels, Step
<1>2. CASE ~Received(u)
  <2>1. pc[u] # "idle"
    BY <1>2, <1>f
       DEF Fate, Processed, Advanced, Onward, Caught, TryLabels, Returned, ReturnLabels,
           Abandoned, Detached, Handles
  <2>2. Handles(u, r)
    <3>1. Keeps(u) \/ Returned(u) \/ Abandoned(u)
      BY <1>2, <1>f, MessageFate DEF Detached
    <3> QED
      BY <2>1, <3>1 DEF Keeps, Returned, Abandoned, Handles, Step
  <2>3. Reworks(u, r)
    BY <2>2 DEF Reworking
  <2>4. \/ Returned(u)
        \/ /\ Processed(u) \/ Advanced(u)
           /\ pc[u] \in ReworkLabels
    BY <1>2, <1>f, <2>1, <2>3
       DEF Reworks, ReworkLabels, SentLabels, Fate, Advanced, Onward, Caught, Unsupported,
           Abandoned, Detached, Processed
  <2>5. CASE Returned(u)
    BY <2>5 DEF Returned, Acknowledge, Handles
  <2>6. CASE (Processed(u) \/ Advanced(u)) /\ pc[u] \in ReworkLabels
    <3>1. /\ pc'[u] # "idle" /\ msg'[u] = msg[u] /\ queue \subseteq queue'
          /\ pc[u] # "process" => result'[u] = result[u]
      BY <2>6 DEF Processed, Advanced, Onward, AfterComplete, AfterOverride, Sends,
                  Publish, queueVars
    <3>2. Step(u)' = Step(u) /\ (pc[u] # "process" => NextStep(u)' = NextStep(u))
      BY <3>1, HandOffStays DEF Step
    <3>3. CASE pc[u] = "publish"
      <4>1. pc'[u] \in SentLabels /\ Publish(NextStep(u), Output(u))
        BY <2>6, <3>3 DEF Processed, Advanced, Onward, Sends, SentLabels
      <4>2. NextStep(u) \in {Regeneration(r), TestRun(r)}
        <5>1. CASE Step(u) = Regeneration(r)
          <6>1. result[u].next = "test_runner" /\ result[u].attempt = 1
            BY <1>k, <3>3, <5>1, WorkIsSorted DEF ResultLabels, TryLabels
          <6> QED
            BY <1>k, <5>1, <6>1 DEF NextStep
        <5> QED
          BY <2>3, <3>3, <5>1 DEF Reworks, SentLabels
      <4> QED
        BY <2>2, <3>1, <4>1, <4>2 DEF Reworks, Publish
    <3>4. CASE pc[u] # "publish"
      <4>1. queue' = queue
        BY <2>6, <3>4 DEF Processed, Advanced, Sends, ReworkLabels, queueVars
      <4>2. CASE Step(u) = Regeneration(r)
        <5>1. pc[u] = "complete" => pc'[u] = "next_step"
          <6>1. pc[u] = "complete" => /\ result[u].terminal = None
                                      /\ result[u].override = None
                                      /\ result[u].next = "test_runner"
            BY <1>k, <4>2, WorkIsSorted DEF ResultLabels, TryLabels
          <6> QED
            BY <2>6, <6>1 DEF Processed, Advanced, Onward, AfterComplete,
                              AfterOverride, None
        <5>2. pc'[u] \in ReworkLabels
          BY <2>6, <3>4, <5>1 DEF Processed, Advanced, Onward, ReworkLabels
        <5> QED
          BY <1>k, <3>1, <3>2, <4>1, <4>2, <5>2 DEF Reworks
      <4>3. CASE Step(u) # Regeneration(r)
        <5>1. pc[u] \in {"claim", "skip"} /\ Step(u) = TestRun(r)
          BY <2>3, <2>6, <3>4, <4>3 DEF Reworks, ReworkLabels, SentLabels
        <5>2. ~Claimable(Step(u))
          BY <5>1 DEF Reworking, Claimable
        <5>3. pc'[u] = "skip"
          BY <2>6, <5>1, <5>2 DEF Processed, Advanced, Onward
        <5> QED
          BY <1>k, <3>1, <3>2, <4>1, <5>1, <5>3 DEF Reworks
      <4> QED
        BY <4>2, <4>3
    <3> QED
      BY <3>3, <3>4
  <2> QED
    BY <2>2, <2>4, <2>5, <2>6
<1> QED
  BY <1>1, <1>2

LEMMA ReworkingStep ==
  ASSUME RoutingInv, Delivered, [Next]_vars, faults' = faults, NEW r \in Runs, Reworking(r)
  PROVE  Reworking(r)'
<1>t. TypeOK
  BY DEF RoutingInv, ContractInv, ResolvableInv
<1>k. Regeneration(r)' = Regeneration(r) /\ TestRun(r)' = TestRun(r)
  BY DEF Regeneration, TestRun, FirstAttempt
<1>1. StatusOf(TestRun(r))' = "completed"
  BY TestRunStays DEF Reworking
<1>2. ASSUME request'[r] \notin Unsent, QueueStays(r), UNCHANGED <<pc, msg, result>>
      PROVE  Reworking(r)'
  <2>1. \A w \in Workers : /\ Handles(w, r)' <=> Handles(w, r)
                           /\ Step(w)' = Step(w) /\ NextStep(w)' = NextStep(w)
    BY <1>2, HandOffStays DEF Handles, Step
  <2> QED
    BY <1>1, <1>2, <1>k, <2>1 DEF Reworking, Reworks, QueueStays
<1>3. CASE UNCHANGED vars
  BY <1>2, <1>3 DEF vars, queueVars, QueueStays, Reworking
<1>4. ASSUME NEW q \in Runs, RequestMoves(q)
      PROVE  Reworking(r)'
  <2>1. RequestCalls(q) /\ UNCHANGED <<pc, result>>
    BY <1>t, <1>4, RequestFate
  <2>2. msg' = msg
    BY <2>1 DEF RequestCalls, Publish, queueVars
  <2>3. CASE q # r
    BY <1>t, <1>2, <1>4, <2>1, <2>2, <2>3, UntouchedByRequest DEF Untouched, Reworking
  <2>4. CASE q = r
    <3>1. request[r] \notin Unsent
      BY DEF Reworking
    <3>2. UNCHANGED queueVars /\ request'[r] \notin Unsent
      BY <2>1, <2>4, <3>1 DEF RequestCalls, Unsent
    <3> QED
      BY <1>2, <2>1, <2>2, <3>2 DEF QueueStays, queueVars
  <2> QED
    BY <2>3, <2>4
<1>5. ASSUME NEW u \in Workers, Moves(u)
      PROVE  Reworking(r)'
  <2>o. OtherWorkersStay(u)
    BY <1>t, <1>5, OthersStay DEF OtherWorkersStay, Moves
  <2>r. request'[r] \notin Unsent
    BY <1>t, <1>5, WorkerWrites DEF Reworking
  <2>w. ASSUME NEW w \in Workers, w # u
        PROVE  /\ Handles(w, r)' <=> Handles(w, r)
               /\ pc'[w] = pc[w] /\ msg'[w] = msg[w]
               /\ Step(w)' = Step(w) /\ NextStep(w)' = NextStep(w)
    BY <2>o, <2>w, HandOffStays DEF OtherWorkersStay, Handles, Step
  <2>v. \A w \in Workers : w # u /\ Handles(w, r)' => Reworks(w, r)'
    BY <1>k, <2>w DEF Reworking, Reworks
  <2>1. CASE ~Handles(u, r) /\ ~Handles(u, r)'
    <3>1. QueueStays(r)
      BY <1>t, <1>5, <2>1, UntouchedByWorker DEF Untouched
    <3>2. \A w \in Workers : Handles(w, r)' => Reworks(w, r)'
      BY <2>1, <2>v
    <3>3. ASSUME NEW m \in queue', m.step.run = r,
                 \A w \in Workers : Handles(w, r)' => msg'[w] # m
          PROVE  m \in queue /\ \A w \in Workers : Handles(w, r) => msg[w] # m
      BY <2>1, <2>w, <3>1, <3>3 DEF QueueStays
    <3> QED
      BY <1>1, <1>k, <2>r, <3>2, <3>3 DEF Reworking
  <2>2. CASE Handles(u, r) \/ Handles(u, r)'
    <3>1. /\ Handles(u, r)' => Reworks(u, r)'
          /\ Handles(u, r) => \/ /\ pc'[u] # "idle" /\ msg'[u] = msg[u]
                                 /\ queue \subseteq queue'
                              \/ Returned(u)
          /\ \A m \in queue' : m \in queue \/ m.step \in {Regeneration(r), TestRun(r)}
      BY <1>t, <1>5, <2>2, ReworkGoesOn
    <3>2. \A w \in Workers : Handles(w, r)' => Reworks(w, r)'
      BY <2>v, <3>1
    <3>3. ASSUME NEW m \in queue', m \in queue, m.step.run = r,
                 \A w \in Workers : Handles(w, r)' => msg'[w] # m
          PROVE  \A w \in Workers : Handles(w, r) => msg[w] # m
      <4>1. Handles(u, r) => msg[u] # m
        <5>1. Handles(u, r) /\ Returned(u) => msg[u] \notin queue'
          BY DEF Returned, Acknowledge, Delivered, Handles
        <5>2. Handles(u, r) /\ pc'[u] # "idle" /\ msg'[u] = msg[u] => Handles(u, r)'
          BY DEF Handles, Step
        <5> QED
          BY <3>1, <3>3, <5>1, <5>2
      <4> QED
        BY <2>w, <3>3, <4>1
    <3>4. ASSUME NEW m \in queue', m.step.run = r,
                 \A w \in Workers : Handles(w, r)' => msg'[w] # m
          PROVE  m.step \in {Regeneration(r), TestRun(r)}
      BY <3>1, <3>3, <3>4 DEF Reworking
    <3> QED
      BY <1>1, <1>k, <2>r, <3>2, <3>4 DEF Reworking
  <2> QED
    BY <2>1, <2>2
<1> QED
  BY <1>3, <1>4, <1>5, NextCases

LEMMA VerdictStep ==
  ASSUME MaxFaults = 0, VerdictInv, RoutingInv', [Next]_vars
  PROVE  VerdictInv'
<1>t. TypeOK /\ TypeOK' /\ faults = 0 /\ faults' = faults
  <2>1. TypeOK
    BY DEF VerdictInv, ReturnInv, ExclusiveInv
  <2> QED
    BY <2>1, NextTyped, NoFaults
<1>0. RoutingInv /\ ReturnInv /\ Delivered /\ TestedFirst
  BY DEF VerdictInv
<1>1. ReturnInv' /\ Delivered' /\ TestedFirst'
  BY <1>0, <1>t, ReturnStep, DeliveredStep, TestedFirstStep
<1>k. ASSUME NEW r \in Runs
      PROVE  /\ Detoured(r, SentBack) <=> Exists(Regeneration(r))
             /\ Detoured(r, SentBack)' <=> Exists(Regeneration(r))'
  <2>1. Regeneration(r) = [run |-> r, type |-> "prompt_to_code", attempt |-> 2]
    BY DEF Regeneration, FirstAttempt
  <2>2. ASSUME NEW k \in StepKey, k.run = r
        PROVE  HandOff(k.type, k.attempt) \in SentBack <=> k = Regeneration(r)
    BY <2>1, <2>2 DEF HandOff, SentBack, StepKey
  <2> QED
    BY <1>t, <2>1, <2>2 DEF Detoured, Exists, TypeOK, DbTypeOK, HandOff, SentBack
<1>2. ASSUME NEW r \in Runs, ~Exists(Regeneration(r)), ~Exists(Regeneration(r))'
      PROVE  OnCourse(r, Rank)' /\ JudgedByItsWork(r)'
  <2>1. OnCourse(r, Rank) /\ JudgedByItsWork(r)
    BY <1>2 DEF VerdictInv
  <2>2. OnCourse(r, Rank)'
    <3>1. Adrift(Rank, SentBack)' \subseteq Adrift(Rank, SentBack)
      BY <1>0, <1>t, AdriftGrows, RankTyped, HandlersGoForward
    <3>2. r \notin Adrift(Rank, SentBack)
      BY <2>1 DEF Adrift
    <3> QED
      BY <1>2, <1>k, <3>1, <3>2 DEF Adrift
  <2>3. CASE Untouched(r)
    BY <2>1, <2>2, <2>3, UntouchedIsJudged
  <2>4. CASE UNCHANGED vars
    <3>1. Untouched(r)
      BY <2>4 DEF Untouched, StepsStay, QueueStays, WorkersStay, Exists, StatusOf,
                  vars, dbVars, queueVars
    <3> QED
      BY <2>3, <3>1
  <2>5. ASSUME NEW q \in Runs, RequestMoves(q) PROVE JudgedByItsWork(r)'
    <3>1. CASE q # r
      BY <1>t, <2>3, <2>5, <3>1, UntouchedByRequest
    <3>2. CASE q = r
      BY <1>t, <2>1, <2>2, <2>5, <3>2, RequestIsJudged
    <3> QED
      BY <3>1, <3>2
  <2>6. ASSUME NEW u \in Workers, Moves(u) PROVE JudgedByItsWork(r)'
    <3>1. CASE ~Handles(u, r) /\ ~Handles(u, r)'
      BY <1>t, <2>3, <2>6, <3>1, UntouchedByWorker
    <3>2. CASE Handles(u, r)
      <4>1. Fate(u)
        BY <1>t, <2>6, WorkerFate
      <4>2. \/ Processed(u) \/ Advanced(u) \/ Returned(u)
            \/ (Caught(u) /\ Unsupported(u) /\ UNCHANGED queueVars)
            \/ (Abandoned(u) /\ pc[u] = "except_event")
        BY <1>t, <3>2, <4>1 DEF Fate, Received, Caught, Abandoned, Detached, Handles
      <4> QED
        BY <1>0, <1>2, <1>t, <2>1, <2>2, <2>6, <3>2, <4>2, TakenIsJudged,
           CarrierIsJudged
    <3>3. CASE ~Handles(u, r) /\ Handles(u, r)'
      <4>1. Fate(u)
        BY <1>t, <2>6, WorkerFate
      <4>2. Received(u)
        BY <3>3, <4>1
           DEF Fate, Processed, Advanced, Onward, AfterComplete, AfterOverride, Sends,
               Publish, Caught, TryLabels, Returned, Abandoned, Detached, CloseChannel,
               queueVars, Handles, Step
      <4> QED
        BY <1>t, <2>1, <2>6, <3>3, <4>2, TakenIsJudged
    <3> QED
      BY <3>1, <3>2, <3>3
  <2> QED
    BY <2>2, <2>4, <2>5, <2>6, NextCases
<1>3. ASSUME NEW r \in Runs
      PROVE  IF Exists(Regeneration(r))' THEN Reworking(r)'
                                         ELSE OnCourse(r, Rank)' /\ JudgedByItsWork(r)'
  <2>1. CASE Exists(Regeneration(r))
    <3>1. Exists(Regeneration(r))'
      <4> PICK k : k = Regeneration(r)
        OBVIOUS
      <4>1. Exists(k)'
        BY <1>t, <2>1, RowsRemain
      <4> QED
        BY <4>1 DEF Exists, Regeneration, FirstAttempt
    <3> QED
      BY <1>0, <1>t, <2>1, <3>1, ReworkingStep DEF VerdictInv
  <2>2. CASE ~Exists(Regeneration(r)) /\ Exists(Regeneration(r))'
    <3>1. OnCourse(r, Rank)
      BY <2>2 DEF VerdictInv
    <3> QED
      BY <1>0, <1>t, <2>2, <3>1, ReworkingBegins
  <2>3. CASE ~Exists(Regeneration(r)) /\ ~Exists(Regeneration(r))'
    BY <1>2, <2>3
  <2> QED
    BY <2>1, <2>2, <2>3
<1> QED
  BY <1>1, <1>3 DEF VerdictInv

(***************************************************************************)
(* A step that changes a verdict is the override of a failed run that was  *)
(* sent back: the other statements that write a status find the run running.*)
(***************************************************************************)
LEMMA VerdictIsKept ==
  ASSUME MaxFaults = 0, VerdictInv, [Next]_vars, NEW r \in Runs, Judged(r), runs'[r] # runs[r]
  PROVE  /\ runs[r] = "failed"
         /\ \E w \in Workers : pc[w] = "override" /\ NextStep(w) = Regeneration(r)
<1>t. TypeOK /\ RoutingInv /\ runs \in [Runs -> WorkflowStatus \cup {"absent"}]
  BY DEF VerdictInv, ReturnInv, ExclusiveInv, TypeOK, DbTypeOK
<1>i. IF Exists(Regeneration(r)) THEN Reworking(r)
                                 ELSE OnCourse(r, Rank) /\ JudgedByItsWork(r)
  BY DEF VerdictInv
<1>m. \A q, status : q # r /\ MarkWorkflow(q, status) => runs'[r] = runs[r]
  BY <1>t DEF MarkWorkflow
<1>1. ASSUME NEW q \in Runs, RequestMoves(q) PROVE FALSE
  <2>1. request[q] = "create_run" /\ CreateWorkflowRun(q)
    BY <1>t, <1>1, RequestFate
       DEF RequestCalls, CreateArtifact, CreateWorkflowStep, dbVars
  <2>2. q = r
    BY <1>t, <2>1 DEF CreateWorkflowRun
  <2> QED
    BY <1>i, <2>1, <2>2 DEF Reworking, JudgedByItsWork, Judged, Unsent
<1>2. ASSUME NEW u \in Workers, Moves(u)
      PROVE  /\ runs[r] = "failed"
             /\ pc[u] = "override" /\ NextStep(u) = Regeneration(r)
  <2>1. /\ Handles(u, r) /\ pc[u] \in {"terminal", "override", "finish"}
        /\ pc[u] = "override" => MarkWorkflow(r, result[u].override)
    <3>1. Writes(u) \/ WritesNothing(u)
      BY <1>t, <1>2, WorkerWrites
    <3>2. \/ pc[u] = "terminal" /\ MarkWorkflow(Step(u).run, result[u].terminal)
          \/ pc[u] = "override" /\ MarkWorkflow(Step(u).run, result[u].override)
          \/ pc[u] = "finish" /\ MarkWorkflow(Step(u).run, "completed")
      BY <3>1
         DEF Writes, WritesNothing, ClaimStepForProcessing, CreateArtifact,
             MarkStepCompleted, RecordEvent, CreateWorkflowStep, MarkStepFailed, dbVars
    <3>3. Step(u).run = r
      BY <1>m, <3>2
    <3> QED
      BY <3>2, <3>3 DEF Handles
  <2>2. ~Exists(Regeneration(r)) /\ OnCourse(r, Rank) /\ JudgedByItsWork(r)
    <3>1. Reworking(r) => FALSE
      BY <2>1 DEF Reworking, Reworks, ReworkLabels, SentLabels
    <3> QED
      BY <1>i, <3>1
  <2>3. msg[u] \in Live(r) /\ OneCarrier(r)
    BY <2>1, <2>2, LiveCarrier DEF OnCourse, SentLabels
  <2>4. pc[u] \in ResultLabels /\ pc[u] # "finish"
    <3>1. pc[u] \in ResultLabels
      BY <2>1 DEF ResultLabels, TryLabels
    <3> QED
      BY <1>t, <3>1, WorkIsSorted DEF FinishLabels
  <2>5. ASSUME NEW w \in Workers, msg[w] = msg[u],
               pc[w] \in ReportLabels \cup {"next_step", "publish"}
        PROVE  FALSE
    <3>1. Handles(w, r) /\ w # u
      BY <2>1, <2>5 DEF Handles, Step, ReportLabels
    <3> QED
      BY <2>1, <2>3, <2>5, <3>1 DEF OneCarrier
  <2>6. /\ Step(u).type \notin {"failure_routing", "human_review"} => runs[r] = "running"
        /\ Step(u).type = "failure_routing" => runs[r] = "failed"
    BY <2>2, <2>3, <2>5 DEF JudgedByItsWork, Step
  <2>7. pc[u] # "terminal"
    BY <1>t, <2>4, <2>6, WorkIsSorted DEF Judged
  <2>8. pc[u] = "override" /\ runs[r] = "failed"
        /\ (SendsBack(result[u]) \/ AsksHuman(result[u]))
    BY <1>t, <2>1, <2>4, <2>6, <2>7, WorkIsSorted
  <2>9. SendsBack(result[u])
    BY <1>t, <2>1, <2>8 DEF MarkWorkflow, AsksHuman
  <2> QED
    BY <2>1, <2>8, <2>9 DEF SendsBack, NextStep, Regeneration, FirstAttempt, Handles
<1> QED
  BY <1>1, <1>2, NextCases DEF vars, dbVars

(***************************************************************************)
(* VerdictIsFinal, for any verdicts of the LLM and any number of runs and  *)
(* workers, while nothing fails: nobody but the failure routing that sends *)
(* a failed run back changes a status that is a verdict (worker.py writes  *)
(* a status without looking at the one that is there).                     *)
(***************************************************************************)
THEOREM VerdictIsFinalHolds ==
  ASSUME MaxFaults = 0
  PROVE  Spec => VerdictIsFinal
<1>1. VerdictInv /\ [Next]_vars => VerdictInv'
  <2> SUFFICES ASSUME VerdictInv, [Next]_vars PROVE VerdictInv'
    OBVIOUS
  <2>1. RoutingInv'
    BY RoutingStep DEF VerdictInv
  <2> QED
    BY <2>1, VerdictStep
<1>2. ASSUME VerdictInv, [Next]_vars
      PROVE  [\A r \in Runs :
                Judged(r) /\ runs'[r] # runs[r] =>
                  /\ runs[r] = "failed"
                  /\ \E w \in Workers : /\ pc[w] = "override"
                                       /\ NextStep(w) = Regeneration(r)]_vars
  BY <1>2, VerdictIsKept
<1> QED
  BY <1>1, <1>2, VerdictInit, PTL DEF Spec, VerdictIsFinal
===========================================================================
