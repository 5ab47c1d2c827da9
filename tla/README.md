# A verification development for the workflow pipeline

This directory holds TLA+ models of the ticket-to-review pipeline in `src/`,
the TLC configurations that check them, and theorems about them whose proofs
TLAPS checks. `PROJECT.json` is the index: components, runs, the source lines
each definition stands for, hazards, findings, theorems.

## 1. The system

A ticket is submitted to the **orchestrator**, which creates a workflow run, an
input artifact and a first step in Postgres, and publishes a message that names
them. Seven services consume one RabbitMQ queue each. All of them are the same
**step worker** around a **handler** of their own: claim the step named by the
message, read its input artifact, call the handler, store its output, complete
the step, and act on the result: a verdict on the run, a failure sent to
failure routing, or the next step of the pipeline.

    orchestrator -> ticket-to-prompt -> prompt-to-code -> test-runner
      -> requirements-review -> policy-review -> code-review -> (verdict)
    any failed review -> failure-routing -> prompt-to-code (attempt 2) | human-review

| Component | State it keeps | Operations | Where it is modelled |
|---|---|---|---|
| contracts (`messages.py`) | none | the enumerations, the message, the step result | `WorkflowContracts` |
| database (`db.py`, `001_init_workflow_schema.sql`) | runs, artifacts, steps, events | create, claim, complete, fail, mark the run, record an event | `WorkflowDatabase` |
| stage queues (`queue.py`, RabbitMQ) | queued and delivered messages | publish, deliver, acknowledge, reject, close a channel | `StageQueues` |
| step worker (`worker.py`) | where each running handler stands, its message, its result | the message handler and its except block | `StepWorker`, `StepLifecycle` |
| orchestrator (`apps/orchestrator`) | where each request stands | submit a ticket | `StepWorker` |
| handlers (`apps/*/src/handler.py`) | none | `process` of the seven services | `StepHandlers` |
| prompt-to-code's LLM loop (`self_improving_prompt_step.py`) | prompt and output versions, judgements | evaluate, refine, run, check, repair | `SelfImprovingStep` |
| context resolver (`context.py`) | the bundle under construction | take the artifact, skip, load or stop at a file | `ContextResolver` |
| prompt promotion (`prompt_promotion.py`) | the outcomes of each prompt version | record, decide | `PromptPromotion` |
| prompt registry, generation and evaluation, LLM clients, object storage, plain prompt step | none, or none that matters | file reads, text formatting, single HTTP or S3 calls | not modelled |
| manifests (`docker-compose.yml`, `deploy/k8s/prod`) | none | which services run | the workers of a run of `MCPipeline` |
| analysis service, dashboards | none | placeholders | not modelled |

**How components interact.** Services share the database and talk through the
queues. Nothing is transactional across calls: each database statement commits
by itself, and publishing is separate from it. A handler is a coroutine that
can be suspended at each of these calls; replicas of a service run in parallel
(the production autoscaler sets 2 to 20). `raw.process(requeue=True)`
acknowledges a message when the handler returns and rejects it with requeue
when an exception leaves the handler. The connection is a robust one: when it is
lost it is replaced, the broker delivers the unsettled message again, and the
first handler goes on running.

**What is hard about it.** At-least-once delivery against a claim that is the
only lock; completion recorded *before* the result is acted on; an except block
that marks the step failed whatever state it is in; handlers that run again
with a different LLM answer; gates that are carried from stage to stage by name
in free-form content; an exception that every retry meets again. Within single
services: two nested limits on judge loops, two limits on a context bundle, verdicts
read from texts that may be cut or quote other objects (which makes any verdict possible,
whatever the model meant), and a comparison of rates in floating point.

**What makes each part correct.**

- queues and worker: a message never names a row that is not there; a step is
  executed by one handler at a time; a completed step stays completed; a failed
  step is retried; nothing is left running without a handler, or without a message,
  but for as many steps and runs as there were faults, lost channels included; the audit trail reports nothing
  that is not so.
- pipeline: work reaches a stage only through the gates before it; a completed
  run passed all of them; every run gets a verdict and keeps it; a failed run is
  routed, and only a failed run is.
- context resolver: the bundle is bounded, holds the most important files, and
  says when it leaves something out.
- judge loops: nothing runs or is returned that was not judged; a text that
  passed is not revised; the number of LLM calls is bounded.
- promotion: two versions are not promoted over each other; a success never costs a
  promotion; the limits do not contradict each other.

## 2. The modules

    WorkflowContracts <- WorkflowDatabase --+
           ^         <- StageQueues --------+- StepWorker (INSTANCE StepLifecycle)
           |                                   ^  ^  ^--- MCStepWorker
           |                                   |  +- StepWorkerProofs <- DeliveryProofs
           |                                   |          <- StrandingProofs ---+
           +--------- StepHandlers --- Pipeline+- PipelineProofs ---------------+
                                          ^------ MCPipeline
    ContextResolver   <- ContextResolverProofs,   MCContextResolver
    SelfImprovingStep <- SelfImprovingStepProofs, MCSelfImprovingStep
    PromptPromotion   <- PromptPromotionProofs,   MCPromptPromotion

(An arrow points at the module that is extended.)

**WorkflowContracts.** The enumerations and record types. An artifact row is
written once and never changed, so an artifact id is modelled by the row it
names; a step id by the `(run, type, attempt)` triple that
`workflow_steps_idempotency_idx` makes unique. Of the content of an artifact
only what some service branches on is kept: its type, whether it has a prompt,
`regeneration_attempt`, the `*_pass` flags, `review_stage`, and a class of the
generated code (refused by the test runner, refused by the policy review, or by
neither).

**WorkflowDatabase.** One operator per statement of `db.py`, each atomic, since
asyncpg autocommits. `create_workflow_step` is `ON CONFLICT DO NOTHING` followed
by a read; `claim_step_for_processing` is an update conditioned on the status;
the later updates have no condition, as in the code. `get_artifact` is a read of
rows that never change, and belongs to the action that uses it. Events are a
set, restricted to those that report a verdict or a hand-off.

**StageQueues.** A message stays in `queue` until it is acknowledged; `linked`
says whether its delivery is still unsettled on an open channel. Messages are
delivered in the order of publication and go back to their old place, one at a
time to each consumer (`prefetch_count=1`). The broker does not answer a
settlement, so it is part of the step that ends the handler.

**StepWorker.** A worker is one running message handler: a service, a replica of
it, or the second coroutine of a replica whose channel was replaced. `pc[w]` is
the call it makes next, and each database or broker call is one action with
three outcomes: it succeeds, it fails without effect (`CallFails`), or it takes
effect and its reply is lost (`LoseReply`). Inside the try block the latter two
lead to `Fail`, `FailEvent` and a requeue; outside it straight to the requeue.
`Crash` ends a handler anywhere, `Disconnect` takes its message away while it
goes on. What a handler returns is the constant operator `Results`, so that
what is proved holds for any handler. `CreateRun` ... `StartedEvent` are the
five calls of the submit request. `FaultKinds`, `FaultLabels` and `MaxFaults`
bound the faults of a TLC run; `MaxFaults` is any natural number in the proofs.

`StatusNameBound` is FALSE for the code as committed: `worker.py` uses
`WorkflowStatus` in the branch on `workflow_status_override` and does not import
it. Runs with TRUE show what lies behind that line once the import is there.

**StepLifecycle.** The abstract specification of a step: a status for each step that
exists, and the step each worker executes, without messages, artifacts or calls. A step
is created once, granted only when it is pending or failed and nobody executes it, and
ended only by the worker that has it. `ClaimUnheard` is the one thing that is unusual
about it: a claim may be committed and its reply lost, so that a step is running with no
worker. `StepWorker` implements it with `TableStatus` (the status column) for the
status, and for the executed steps `Executing` (the step of each handler between its claim
and the end of its except block).

**StepHandlers, Pipeline.** `process` of each service as the set of results it
may return, with the LLM as a free choice, and the properties of the whole
pipeline. `RoutingActions` are the values of `FAILURE_ROUTING_DEFAULT_ACTION`: a run with
both covers either configuration, and a restart between routings that changes it.

**ContextResolver.** `resolve` with one action per candidate file. A text is its
length. A file the code cannot use (outside the repository, missing, of a wrong
extension, not UTF-8, blank) has length 0: the code does the same in all five
cases. A text that is cut is then stripped on the right, so its length is any
number from 1 to the limit. `total_chars` is assigned, not added to, as in the
code; see the findings. `Turns` are the candidates a bundle without limits would take: the first naming
of each usable file.

**SelfImprovingStep.** `SelfImprovingLLMStepHandler.process` with one action per
LLM call, any of which may raise. Texts are version numbers. `_extract_json_object` takes the
first complete object of an answer, with whatever keys it has: the judge's own, one that is
quoted before it, one nested in it when the answer is cut, or the empty dictionary when there is none.
An answer is therefore any `Payload`, a flag and a score that may each be missing, and only
what is made of it (`EvaluationPasses`, `CheckPasses`) follows the code. The two LLM reviews read their
answers with copies of the same helper; there the verdict itself is the free choice.

**PromptPromotion.** `summarize` uses only sums of a list of outcomes, so a list is its
sums (`Add`), and rates are compared by multiplying out. That is exact for the thresholds: a rate and a
limit are each one rounding of a fraction, rounding is monotone, and equal fractions round
alike. It is not for `baseline + delta`, which is rounded once more, so at a tie with a delta
the model takes either outcome (`BeatsBaseline`). No service calls the promoter; its
caller is `Record`.

## 3. The runs

| Run | Question | Result |
|---|---|---|
| `faults` | one failing call, lost reply or crash anywhere, seven services | types; `MessagesResolvable`, `OrphansNeedFaults`, `StrandedRunsNeedFaults`, `FailedStepsAreRetried`, `CompletedRunPassedEveryGate`, `StagesReceivePassedWork`, `AuditTrailTruthful` hold |
| `replicas` | two replicas of one service, a handler that returns anything `StepResult` allows, three faults of any kind, lost channels too | `ImplementsLifecycle` (the refinement), `ExclusiveExecution`, `MessagesResolvable`, `CompletionKept` hold |
| `two_runs` | two runs in the queue of a service with two replicas, two faults of any kind, lost channels too | `LostStepsNeedFaults`, `StrandedRunsNeedFaults` hold |
| `recovery` | calls in the try block fail, twice | `RunningStepsAreOwned` and `EveryRunIsJudged` hold |
| `repaired_import` | the import repaired, failure routing with either action | `CompletedRunPassedEveryGate`, `RoutedOnFailureOnly`, `FailedRunsAreRouted`, `VerdictIsFinal` hold |
| `context_bundle` | every small repository, policy and list of candidates | `FilesAreTheFirstWanted`, `OmissionsAreMarked`, `BundleIsBounded` hold |
| `judged` | limits 4 and 3, every answer of the judge | `TaskPromptIsJudged`, `ReturnedOutputIsJudged`, `CallsAreBounded` hold |
| `promotion` | two versions of a prompt, five outcomes of each | types; `NoMutualPromotion`, `WorkflowRateBoundsStages`, `SuccessKeepsPromotion` hold |
| `unrouted` | the code as committed | `FailedRunsAreRouted` is violated |
| `lost_failure` | one crash | `FailuresArePublished` is violated |
| `regenerated` | the import repaired, code that test-runner refuses | `FailedRegenerationsReachAHuman` is violated |
| `context_budget` | as `context_bundle` | `BundleWithinBudget` is violated |

**What a fault may cost.** A claim that is never heard of, a crash, an event that
cannot be recorded before the try block and a `mark_step_failed` that fails each leave a step
running that nobody runs (`Orphans`), and a submit request that breaks off or a message
whose step was lost leaves a run without a message (`Stranded`). No document promises to recover these.
With lost channels a failed step may lose its message as well: the message is delivered again and
skipped while the first handler still runs, and when that handler fails nothing is left to retry the step
(`Lost` has these steps and the orphans). `OrphansNeedFaults`, `LostStepsNeedFaults` and
`StrandedRunsNeedFaults` state what does hold: no step and no run is lost without a fault of its own,
whatever is redelivered and to whom. With one run these say little once a fault has happened;
`two_runs` is where one fault has two steps and two runs to lose. `FailedStepsAreRetried` and
`RunningStepsAreOwned` are the stronger statements, for the faults under which they hold (a
channel that stays open; failures inside the try block).

**What becomes of a regenerated run.** Behind the missing import is a second defect. The stages after
a regenerated prompt-to-code ask for their first attempt, and those steps are completed: the new code
is handed to nobody who may claim it. `regenerated` shows it against the promise of
README.md:101. `EveryRunIsJudged` and
`StrandedRunsNeedFaults` are therefore not checked of a pipeline that regenerates.

**Bounds, and why they are enough.** The pipeline has one run: rows, artifacts and
messages of different runs never meet except in the order of a queue, and no
action reads one run to change another. What a fault to one run does to another is the
question of `two_runs`, with one service, a handler that hands its work on or fails after its completion, and
runs that are interchangeable (`RunSymmetry`; it has no liveness property). What is missed is one run's
message holding up another's for ever; see the plan. One fault already reaches each call of each
service (`faults`); three of them, on a service with two replicas, reach a
fault during the recovery from another while a second handler runs. All services
run the same worker, so the stages left out of `replicas` differ in the results
their handlers return and not in what the worker does; and its handler returns all there are
(each terminal status supported and not, with and without a failure queue, each
override with and without a next step, both attempts). `recovery` has code that the
test runner refuses, so that two faults stay within reach; `repaired_import` has all classes of
code and both routing actions, and no faults: a review that is retried may answer differently, which
takes `VerdictIsFinal` back (`RoutedOnFailureOnly` holds with faults too, which is proved). The context run has three files,
limits from 0 and candidates that repeat each other in two spellings and name
nothing at all: every pair of adjacent outcomes of a candidate occurs. The judge
loops are checked two iterations above the limits prompt-to-code sets. What is read from an answer is every
flag, or none, with a score on each side of the pass score, or none. Promotion has the default policy with
fewer samples, rates in twentieths, and outcomes that fail no stage, one, the others or all, with
zero to two repairs, so that each threshold fails alone and ties occur. `published`,
`calls`, the versions and the sums are unbounded in the modules and bounded by the faults,
by the limits of the loops or by `MaxSamples` in each run. One exception is a step that always
fails: as committed, failure routing is requeued forever, but it publishes
nothing and its artifacts are equal, so that the state space stays finite.

**Deadlock** is not checked: a drained pipeline, a finished bundle and an ended
`process` stop by design. That work does not stop too early is what the liveness
properties say.

**Fairness.** `WF` on the steps of each worker and on a submit request that has
begun. The event loop resumes each handler whose call has returned, every call has
a timeout or ends with its connection, and the broker delivers a ready message to
an idle consumer. There is none on submitting and none on faults, and none is
needed between results: `EveryRunIsJudged` and `FailedRunsAreRouted` hold for each
sequence of LLM answers. The other
modules have safety properties only.

**Mutants.** Next to a definition is, where a run uses it, a mutated form of it: a
plausible mistake in that code (a dropped condition, a swapped order, a missing
return). Substituted for the definition, it makes the named property fail, so each property
of a passing run is known to depend on the code.

## 4. What is proved

Every safety property of the passing runs is a theorem, each for every value of the
constants that its hypotheses allow. No theorem assumes more of a constant than the named
assumptions of the modules (`ServiceAssumption`, `ResultsAssumption`, `StatusNameAssumption`,
`FaultAssumption`, `PathAssumption`, ...) and the hypotheses given here. Those assumptions are about
types, but for `HandlersAssumption`, which says that the handlers of the pipeline are those of
`StepHandlers`, and two that keep a placeholder apart from the values it stands beside.

### The worker (`StepWorkerProofs`), for every handler and number of faults

- **`TypeCorrect`**: `TypeOK` is inductive. It carries what the control flow
  must ensure: past `Process` a worker has a result; at `CreateNextStep` and
  `PublishNext` the result names a step type. There is a lemma per helper (`Call`, `LastCall`,
  `PublishCall`, `Raise`, ...) and a step per action.
- **`ExclusiveExecutionHolds`**: two handlers never execute one step. The property
  is not inductive: a claim could succeed on a step that somebody owns. The
  strengthening `ExclusiveInv` adds `OwnedIsHeld`: an owned step is `running` or
  `completed` in the database, and `Claimable` accepts neither. The delicate case is
  `Fail`, which makes the row claimable; it ends the ownership in the same step.
- **`CompletionKeptHolds`**: the action property follows from `ExclusiveInv` by a
  case split on the actions that write a step row.
- **`ImplementsLifecycleHolds`**: the refinement. `Complete` of the abstract
  specification asks for a running step, which `ExclusiveInv` does not give, so the
  invariant `LifecycleInv` adds `RunningUntilCompleted`: from its claim to `mark_step_completed` the
  step of a handler is running. It is inductive because of the exclusion: only the holder writes another
  status. `WorkerTableEffect` sorts the actions by what they do to the table and
  to the ownership, and `WorkerStepImplements` maps each class to a step of the life cycle or a stutter.

### Messages, failures and orphans (`DeliveryProofs`)

`WorkerFate` sorts what a step of a worker can be by the end of its call (it goes on, catches an
exception, is done with its message, gives it back, loses its channel), and `WorkerWrites` by what it
writes. The proofs below and in the next two modules split on these instead of on every action.

- **`MessagesResolvableHolds`**, for every handler and any faults. `ResolvableInv` adds what a message
  is made of before it is published: the output of a worker past `Store` is in the database
  (`OutputsStored`), the step of a worker past `CreateNextStep` exists (`HandOffsCreated`), and the
  same of a submit request (`TicketsStored`).
- **`FailedStepsAreRetriedHolds`**, while no channel closes under a handler (`"disconnect"` is not a
  fault kind: with it a second handler can acknowledge the message that would retry the step).
  `Delivered` ties each unsettled message to one worker. `KeptForRetry` strengthens the
  property: the message is not one that a worker is about to skip. A worker that skips saw the step running or
  completed; for the step to fail after that its owner must have a message of its own.
- **`OrphansNeedFaultsHolds`**, for any faults: the set of orphans is finite and no larger than
  `faults`. `OrphansGrow` shows that a step adds at most one orphan, and none without counting a
  fault. It needs `CompletedPast`: a handler past its completion leaves no running step behind.
- **`LostStepsNeedFaultsHolds`**, for any faults, lost channels included. Its invariant does not count the
  lost steps but those that could become lost: a step is `Attended` while each handler
  that works on it has a message of its own on an open channel (`Connected`) and, once it is failed, while a message names it
  that nobody is about to skip (`RetryKept`). `NeglectGrows` shows that a step of the system
  neglects at most one more step, and none without counting a fault; a lost step is neglected.
- **`RunningStepsAreOwnedHolds`**, when nobody dies and calls fail inside the try block only: under
  these hypotheses `OrphansGrow` lets no orphan arise at all.

### Runs without a message (`StrandingProofs`)

- **`StrandedRunsNeedFaultsHolds`**, for any faults and all handlers whose hand-offs go `Forward`
  along some rank of the step types. The hypothesis is what keeps a run from meeting a step that
  is completed already, and dropping it makes the statement false: see the run `regenerated`. The handlers of the
  pipeline fulfil it as committed, and with the import repaired if every failure goes to a human, as
  **`RunsAreStrandedByFaultsAlone`** shows. "Stranded" is no
  property of the present only: a run that was hit by a fault may strand long after it.
  `OnCourse` says what a run looks like that was not hit: one message carries its work, at most one worker
  has it, no step comes after the one at hand, the step is claimable until it is claimed, and
  its message is settled only after the next one was published or the verdict written.
  `CarrierKeeps` and `RequestKeeps` show that a step of the run without a fault keeps it on course,
  `UntouchedKeeps` that a step of another run does. The runs that are off course (`Adrift`) are therefore no more
  than the faults, and a stranded run is one of them.

### The pipeline (`PipelineProofs`)

- **`StagesReceivePassedWorkHolds`**, **`CompletedRunPassedEveryGateHolds`**, for any faults and
  whether the import is repaired or not. `HandlersKeepTheContract` states, per service, that a
  result for an input that fits its stage (`InputFits`: type, prompt and gates of the content) fits the stage it is
  sent to. `ContractInv` carries this through the tables and queues: messages fit, each
  result belongs to the message at hand, and the branch a worker is in is the one its result asks for (`BranchTaken`).
- **`AuditTrailTruthfulHolds`**, for any faults, with `~StatusNameBound`: once the
  import is repaired, failure routing sets a failed run to running again, and the event
  of its failure no longer agrees with the table. `TrailInv` adds that a verdict is written before its event.
- **`RoutedOnFailureOnlyHolds`**, for any faults and whether the import is repaired or not. Only the worker of the
  failure routing step creates the rows, and `ContractInv` says that its input is a failed review; artifacts are
  never deleted.
- **`OnlySentBackAreStrandedHolds`**, with `MaxFaults = 0`: from the same count as above, where a run that took a detour
  is let off (`Detoured`). It says that the fate of regenerated runs is the only one of its kind.
- **`VerdictIsFinalHolds`**, with `MaxFaults = 0`; a review that is retried after a fault may
  answer differently and change its verdict. `VerdictInv` has two halves. Until a run is sent back it
  is on course, and `JudgedByItsWork`: its status is what the message at hand accounts for. After
  it, the run is `Reworking`: the prompt is turned into code once more, the message for the
  test run finds a completed step, and no handler is about to write a status. It rests on `RoutingInv`: the row of
  a completed step holds the output of its worker, and that of failure routing says which way the run went.

### The other components

For every set of paths, repository and policy (`PathAssumption`, `RequestAssumption`):

- **`ContextResolverProofs!TypeCorrect`**, **`BundleIsBoundedHolds`**, with `BoundInv` = types, the
  bound, and no file selected before the artifact was dealt with. `AddArtifact` does not ask for
  room, which is why the bound speaks of bundles with a file in them.
- **`FilesAreTheFirstWantedHolds`**, **`OmissionsAreMarkedHolds`**, from `ChoiceInv`: before the turn that is
  next the usable files, and no others, are in, in the order of their turns; and as long as `truncated` is
  not set, nothing was cut or left out.

For all limits and pass scores, and whatever is read from the answers (`JudgeAssumption`, `LimitAssumption`):

- **`SelfImprovingStepProofs!TypeCorrect`**, **`TaskPromptIsJudgedHolds`**, **`ReturnedOutputIsJudgedHolds`**,
  **`CallsAreBoundedHolds`**, from the loop invariant `LoopInv`: `PromptLoop` and
  `OutputLoop` relate the number of judgements to the number of revisions at each
  phase, and `CallCount` adds them up.

For every policy, set of versions and set of outcomes (`PolicyAssumption`):

- **`PromptPromotionProofs!TypeCorrect`**, and **`WorkflowRateBoundsStagesHolds`** from the invariant that the
  workflow passes no more often than any stage.
- **`NoMutualPromotionHolds`**: the leads of two versions over each other add up to less than zero when the
  delta is positive. It needs no invariant beyond the types, but non-linear arithmetic, in small steps.
- **`SuccessKeepsPromotionHolds`**: adding a success to a rate moves no comparison the other way; it uses
  that no metric passes more often than there are samples.

### What is not proved

`EveryRunIsJudged` and `FailedRunsAreRouted` are only model-checked: liveness under fairness is out of the
prover's reach. The properties of the violation runs are false there, so there is nothing to prove:
`FailedRunsAreRouted` (as committed), `FailuresArePublished`, `FailedRegenerationsReachAHuman` and
`BundleWithinBudget`.

## 5. Findings

1. **Failure routing never routes** (`unrouted`). `worker.py:140` uses
   `WorkflowStatus`, which is not imported. Every result of failure-routing raises
   `NameError` after its step was marked completed; the step is marked failed and
   requeued forever. README.md:97-101 promises regeneration or human review.
2. **A crash loses a failure** (`lost_failure`). The step is completed (`worker.py:85`)
   before its verdict and its failure message. After a crash in between, the redelivered message
   cannot be claimed and is acknowledged. README.md:178-179 promises the failure is published.
3. **The character limit of a context bundle is not kept** (`context_budget`).
   `context.py:216` assigns the length of the last file instead of adding it.

4. **A regenerated run is never reviewed** (`regenerated`). Hidden behind finding 1. The stages after a
   regenerated prompt-to-code are asked for by their first attempt (`worker.py:169`), which is completed
   already, so the message is skipped and the run stays running. README.md:101 promises human review
   after any failed regeneration, and `tests/test_failure_routing_handler.py:59` tests the handler for it.

Two more show in the source alone. The production overlay (`deploy/k8s/prod/services.yaml:66`) deploys neither the
test runner nor the requirements and policy reviews nor failure routing, so that every run stops at the test runner's queue.
And `prompt-to-code/src/handler.py:66` preserves the prompt and the ticket only, so that the artifacts of a regenerated
run have `regeneration_attempt` 0; the work is sent back once (README.md:99) by the key of the routing step and not by this count.

More behaviours are described by no document, so they are hazards without a finding: a crash between the claim and the end leaves a step running for
good (`worker.py:53`), and so does an error of the `step_started` event (`worker.py:64`); a
submit request that fails half way leaves a running workflow without a message; a review takes the first
complete object in the answer for the answer, and passes if there is none (`code-review/src/handler.py:92`); with the default delta of 0.0 two prompts of equal
rates are each promoted over the other (`prompt_promotion.py:123`).

## 6. What is not modelled, and why

Texts, findings and LLM metadata (no property depends on them); timestamps, error
columns and event payloads (nothing reads them); the attempt and trace fields of a
message (nothing reads them); logging; configuration from environment variables; the
LLM clients' HTTP, the S3 client and the prompt registry (single calls, whose failure is
`CallFails` or `Raise`); the rendering of a bundle into a prompt and the search for the
repository root (pure I/O); the analysis service and the dashboards (placeholders); two
submissions of one ticket (ids are random, so these are two runs). A publisher confirm that
is lost is a lost reply; a broker that loses its durable queues is not modelled, nor is a
database that loses a commit.

## 7. Plan

1. A message that always fails in front of another run's, as a liveness property of two runs. `two_runs` checks
   safety with one service; with seven services and no faults two runs have over 100,000 states and take minutes, and
   a fault or a second class of code puts them out of reach.
2. What `EveryRunIsJudged` rests on, as safety: in a system without faults a run that has no verdict has a
   message or a handler, and each hand-off is later in the order of the stages. `OnCourse` has both halves; a
   statement of its own would leave fairness as the only thing that TLC alone shows.
3. A refinement of the run: an abstract specification with a status and a stage per run, implemented by
   `Pipeline` without faults. `VerdictInv` and `OnCourse` are most of its invariant.
4. `AuditTrailTruthful` with the import repaired: which events remain truthful after a run was sent back.
