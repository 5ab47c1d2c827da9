---------------------------- MODULE StepWorker ----------------------------
(***************************************************************************)
(* The step workers of worker.py and the orchestrator's submit handler, on *)
(* the database and the stage queues.  Each database or broker call of a   *)
(* handler is one action, labelled by pc, so that every interleaving of    *)
(* workers at their awaits, and a failure of any call, is a behaviour.     *)
(*                                                                         *)
(* A worker is one running message handler of a service: a replica, or the *)
(* second handler a replica runs when its channel was replaced under the   *)
(* first.  What a handler computes is the constant Results.                *)
(***************************************************************************)
EXTENDS WorkflowDatabase, StageQueues, FiniteSets

CONSTANTS
  Results(_, _),    \* Results(t, c): the results step type t may return for c
  NoResult,
  StatusNameBound,  \* worker.py imports WorkflowStatus (as committed: FALSE)
  FaultKinds,       \* the faults that may happen ...
  FaultLabels,      \* ... the calls at which a call may fail ...
  MaxFaults         \* ... and how many happen at most

VARIABLES pc,       \* pc[w]: the next call worker w makes
          result,   \* result[w]: what the handler returned
          request,  \* request[r]: the next call of the request that creates r
          faults    \* how many faults have happened

vars == <<dbVars, queueVars, pc, result, request, faults>>

TryLabels == {"process", "store", "complete", "terminal", "terminal_event",
              "failure_step", "failure_publish", "failure_event", "override",
              "finish", "finish_event", "next_step", "publish",
              "publish_event"}

Labels == TryLabels \cup {"idle", "claim", "skip", "start", "except",
                          "except_event"}

RequestLabels == {"create_run", "create_input", "create_step",
                  "publish_first", "started_event", "done", "error"}

ASSUME ResultsAssumption ==
  \A t \in StepType, c \in Content : Results(t, c) \in SUBSET StepResult
ASSUME StatusNameAssumption == StatusNameBound \in BOOLEAN
ASSUME FaultAssumption ==
  /\ FaultKinds \in SUBSET {"error", "lost_reply", "crash", "disconnect"}
  /\ MaxFaults \in Nat

(***************************************************************************)
(* The labels at which the handler's result is at hand, and at which it    *)
(* names a next step.                                                      *)
(***************************************************************************)
ResultLabels == TryLabels \ {"process"}

NextLabels == {"next_step", "publish"}

WorkerTypeOK ==
  /\ pc \in [Workers -> Labels]
  /\ result \in [Workers -> StepResult \cup {NoResult}]
  /\ \A w \in Workers :
       /\ pc[w] # "idle" => msg[w] \in WorkflowMessage
       /\ pc[w] \in ResultLabels => result[w] \in StepResult
       /\ pc[w] \in NextLabels => result[w].next \in StepType

(***************************************************************************)
(* Every variable has its type: a worker that uses a message or a result   *)
(* has one, and creates a next step only when the result names one.        *)
(***************************************************************************)
TypeOK == /\ DbTypeOK
          /\ QueueTypeOK
          /\ WorkerTypeOK
          /\ request \in [Runs -> RequestLabels]
          /\ faults \in 0..MaxFaults

Init == /\ DbInit
        /\ QueueInit
        /\ pc = [w \in Workers |-> "idle"]
        /\ result = [w \in Workers |-> NoResult]
        /\ request = [r \in Runs |-> "create_run"]
        /\ faults = 0

(***************************************************************************)
(* What the message and the result determine.                              *)
(***************************************************************************)
Step(w) == msg[w].step

Output(w) == [run |-> Step(w).run, content |-> result[w].content]

FailureStep(w) == FirstAttempt(Step(w).run, "failure_routing")

NextStep(w) == [run |-> Step(w).run, type |-> result[w].next,
                attempt |-> result[w].attempt]

(***************************************************************************)
(* How a message handler ends.  The broker does not reply to a settlement, *)
(* so it belongs to the step that ends the handler.                        *)
(***************************************************************************)
Goto(w, label) == pc' = [pc EXCEPT ![w] = label]

Leave(w) == /\ Goto(w, "idle")
            /\ result' = [result EXCEPT ![w] = NoResult]

Return(w) == Acknowledge(w) /\ Leave(w)

\* Mutant of Reraise: the exception is swallowed and the message acknowledged.
Swallow(w) == Acknowledge(w) /\ Leave(w)

Reraise(w) == Requeue(w) /\ Leave(w)

(***************************************************************************)
(* Faults.  A call can fail without effect, or take effect and lose its    *)
(* reply; the handler sees an exception either way, and only the try block *)
(* catches it.                                                             *)
(***************************************************************************)
Fault(kind) == /\ kind \in FaultKinds
               /\ faults < MaxFaults
               /\ faults' = faults + 1

Catch(w) == Goto(w, "except") /\ UNCHANGED result

Raise(w) == IF pc[w] \in TryLabels
              THEN Catch(w) /\ UNCHANGED queueVars
              ELSE Reraise(w)

LoseReply(w) == /\ pc[w] \in FaultLabels
                /\ Fault("lost_reply")
                /\ Raise(w)

(***************************************************************************)
(* Worker w makes the database call at label, and goes on at next or       *)
(* returns.  The action conjoined with it is the effect of the call.       *)
(***************************************************************************)
Call(w, label, next) ==
  /\ pc[w] = label
  /\ \/ /\ Goto(w, next)
        /\ UNCHANGED <<queueVars, result, faults>>
     \/ LoseReply(w)
  /\ UNCHANGED request

LastCall(w, label) ==
  /\ pc[w] = label
  /\ \/ Return(w) /\ UNCHANGED faults
     \/ LoseReply(w)
  /\ UNCHANGED request

PublishCall(w, label, next, k) ==
  /\ pc[w] = label
  /\ Publish(k, Output(w))
  /\ \/ /\ Goto(w, next)
        /\ UNCHANGED <<result, faults>>
     \/ /\ label \in FaultLabels
        /\ Fault("lost_reply")
        /\ Catch(w)
  /\ UNCHANGED <<dbVars, request>>

(***************************************************************************)
(* The message handler.  Of the events it records, only those that report  *)
(* a verdict or a hand-off are kept; the others are calls without effect   *)
(* on what is modelled.                                                    *)
(***************************************************************************)
Receive(w) == /\ pc[w] = "idle"
              /\ Deliver(w)
              /\ Goto(w, "claim")
              /\ UNCHANGED <<dbVars, result, request, faults>>

\* Mutant of Claim: the handler goes on whether or not it got the step.
ClaimUnchecked(w) == /\ Call(w, "claim", "start")
                     /\ ClaimStepForProcessing(Step(w))

Claim(w) ==
  /\ Call(w, "claim", IF Claimable(Step(w)) THEN "start" ELSE "skip")
  /\ ClaimStepForProcessing(Step(w))

Skip(w) == /\ LastCall(w, "skip")
           /\ UNCHANGED dbVars

Start(w) == /\ Call(w, "start", "process")
            /\ UNCHANGED dbVars

(***************************************************************************)
(* get_artifact and process: artifact rows never change, so reading the    *)
(* input and using it are one step.                                        *)
(***************************************************************************)
Process(w) ==
  /\ pc[w] = "process"
  /\ \E res \in Results(Step(w).type, msg[w].input.content) :
       result' = [result EXCEPT ![w] = res]
  /\ Goto(w, "store")
  /\ UNCHANGED <<dbVars, queueVars, request, faults>>

Store(w) == /\ Call(w, "store", "complete")
            /\ CreateArtifact(Output(w))

\* Mutant of AfterOverride: the next step is published before it has a row.
PublishesFirst(w) == IF result[w].next = None THEN "finish" ELSE "publish"

AfterOverride(w) == IF result[w].next = None THEN "finish" ELSE "next_step"

\* Mutants of AfterComplete: terminal_workflow_status is not looked at; the
\* terminal event is recorded without the verdict.
AfterCompleteIgnoresTerminal(w) ==
  IF result[w].override # None THEN "override" ELSE AfterOverride(w)

AfterCompleteEventFirst(w) ==
  IF result[w].terminal # None THEN "terminal_event"
  ELSE IF result[w].override # None THEN "override"
  ELSE AfterOverride(w)

AfterComplete(w) == IF result[w].terminal # None THEN "terminal"
                    ELSE IF result[w].override # None THEN "override"
                    ELSE AfterOverride(w)

Complete(w) == /\ Call(w, "complete", AfterComplete(w))
               /\ MarkStepCompleted(Step(w), Output(w))

(***************************************************************************)
(* A terminal result: the verdict, its event and the failure hand-off.     *)
(***************************************************************************)
Terminal(w) == /\ Call(w, "terminal", "terminal_event")
               /\ result[w].terminal \in {"completed", "failed"}
               /\ MarkWorkflow(Step(w).run, result[w].terminal)

TerminalUnsupported(w) ==
  /\ pc[w] = "terminal"
  /\ result[w].terminal \notin {"completed", "failed"}
  /\ Catch(w)
  /\ UNCHANGED <<dbVars, queueVars, request, faults>>

TerminalEvent(w) ==
  /\ pc[w] = "terminal_event"
  /\ IF result[w].failure THEN Call(w, "terminal_event", "failure_step")
                          ELSE LastCall(w, "terminal_event")
  /\ RecordEvent(Step(w), IF result[w].event = None THEN "workflow_terminated"
                                                    ELSE result[w].event)

\* Mutant of CreateFailureStep: nothing is published after it.
CreateFailureStepOnly(w) == /\ Call(w, "failure_step", "failure_event")
                            /\ CreateWorkflowStep(FailureStep(w), Output(w))

CreateFailureStep(w) == /\ Call(w, "failure_step", "failure_publish")
                        /\ CreateWorkflowStep(FailureStep(w), Output(w))

PublishFailure(w) ==
  PublishCall(w, "failure_publish", "failure_event", FailureStep(w))

FailureEvent(w) == /\ LastCall(w, "failure_event")
                   /\ RecordEvent(Step(w), "workflow_failure_published")

(***************************************************************************)
(* A result that continues: the status override and the next step.         *)
(***************************************************************************)
Override(w) ==
  /\ Call(w, "override", AfterOverride(w))
  /\ StatusNameBound
  /\ result[w].override \in {"running", "failed", "completed"}
  /\ MarkWorkflow(Step(w).run, result[w].override)

OverrideUnsupported(w) ==
  /\ pc[w] = "override"
  /\ \/ ~StatusNameBound        \* NameError
     \/ result[w].override \notin {"running", "failed", "completed"}
  /\ Catch(w)
  /\ UNCHANGED <<dbVars, queueVars, request, faults>>

Finish(w) == /\ Call(w, "finish", "finish_event")
             /\ MarkWorkflow(Step(w).run, "completed")

FinishEvent(w) == /\ LastCall(w, "finish_event")
                  /\ RecordEvent(Step(w), "workflow_completed")

\* Mutant of CreateNextStep: nothing is published after it.
CreateNextStepOnly(w) == /\ Call(w, "next_step", "publish_event")
                         /\ CreateWorkflowStep(NextStep(w), Output(w))

CreateNextStep(w) == /\ Call(w, "next_step", "publish")
                     /\ CreateWorkflowStep(NextStep(w), Output(w))

\* Mutant of PublishNext: the message names the first attempt.
PublishNextFirstAttempt(w) ==
  PublishCall(w, "publish", "publish_event",
              FirstAttempt(Step(w).run, result[w].next))

PublishNext(w) == PublishCall(w, "publish", "publish_event", NextStep(w))

PublishEvent(w) == /\ LastCall(w, "publish_event")
                   /\ RecordEvent(Step(w), "next_step_published")

(***************************************************************************)
(* The except block.                                                       *)
(***************************************************************************)
\* Mutant of Fail: the except block does not mark the step failed.
FailUnmarked(w) == /\ Call(w, "except", "except_event")
                   /\ UNCHANGED dbVars

Fail(w) == /\ Call(w, "except", "except_event")
           /\ MarkStepFailed(Step(w))

FailEvent(w) == /\ pc[w] = "except_event"
                /\ Reraise(w)
                /\ UNCHANGED <<dbVars, request, faults>>

WorkerStep(w) ==
  \/ Receive(w) \/ Claim(w) \/ Skip(w) \/ Start(w) \/ Process(w) \/ Store(w)
  \/ Complete(w) \/ Terminal(w) \/ TerminalUnsupported(w) \/ TerminalEvent(w)
  \/ CreateFailureStep(w) \/ PublishFailure(w) \/ FailureEvent(w)
  \/ Override(w) \/ OverrideUnsupported(w) \/ Finish(w) \/ FinishEvent(w)
  \/ CreateNextStep(w) \/ PublishNext(w) \/ PublishEvent(w)
  \/ Fail(w) \/ FailEvent(w)

(***************************************************************************)
(* The environment of a worker: a call that fails without effect (a broken *)
(* connection, an LLM timeout, the RuntimeError of an insert that lost a   *)
(* race), the death of the process, which the platform restarts, and the   *)
(* loss of the broker channel under a handler that goes on.                *)
(***************************************************************************)
CallFails(w) == /\ pc[w] \in FaultLabels \ {"idle"}
                /\ Fault("error")
                /\ Raise(w)
                /\ UNCHANGED <<dbVars, request>>

Crash(w) == /\ pc[w] # "idle"
            /\ Fault("crash")
            /\ Reraise(w)
            /\ UNCHANGED <<dbVars, request>>

Disconnect(w) == /\ CloseChannel(w)
                 /\ Fault("disconnect")
                 /\ UNCHANGED <<dbVars, pc, result, request>>

(***************************************************************************)
(* The orchestrator's create_workflow_run.  A request that fails half way  *)
(* is answered with an error and leaves what it wrote.                     *)
(***************************************************************************)
Ticket(r) ==
  [run |-> r, content |-> [type |-> "source_ticket", prompt |-> FALSE,
                           regen |-> 0, code |-> "absent", gates |-> {},
                           stage |-> None]]

FirstStep(r) == FirstAttempt(r, "ticket_to_prompt")

RequestCall(r, label, next) ==
  /\ request[r] = label
  /\ \/ /\ request' = [request EXCEPT ![r] = next]
        /\ UNCHANGED faults
     \/ /\ label \in FaultLabels
        /\ Fault("lost_reply")
        /\ request' = [request EXCEPT ![r] = "error"]
  /\ UNCHANGED <<pc, result>>

CreateRun(r) == /\ RequestCall(r, "create_run", "create_input")
                /\ CreateWorkflowRun(r)
                /\ UNCHANGED queueVars

CreateInput(r) == /\ RequestCall(r, "create_input", "create_step")
                  /\ CreateArtifact(Ticket(r))
                  /\ UNCHANGED queueVars

CreateFirstStep(r) == /\ RequestCall(r, "create_step", "publish_first")
                      /\ CreateWorkflowStep(FirstStep(r), Ticket(r))
                      /\ UNCHANGED queueVars

PublishFirst(r) == /\ RequestCall(r, "publish_first", "started_event")
                   /\ Publish(FirstStep(r), Ticket(r))
                   /\ UNCHANGED dbVars

StartedEvent(r) == /\ RequestCall(r, "started_event", "done")
                   /\ UNCHANGED <<dbVars, queueVars>>

RequestContinues(r) == \/ CreateInput(r) \/ CreateFirstStep(r)
                       \/ PublishFirst(r) \/ StartedEvent(r)

RequestFails(r) == /\ request[r] \notin {"create_run", "done", "error"}
                   /\ \/ request[r] \in FaultLabels /\ Fault("error")
                      \/ Fault("crash")
                   /\ request' = [request EXCEPT ![r] = "error"]
                   /\ UNCHANGED <<dbVars, queueVars, pc, result>>

Next == \/ \E w \in Workers : \/ WorkerStep(w) \/ CallFails(w)
                              \/ Crash(w) \/ Disconnect(w)
        \/ \E r \in Runs : \/ CreateRun(r) \/ RequestContinues(r)
                           \/ RequestFails(r)

(***************************************************************************)
(* Fairness: the event loop resumes every handler whose call has returned, *)
(* the broker delivers to an idle consumer, and a request that was begun   *)
(* goes on.  Nobody has to send a request, and no fault has to happen.     *)
(***************************************************************************)
Fairness == /\ \A w \in Workers : WF_vars(WorkerStep(w))
            /\ \A r \in Runs : WF_vars(RequestContinues(r))

Spec == Init /\ [][Next]_vars /\ Fairness
-----------------------------------------------------------------------------
(***************************************************************************)
(* The labels at which a worker holds the claim on its step.               *)
(***************************************************************************)
OwnerLabels == TryLabels \cup {"start", "except"}

Owns(w, k) == pc[w] \in OwnerLabels /\ Step(w) = k

(***************************************************************************)
(* No two handlers ever execute one step at the same time, whatever was    *)
(* redelivered to whom: the conditional UPDATE of the claim is the only    *)
(* lock, and mark_step_completed and mark_step_failed do not check it.     *)
(***************************************************************************)
ExclusiveExecution ==
  \A v, w \in Workers :
    v # w /\ pc[v] \in OwnerLabels => ~Owns(w, Step(v))

\* The messages that are queued or being handled.
Messages == queue \cup {msg[w] : w \in {v \in Workers : pc[v] # "idle"}}

(***************************************************************************)
(* Every message, queued or being handled, names a step row and a stored   *)
(* artifact of the same run: rows are written before the message that      *)
(* names them, through every retry, so get_artifact finds its row.         *)
(***************************************************************************)
MessagesResolvable ==
  \A m \in Messages : /\ Exists(m.step)
                       /\ m.input \in artifacts
                       /\ m.input.run = m.step.run

(***************************************************************************)
(* A step that was marked failed still has a message, so that somebody     *)
(* claims it again.  It takes a handler whose message stays its own until  *)
(* the handler ends: false once a channel may close under a handler.       *)
(***************************************************************************)
FailedStepsAreRetried ==
  \A k \in StepKey :
    StatusOf(k) = "failed" => \E m \in queue : m.step = k

(***************************************************************************)
(* A step is "running" only while some handler runs it.  It takes a        *)
(* handler that neither dies nor fails outside its try block.              *)
(***************************************************************************)
RunningStepsAreOwned ==
  \A k \in StepKey :
    StatusOf(k) = "running" => \E w \in Workers : Owns(w, k)

\* The steps that are running with nobody to run them: no message may claim
\* them again.
Orphans ==
  {k \in DOMAIN steps : /\ steps[k].status = "running"
                        /\ \A w \in Workers : ~Owns(w, k)}

(***************************************************************************)
(* An orphan costs a fault of its own.  A claim whose reply is lost, an    *)
(* event that cannot be recorded before the try block, a crash, a          *)
(* mark_step_failed that fails: each leaves one step behind, and no        *)
(* redelivery or replica makes two of it.                                  *)
(***************************************************************************)
OrphansNeedFaults == Cardinality(Orphans) <= faults

\* The steps that somebody claimed and that nobody will end: orphans, and steps
\* marked failed by a handler whose message was settled by another one.
Lost ==
  Orphans \cup {k \in DOMAIN steps : /\ steps[k].status = "failed"
                                     /\ \A m \in queue : m.step # k}

(***************************************************************************)
(* With lost channels a failed step may lose its message as well.  That    *)
(* too costs a fault for each step: a channel that closes under a handler, *)
(* and the second delivery that is acknowledged while the first handler    *)
(* still runs, lose the one step they were about and no other.             *)
(***************************************************************************)
LostStepsNeedFaults == Cardinality(Lost) <= faults

\* The runs that are running, no longer being submitted, and have no message.
Stranded ==
  {r \in Runs : /\ runs[r] = "running"
                /\ request[r] \in {"done", "error"}
                /\ \A m \in Messages : m.step.run # r}

(***************************************************************************)
(* Neither is a run left without a message and without a verdict unless a  *)
(* fault hit it: a submit request that broke off, or a handler that lost   *)
(* its step.  Without faults somebody always has the work of a running run *)
(* at hand.                                                                *)
(***************************************************************************)
StrandedRunsNeedFaults == Cardinality(Stranded) <= faults

(***************************************************************************)
(* A completed step is reopened by nobody but the handler that completed   *)
(* it, when one of its later calls fails.                                  *)
(***************************************************************************)
CompletionKept ==
  [][\A k \in StepKey :
       StatusOf(k) = "completed" /\ StatusOf(k)' # "completed"
         => \E w \in Workers : pc[w] = "except" /\ Step(w) = k]_vars

\* The statuses of the table, and who executes which step.
TableStatus == [k \in DOMAIN steps |-> steps[k].status]

Owners == {w \in Workers : pc[w] \in OwnerLabels}

Executing == [w \in Owners |-> Step(w)]

(***************************************************************************)
(* The worker implements the life cycle of a step: the table and the       *)
(* message handlers together behave as a lock that one handler takes, that *)
(* only its holder gives back, and that a completed or a running step      *)
(* never grants again, through every retry and every fault.                *)
(***************************************************************************)
Lifecycle == INSTANCE StepLifecycle WITH
  Steps <- StepKey, Executors <- Workers,
  status <- TableStatus, executing <- Executing

ImplementsLifecycle == Lifecycle!Spec
=============================================================================
