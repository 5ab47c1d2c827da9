------------------------- MODULE StepWorkerProofs -------------------------
(***************************************************************************)
(* Proofs about the step worker, for any number of runs, workers and       *)
(* faults and any handlers: its types, the exclusion of handlers, and that *)
(* it implements the life cycle of a step.                                 *)
(***************************************************************************)
EXTENDS StepWorker, TLAPS

(***************************************************************************)
(* Inserting a step and publishing a message keep the tables and queues    *)
(* well typed.                                                             *)
(***************************************************************************)
LEMMA CreateWorkflowStepTyped ==
  ASSUME DbTypeOK, NEW k \in StepKey, NEW a \in Artifact,
         CreateWorkflowStep(k, a)
  PROVE  DbTypeOK'
BY DEF CreateWorkflowStep, DbTypeOK, Exists, StepRow, StepStatus

LEMMA PublishTyped ==
  ASSUME QueueTypeOK, NEW k \in StepKey, NEW a \in Artifact, Publish(k, a)
  PROVE  QueueTypeOK'
BY DEF Publish, QueueTypeOK, WorkflowMessage

(***************************************************************************)
(* What the message and the result of a worker determine is well typed.    *)
(***************************************************************************)
LEMMA StepTyped ==
  ASSUME TypeOK, NEW w \in Workers, pc[w] # "idle"
  PROVE  Step(w) \in StepKey
BY DEF TypeOK, WorkerTypeOK, Step, WorkflowMessage

LEMMA OutputTyped ==
  ASSUME TypeOK, NEW w \in Workers, pc[w] \in ResultLabels
  PROVE  /\ result[w] \in StepResult
         /\ Output(w) \in Artifact
         /\ FailureStep(w) \in StepKey
<1>1. pc[w] # "idle"
  BY DEF ResultLabels, TryLabels
<1>2. Step(w) \in StepKey
  BY <1>1, StepTyped
<1>3. result[w] \in StepResult
  BY DEF TypeOK, WorkerTypeOK
<1>4. Output(w) \in Artifact
  BY <1>2, <1>3 DEF Output, Artifact, StepResult, StepKey
<1>5. FailureStep(w) \in StepKey
  BY <1>2 DEF FailureStep, FirstAttempt, StepKey, StepType, Attempt
<1> QED
  BY <1>3, <1>4, <1>5

LEMMA NextStepTyped ==
  ASSUME TypeOK, NEW w \in Workers, pc[w] \in NextLabels
  PROVE  NextStep(w) \in StepKey
<1>1. pc[w] \in ResultLabels
  BY DEF NextLabels, ResultLabels, TryLabels
<1>2. result[w] \in StepResult /\ Step(w) \in StepKey
  BY <1>1, StepTyped, OutputTyped DEF ResultLabels, TryLabels
<1>3. result[w].next \in StepType
  BY DEF TypeOK, WorkerTypeOK
<1> QED
  BY <1>2, <1>3 DEF NextStep, StepKey, StepResult

(***************************************************************************)
(* The ways the local state of a worker changes.                           *)
(***************************************************************************)
LEMMA GotoTyped ==
  ASSUME WorkerTypeOK, NEW w \in Workers, pc[w] # "idle",
         NEW label \in Labels, Goto(w, label), UNCHANGED <<msg, result>>,
         label \in ResultLabels => result[w] \in StepResult,
         label \in NextLabels => result[w].next \in StepType
  PROVE  WorkerTypeOK'
BY DEF WorkerTypeOK, Goto

LEMMA CatchTyped ==
  ASSUME WorkerTypeOK, NEW w \in Workers, pc[w] # "idle", Catch(w),
         UNCHANGED msg
  PROVE  WorkerTypeOK'
<1>1. "except" \in Labels /\ "except" \notin ResultLabels /\ "except" \notin NextLabels
  BY DEF Labels, ResultLabels, TryLabels, NextLabels
<1> QED
  BY <1>1, GotoTyped DEF Catch

LEMMA LeaveTyped ==
  ASSUME WorkerTypeOK, NEW w \in Workers, Leave(w),
         \A v \in Workers : v # w => msg'[v] = msg[v]
  PROVE  WorkerTypeOK'
<1>1. "idle" \in Labels /\ "idle" \notin ResultLabels /\ "idle" \notin NextLabels
  BY DEF Labels, ResultLabels, TryLabels, NextLabels
<1> QED
  BY <1>1 DEF WorkerTypeOK, Leave, Goto

LEMMA ReturnTyped ==
  ASSUME QueueTypeOK, WorkerTypeOK, NEW w \in Workers, Return(w) \/ Reraise(w)
  PROVE  QueueTypeOK' /\ WorkerTypeOK'
<1>1. Leave(w) /\ (Acknowledge(w) \/ Requeue(w))
  BY DEF Return, Reraise
<1>2. QueueTypeOK'
  BY <1>1 DEF QueueTypeOK, Acknowledge, Requeue
<1>3. \A v \in Workers : v # w => msg'[v] = msg[v]
  BY <1>1 DEF QueueTypeOK, Acknowledge, Requeue
<1> QED
  BY <1>1, <1>2, <1>3, LeaveTyped

LEMMA RaiseTyped ==
  ASSUME QueueTypeOK, WorkerTypeOK, NEW w \in Workers, pc[w] # "idle", Raise(w)
  PROVE  QueueTypeOK' /\ WorkerTypeOK'
<1>1. CASE pc[w] \in TryLabels
  <2>1. Catch(w) /\ UNCHANGED queueVars
    BY <1>1 DEF Raise
  <2>2. QueueTypeOK'
    BY <2>1 DEF QueueTypeOK, queueVars
  <2> QED
    BY <2>1, <2>2, CatchTyped DEF queueVars
<1>2. CASE pc[w] \notin TryLabels
  BY <1>2, ReturnTyped DEF Raise
<1> QED
  BY <1>1, <1>2

LEMMA FaultTyped ==
  ASSUME faults \in 0..MaxFaults, NEW kind, Fault(kind)
  PROVE  faults' \in 0..MaxFaults
BY FaultAssumption DEF Fault

(***************************************************************************)
(* A call leaves everything but the tables well typed.                     *)
(***************************************************************************)
NonDbTypeOK == /\ QueueTypeOK
               /\ WorkerTypeOK
               /\ request \in [Runs -> RequestLabels]
               /\ faults \in 0..MaxFaults

LEMMA CallTyped ==
  ASSUME NonDbTypeOK, NEW w \in Workers, NEW label \in Labels \ {"idle"},
         NEW next \in Labels,
         next \in ResultLabels => result[w] \in StepResult,
         next \in NextLabels => result[w].next \in StepType,
         Call(w, label, next)
  PROVE  NonDbTypeOK'
<1>1. pc[w] # "idle" /\ UNCHANGED request
  BY DEF Call
<1>2. CASE Goto(w, next) /\ UNCHANGED <<queueVars, result, faults>>
  <2>1. QueueTypeOK'
    BY <1>2 DEF NonDbTypeOK, QueueTypeOK, queueVars
  <2>2. WorkerTypeOK'
    BY <1>1, <1>2, GotoTyped DEF NonDbTypeOK, queueVars
  <2> QED
    BY <1>1, <1>2, <2>1, <2>2 DEF NonDbTypeOK
<1>3. CASE LoseReply(w)
  <2>1. QueueTypeOK' /\ WorkerTypeOK'
    BY <1>1, <1>3, RaiseTyped DEF NonDbTypeOK, LoseReply
  <2> QED
    BY <1>1, <1>3, <2>1, FaultTyped DEF NonDbTypeOK, LoseReply
<1> QED
  BY <1>2, <1>3 DEF Call

LEMMA LastCallTyped ==
  ASSUME NonDbTypeOK, NEW w \in Workers, NEW label \in Labels \ {"idle"},
         LastCall(w, label)
  PROVE  NonDbTypeOK'
<1>1. pc[w] # "idle" /\ UNCHANGED request
  BY DEF LastCall
<1>2. CASE Return(w) /\ UNCHANGED faults
  BY <1>1, <1>2, ReturnTyped DEF NonDbTypeOK
<1>3. CASE LoseReply(w)
  <2>1. QueueTypeOK' /\ WorkerTypeOK'
    BY <1>1, <1>3, RaiseTyped DEF NonDbTypeOK, LoseReply
  <2> QED
    BY <1>1, <1>3, <2>1, FaultTyped DEF NonDbTypeOK, LoseReply
<1> QED
  BY <1>2, <1>3 DEF LastCall

LEMMA PublishCallTyped ==
  ASSUME TypeOK, NEW w \in Workers, NEW label \in ResultLabels,
         NEW next \in ResultLabels \ NextLabels, NEW k \in StepKey,
         PublishCall(w, label, next, k)
  PROVE  TypeOK'
<1>1. /\ pc[w] \in ResultLabels /\ pc[w] # "idle"
      /\ next \in Labels
      /\ Publish(k, Output(w))
      /\ UNCHANGED <<dbVars, request>>
  BY DEF PublishCall, ResultLabels, TryLabels, Labels
<1>2. QueueTypeOK' /\ UNCHANGED msg
  BY <1>1, OutputTyped, PublishTyped DEF Publish, TypeOK
<1>3. DbTypeOK'
  BY <1>1 DEF TypeOK, DbTypeOK, dbVars
<1>4. CASE Goto(w, next) /\ UNCHANGED <<result, faults>>
  <2>1. WorkerTypeOK'
    BY <1>1, <1>2, <1>4, OutputTyped, GotoTyped DEF TypeOK
  <2> QED
    BY <1>1, <1>2, <1>3, <1>4, <2>1 DEF TypeOK
<1>5. CASE Fault("lost_reply") /\ Catch(w)
  <2>1. WorkerTypeOK'
    BY <1>1, <1>2, <1>5, CatchTyped DEF TypeOK
  <2> QED
    BY <1>1, <1>2, <1>3, <1>5, <2>1, FaultTyped DEF TypeOK
<1> QED
  BY <1>4, <1>5 DEF PublishCall

(***************************************************************************)
(* Every step of a worker keeps every variable well typed.                 *)
(***************************************************************************)
LEMMA WorkerStepTyped ==
  ASSUME TypeOK, NEW w \in Workers, WorkerStep(w)
  PROVE  TypeOK'
<1> DEFINE key == Step(w)
<1> HIDE DEF key
<1>l. /\ NextLabels \subseteq ResultLabels /\ ResultLabels \subseteq Labels
      /\ "idle" \notin ResultLabels
      /\ {"claim", "skip", "start", "process", "except", "except_event"}
           \subseteq Labels \ ({"idle"} \cup ResultLabels)
  BY DEF NextLabels, ResultLabels, TryLabels, Labels
<1>t. TypeOK <=> DbTypeOK /\ NonDbTypeOK
  BY DEF TypeOK, NonDbTypeOK
<1>u. TypeOK' <=> DbTypeOK' /\ NonDbTypeOK'
  BY DEF TypeOK, NonDbTypeOK
<1>k. pc[w] # "idle" => key \in StepKey
  BY StepTyped DEF key
<1>v. UNCHANGED dbVars => DbTypeOK'
  BY DEF TypeOK, DbTypeOK, dbVars
<1>1. CASE Receive(w)
  <2>1. pc[w] = "idle" /\ Deliver(w) /\ Goto(w, "claim") /\ UNCHANGED result
    BY <1>1 DEF Receive
  <2>2. QueueTypeOK'
    BY <2>1 DEF TypeOK, QueueTypeOK, Deliver, Ready
  <2>3. msg' \in [Workers -> WorkflowMessage \cup {NoMessage}]
        /\ msg'[w] \in WorkflowMessage
        /\ \A v \in Workers : v # w => msg'[v] = msg[v]
    BY <2>1 DEF TypeOK, QueueTypeOK, Deliver, Ready
  <2>4. WorkerTypeOK'
    BY <1>l, <2>1, <2>3 DEF TypeOK, WorkerTypeOK, Goto
  <2> QED
    BY <1>1, <1>v, <2>2, <2>4 DEF Receive, TypeOK
<1>2. CASE Claim(w)
  <2>1. pc[w] = "claim" /\ ClaimStepForProcessing(key)
    BY <1>2 DEF Claim, Call, key
  <2>2. DbTypeOK'
    BY <1>k, <2>1 DEF TypeOK, DbTypeOK, ClaimStepForProcessing, StepRow, StepStatus
  <2>3. NonDbTypeOK'
    <3> DEFINE next == IF Claimable(Step(w)) THEN "start" ELSE "skip"
    <3>1. next \in Labels /\ next \notin ResultLabels /\ next \notin NextLabels
      BY <1>l
    <3>2. Call(w, "claim", next)
      BY <1>2 DEF Claim
    <3> HIDE DEF next
    <3> QED
      BY <1>t, <1>l, <3>1, <3>2, CallTyped
  <2> QED
    BY <1>u, <2>2, <2>3
<1>3. CASE Skip(w)
  <2>1. NonDbTypeOK'
    BY <1>3, <1>l, <1>t, LastCallTyped DEF Skip
  <2> QED
    BY <1>3, <1>u, <1>v, <2>1 DEF Skip
<1>4. CASE Start(w)
  <2>1. NonDbTypeOK'
    BY <1>4, <1>l, <1>t, CallTyped DEF Start
  <2> QED
    BY <1>4, <1>u, <1>v, <2>1 DEF Start
<1>5. CASE Process(w)
  <2>1. PICK res \in Results(Step(w).type, msg[w].input.content) :
          result' = [result EXCEPT ![w] = res]
    BY <1>5 DEF Process
  <2>2. msg[w].input.content \in Content /\ Step(w).type \in StepType
    BY <1>5 DEF Process, TypeOK, WorkerTypeOK, WorkflowMessage, Artifact, Step, StepKey
  <2>3. res \in StepResult
    BY <2>1, <2>2, ResultsAssumption
  <2>4. "store" \in Labels /\ "store" \notin NextLabels
    BY DEF Labels, TryLabels, NextLabels
  <2>5. WorkerTypeOK'
    BY <1>5, <2>1, <2>3, <2>4 DEF Process, Goto, TypeOK, WorkerTypeOK, queueVars
  <2>6. QueueTypeOK'
    BY <1>5 DEF Process, TypeOK, QueueTypeOK, queueVars
  <2> QED
    BY <1>5, <1>v, <2>5, <2>6 DEF Process, TypeOK
<1>6. CASE Store(w)
  <2>1. pc[w] = "store" /\ pc[w] \in ResultLabels
    BY <1>6 DEF Store, Call, ResultLabels, TryLabels
  <2>2. Output(w) \in Artifact /\ result[w] \in StepResult
    BY <2>1, OutputTyped
  <2>3. DbTypeOK'
    BY <1>6, <2>2 DEF Store, CreateArtifact, TypeOK, DbTypeOK
  <2>4. "complete" \in Labels /\ "complete" \notin NextLabels
    BY DEF Labels, TryLabels, NextLabels
  <2>5. NonDbTypeOK'
    BY <1>6, <1>t, <1>l, <2>1, <2>2, <2>4, CallTyped DEF Store
  <2> QED
    BY <1>u, <2>3, <2>5
<1>7. CASE Complete(w)
  <2>1. pc[w] = "complete" /\ pc[w] \in ResultLabels
    BY <1>7 DEF Complete, Call, ResultLabels, TryLabels
  <2>2. Output(w) \in Artifact /\ result[w] \in StepResult
    BY <2>1, OutputTyped
  <2>3. MarkStepCompleted(key, Output(w)) /\ key \in StepKey
    BY <1>7, <1>k, <2>1 DEF Complete, key
  <2>4. DbTypeOK'
    BY <2>2, <2>3 DEF TypeOK, DbTypeOK, MarkStepCompleted, StepRow, StepStatus
  <2>5. AfterComplete(w) \in Labels
    BY DEF AfterComplete, AfterOverride, Labels, TryLabels
  <2>6. AfterComplete(w) \in NextLabels => result[w].next \in StepType
    BY <2>2 DEF AfterComplete, AfterOverride, NextLabels, StepResult
  <2>7. Call(w, "complete", AfterComplete(w))
    BY <1>7 DEF Complete
  <2>8. NonDbTypeOK'
    BY <1>t, <1>l, <2>1, <2>2, <2>5, <2>6, <2>7, CallTyped
  <2> QED
    BY <1>u, <2>4, <2>8
<1>8. CASE Terminal(w)
  <2>1. pc[w] = "terminal" /\ pc[w] \in ResultLabels
    BY <1>8 DEF Terminal, Call, ResultLabels, TryLabels
  <2>2. result[w] \in StepResult
    BY <2>1, OutputTyped
  <2>3. key.run \in Runs
    BY <1>k, <1>l, <2>1 DEF StepKey
  <2>4. DbTypeOK'
    BY <1>8, <2>3 DEF Terminal, MarkWorkflow, TypeOK, DbTypeOK, WorkflowStatus, key
  <2>5. "terminal_event" \in Labels /\ "terminal_event" \notin NextLabels
    BY DEF Labels, TryLabels, NextLabels
  <2>6. NonDbTypeOK'
    BY <1>8, <1>t, <1>l, <2>1, <2>2, <2>5, CallTyped DEF Terminal
  <2> QED
    BY <1>u, <2>4, <2>6
<1>9. CASE TerminalUnsupported(w) \/ OverrideUnsupported(w)
  <2>1. pc[w] # "idle" /\ Catch(w) /\ UNCHANGED <<dbVars, queueVars, request, faults>>
    BY <1>9 DEF TerminalUnsupported, OverrideUnsupported
  <2>2. WorkerTypeOK'
    BY <2>1, CatchTyped DEF TypeOK, queueVars
  <2>3. QueueTypeOK'
    BY <2>1 DEF TypeOK, QueueTypeOK, queueVars
  <2> QED
    BY <1>v, <2>1, <2>2, <2>3 DEF TypeOK
<1>10. CASE TerminalEvent(w)
  <2>1. pc[w] = "terminal_event" /\ pc[w] \in ResultLabels
    BY <1>10 DEF TerminalEvent, ResultLabels, TryLabels
  <2>2. result[w] \in StepResult
    BY <2>1, OutputTyped
  <2>3. result[w].event = None \/ result[w].event \in EventType
    BY <2>2 DEF StepResult, EventType
  <2>4. DbTypeOK'
    BY <1>10, <1>k, <1>l, <2>1, <2>3
       DEF TerminalEvent, RecordEvent, TypeOK, DbTypeOK, Event, EventType, TerminalEvents, key
  <2>5. "failure_step" \in Labels /\ "failure_step" \notin NextLabels
    BY DEF Labels, TryLabels, NextLabels
  <2>6. CASE Call(w, "terminal_event", "failure_step")
    BY <1>t, <1>u, <1>l, <2>1, <2>2, <2>4, <2>5, <2>6, CallTyped
  <2>7. CASE LastCall(w, "terminal_event")
    BY <1>t, <1>u, <1>l, <2>1, <2>4, <2>7, LastCallTyped
  <2> QED
    BY <1>10, <2>6, <2>7 DEF TerminalEvent
<1>11. CASE CreateFailureStep(w)
  <2>1. pc[w] = "failure_step" /\ pc[w] \in ResultLabels
    BY <1>11 DEF CreateFailureStep, Call, ResultLabels, TryLabels
  <2>2. Output(w) \in Artifact /\ FailureStep(w) \in StepKey /\ result[w] \in StepResult
    BY <2>1, OutputTyped
  <2>3. DbTypeOK'
    BY <1>11, <2>2, CreateWorkflowStepTyped DEF CreateFailureStep, TypeOK
  <2>4. "failure_publish" \in Labels /\ "failure_publish" \notin NextLabels
    BY DEF Labels, TryLabels, NextLabels
  <2>5. NonDbTypeOK'
    BY <1>11, <1>t, <1>l, <2>1, <2>2, <2>4, CallTyped DEF CreateFailureStep
  <2> QED
    BY <1>u, <2>3, <2>5
<1>12. CASE PublishFailure(w)
  <2>1. pc[w] = "failure_publish"
    BY <1>12 DEF PublishFailure, PublishCall
  <2>2. "failure_publish" \in ResultLabels /\ "failure_event" \in ResultLabels \ NextLabels
    BY DEF ResultLabels, TryLabels, NextLabels
  <2>3. FailureStep(w) \in StepKey
    BY <2>1, <2>2, OutputTyped
  <2> QED
    BY <1>12, <2>2, <2>3, PublishCallTyped DEF PublishFailure
<1>13. CASE FailureEvent(w) \/ FinishEvent(w) \/ PublishEvent(w)
  <2>1. PICK label \in {"failure_event", "finish_event", "publish_event"},
             type \in EventType :
          LastCall(w, label) /\ RecordEvent(key, type)
    BY <1>13 DEF FailureEvent, FinishEvent, PublishEvent, EventType, TerminalEvents, key
  <2>2. label \in Labels \ {"idle"}
    BY DEF Labels, TryLabels
  <2>3. pc[w] # "idle"
    BY <2>1 DEF LastCall
  <2>4. DbTypeOK'
    BY <1>k, <2>1, <2>3 DEF RecordEvent, TypeOK, DbTypeOK, Event
  <2> QED
    BY <1>t, <1>u, <2>1, <2>2, <2>4, LastCallTyped
<1>14. CASE Override(w)
  <2>1. pc[w] = "override" /\ pc[w] \in ResultLabels
    BY <1>14 DEF Override, Call, ResultLabels, TryLabels
  <2>2. result[w] \in StepResult
    BY <2>1, OutputTyped
  <2>3. key.run \in Runs
    BY <1>k, <1>l, <2>1 DEF StepKey
  <2>4. DbTypeOK'
    BY <1>14, <2>3 DEF Override, MarkWorkflow, TypeOK, DbTypeOK, WorkflowStatus, key
  <2>5. AfterOverride(w) \in Labels
    BY DEF AfterOverride, Labels, TryLabels
  <2>6. AfterOverride(w) \in NextLabels => result[w].next \in StepType
    BY <2>2 DEF AfterOverride, NextLabels, StepResult
  <2>7. NonDbTypeOK'
    BY <1>14, <1>t, <1>l, <2>1, <2>2, <2>5, <2>6, CallTyped DEF Override
  <2> QED
    BY <1>u, <2>4, <2>7
<1>15. CASE Finish(w)
  <2>1. pc[w] = "finish" /\ pc[w] \in ResultLabels
    BY <1>15 DEF Finish, Call, ResultLabels, TryLabels
  <2>2. result[w] \in StepResult
    BY <2>1, OutputTyped
  <2>3. key.run \in Runs
    BY <1>k, <1>l, <2>1 DEF StepKey
  <2>4. DbTypeOK'
    BY <1>15, <2>3 DEF Finish, MarkWorkflow, TypeOK, DbTypeOK, WorkflowStatus, key
  <2>5. "finish_event" \in Labels /\ "finish_event" \notin NextLabels
    BY DEF Labels, TryLabels, NextLabels
  <2>6. NonDbTypeOK'
    BY <1>15, <1>t, <1>l, <2>1, <2>2, <2>5, CallTyped DEF Finish
  <2> QED
    BY <1>u, <2>4, <2>6
<1>16. CASE CreateNextStep(w)
  <2>1. pc[w] = "next_step" /\ pc[w] \in NextLabels
    BY <1>16 DEF CreateNextStep, Call, NextLabels
  <2>2. Output(w) \in Artifact /\ NextStep(w) \in StepKey /\ result[w] \in StepResult
    BY <1>l, <2>1, OutputTyped, NextStepTyped
  <2>3. DbTypeOK'
    BY <1>16, <2>2, CreateWorkflowStepTyped DEF CreateNextStep, TypeOK
  <2>4. result[w].next \in StepType /\ "publish" \in Labels
    BY <2>1 DEF TypeOK, WorkerTypeOK, Labels, TryLabels
  <2>5. NonDbTypeOK'
    BY <1>16, <1>t, <1>l, <2>1, <2>2, <2>4, CallTyped DEF CreateNextStep
  <2> QED
    BY <1>u, <2>3, <2>5
<1>17. CASE PublishNext(w)
  <2>1. pc[w] = "publish" /\ pc[w] \in NextLabels
    BY <1>17 DEF PublishNext, PublishCall, NextLabels
  <2>2. "publish" \in ResultLabels /\ "publish_event" \in ResultLabels \ NextLabels
    BY DEF ResultLabels, TryLabels, NextLabels
  <2>3. NextStep(w) \in StepKey
    BY <2>1, NextStepTyped
  <2> QED
    BY <1>17, <2>2, <2>3, PublishCallTyped DEF PublishNext
<1>18. CASE Fail(w)
  <2>1. pc[w] = "except" /\ MarkStepFailed(key)
    BY <1>18 DEF Fail, Call, key
  <2>2. DbTypeOK'
    BY <1>k, <2>1 DEF TypeOK, DbTypeOK, MarkStepFailed, StepRow, StepStatus
  <2>3. NonDbTypeOK'
    BY <1>18, <1>t, <1>l, CallTyped DEF Fail
  <2> QED
    BY <1>u, <2>2, <2>3
<1>19. CASE FailEvent(w)
  <2>1. QueueTypeOK' /\ WorkerTypeOK'
    BY <1>19, ReturnTyped DEF FailEvent, TypeOK
  <2> QED
    BY <1>19, <1>v, <2>1 DEF FailEvent, TypeOK
<1> QED
  BY <1>1, <1>2, <1>3, <1>4, <1>5, <1>6, <1>7, <1>8, <1>9, <1>10, <1>11, <1>12,
     <1>13, <1>14, <1>15, <1>16, <1>17, <1>18, <1>19 DEF WorkerStep

(***************************************************************************)
(* So does every fault, and every step of a request.                       *)
(***************************************************************************)
LEMMA FaultStepTyped ==
  ASSUME TypeOK, NEW w \in Workers, CallFails(w) \/ Crash(w) \/ Disconnect(w)
  PROVE  TypeOK'
<1>1. DbTypeOK' /\ request' = request
  BY DEF CallFails, Crash, Disconnect, TypeOK, DbTypeOK, dbVars
<1>2. faults' \in 0..MaxFaults
  BY FaultTyped DEF CallFails, Crash, Disconnect, TypeOK
<1>3. CASE CallFails(w)
  <2>1. pc[w] # "idle" /\ Raise(w)
    BY <1>3 DEF CallFails
  <2> QED
    BY <1>1, <1>2, <2>1, RaiseTyped DEF TypeOK
<1>4. CASE Crash(w)
  <2>1. QueueTypeOK' /\ WorkerTypeOK'
    BY <1>4, ReturnTyped DEF Crash, TypeOK
  <2> QED
    BY <1>1, <1>2, <2>1 DEF TypeOK
<1>5. CASE Disconnect(w)
  <2>1. QueueTypeOK' /\ WorkerTypeOK'
    BY <1>5 DEF Disconnect, CloseChannel, TypeOK, QueueTypeOK, WorkerTypeOK
  <2> QED
    BY <1>1, <1>2, <2>1 DEF TypeOK
<1> QED
  BY <1>3, <1>4, <1>5

LEMMA TicketTyped ==
  ASSUME NEW r \in Runs
  PROVE  Ticket(r) \in Artifact /\ FirstStep(r) \in StepKey
<1>1. Ticket(r).content \in Content /\ Ticket(r) = [run |-> r, content |-> Ticket(r).content]
  BY DEF Ticket, Content, ArtifactType, CodeClass, Gates
<1>2. FirstStep(r) \in StepKey
  BY DEF FirstStep, FirstAttempt, StepKey, StepType, Attempt
<1> QED
  BY <1>1, <1>2 DEF Artifact

LEMMA RequestStepTyped ==
  ASSUME TypeOK, NEW r \in Runs,
         CreateRun(r) \/ RequestContinues(r) \/ RequestFails(r)
  PROVE  TypeOK'
<1>1. Ticket(r) \in Artifact /\ FirstStep(r) \in StepKey
  BY TicketTyped
<1>2. /\ faults' \in 0..MaxFaults
      /\ request' \in [Runs -> RequestLabels]
      /\ UNCHANGED <<pc, result>>
  BY FaultTyped
     DEF CreateRun, RequestContinues, CreateInput, CreateFirstStep, PublishFirst,
         StartedEvent, RequestFails, RequestCall, TypeOK, RequestLabels
<1>3. QueueTypeOK' /\ UNCHANGED msg
  <2>1. CASE PublishFirst(r)
    BY <1>1, <2>1, PublishTyped DEF PublishFirst, Publish, TypeOK
  <2>2. CASE UNCHANGED queueVars
    BY <2>2 DEF TypeOK, QueueTypeOK, queueVars
  <2> QED
    BY <2>1, <2>2 DEF CreateRun, RequestContinues, CreateInput,
                      CreateFirstStep, StartedEvent, RequestFails
<1>4. WorkerTypeOK'
  BY <1>2, <1>3 DEF TypeOK, WorkerTypeOK
<1>5. DbTypeOK'
  <2>1. CASE CreateRun(r)
    BY <2>1 DEF CreateRun, CreateWorkflowRun, TypeOK, DbTypeOK, WorkflowStatus
  <2>2. CASE CreateInput(r)
    BY <1>1, <2>2 DEF CreateInput, CreateArtifact, TypeOK, DbTypeOK
  <2>3. CASE CreateFirstStep(r)
    BY <1>1, <2>3, CreateWorkflowStepTyped DEF CreateFirstStep, TypeOK
  <2>4. CASE UNCHANGED dbVars
    BY <2>4 DEF TypeOK, DbTypeOK, dbVars
  <2> QED
    BY <2>1, <2>2, <2>3, <2>4
       DEF RequestContinues, PublishFirst, StartedEvent, RequestFails
<1> QED
  BY <1>2, <1>3, <1>4, <1>5 DEF TypeOK

(***************************************************************************)
(* The type invariant.                                                     *)
(***************************************************************************)
LEMMA InitTyped == Init => TypeOK
<1> SUFFICES ASSUME Init PROVE TypeOK
  OBVIOUS
<1>1. DbTypeOK
  BY DEF Init, DbInit, DbTypeOK
<1>2. QueueTypeOK
  BY DEF Init, QueueInit, QueueTypeOK
<1>3. WorkerTypeOK
  BY DEF Init, WorkerTypeOK, Labels, ResultLabels, TryLabels, NextLabels
<1>4. request \in [Runs -> RequestLabels] /\ faults \in 0..MaxFaults
  BY FaultAssumption DEF Init, RequestLabels
<1> QED
  BY <1>1, <1>2, <1>3, <1>4 DEF TypeOK

LEMMA NextTyped == TypeOK /\ [Next]_vars => TypeOK'
<1> SUFFICES ASSUME TypeOK, [Next]_vars PROVE TypeOK'
  OBVIOUS
<1>1. CASE UNCHANGED vars
  BY <1>1 DEF TypeOK, DbTypeOK, QueueTypeOK, WorkerTypeOK, vars, dbVars, queueVars
<1>2. CASE Next
  BY <1>2, WorkerStepTyped, FaultStepTyped, RequestStepTyped DEF Next
<1> QED
  BY <1>1, <1>2

(***************************************************************************)
(* Every variable always has its type: whatever calls fail, no worker uses *)
(* a message or a result it does not have, or creates a step of no type.   *)
(***************************************************************************)
THEOREM TypeCorrect == Spec => []TypeOK
BY InitTyped, NextTyped, PTL DEF Spec
-----------------------------------------------------------------------------
(***************************************************************************)
(* What each statement does to the status of a step k.                     *)
(***************************************************************************)
LEMMA CreateKeepsStatus ==
  ASSUME NEW j, NEW a, NEW k, Exists(k), CreateWorkflowStep(j, a)
  PROVE  StatusOf(k)' = StatusOf(k)
BY DEF CreateWorkflowStep, Exists, StatusOf

LEMMA ClaimSetsStatus ==
  ASSUME DbTypeOK, NEW j, NEW k, ClaimStepForProcessing(j)
  PROVE  StatusOf(k)' = IF k = j /\ Claimable(j) THEN "running" ELSE StatusOf(k)
<1>1. CASE Claimable(j)
  <2>1. Exists(j)
    BY <1>1 DEF Claimable, StatusOf
  <2>2. steps' = [steps EXCEPT ![j].status = "running"]
    BY <1>1 DEF ClaimStepForProcessing
  <2> QED
    BY <1>1, <2>1, <2>2 DEF StatusOf, Exists, DbTypeOK, StepRow
<1>2. CASE ~Claimable(j)
  BY <1>2 DEF ClaimStepForProcessing, StatusOf, Exists
<1> QED
  BY <1>1, <1>2

LEMMA CompleteSetsStatus ==
  ASSUME DbTypeOK, NEW j, NEW a, NEW k, Exists(k), MarkStepCompleted(j, a)
  PROVE  StatusOf(k)' = IF k = j THEN "completed" ELSE StatusOf(k)
BY DEF MarkStepCompleted, StatusOf, Exists, DbTypeOK, StepRow

LEMMA FailSetsStatus ==
  ASSUME DbTypeOK, NEW j, NEW k, k # j, MarkStepFailed(j)
  PROVE  StatusOf(k)' = StatusOf(k)
BY DEF MarkStepFailed, StatusOf, Exists, DbTypeOK, StepRow

(***************************************************************************)
(* A step of one worker moves no other worker.                             *)
(***************************************************************************)
LEMMA OthersStay ==
  ASSUME TypeOK, NEW v \in Workers, NEW w \in Workers, v # w,
         WorkerStep(v) \/ CallFails(v) \/ Crash(v) \/ Disconnect(v)
  PROVE  /\ pc'[w] = pc[w] /\ msg'[w] = msg[w]
         /\ result'[w] = result[w] /\ linked'[w] = linked[w]
<1> USE DEF Goto, queueVars
<1> DEFINE Stays == /\ pc'[w] = pc[w] /\ msg'[w] = msg[w]
                    /\ result'[w] = result[w] /\ linked'[w] = linked[w]
<1>t. /\ pc \in [Workers -> Labels]
      /\ result \in [Workers -> StepResult \cup {NoResult}]
      /\ msg \in [Workers -> WorkflowMessage \cup {NoMessage}]
      /\ linked \in [Workers -> BOOLEAN]
  BY DEF TypeOK, WorkerTypeOK, QueueTypeOK
<1>1. Leave(v) => pc'[w] = pc[w] /\ result'[w] = result[w]
  BY <1>t DEF Leave
<1>2. Return(v) => Stays
  BY <1>t, <1>1 DEF Return, Acknowledge
<1>3. Reraise(v) => Stays
  BY <1>t, <1>1 DEF Reraise, Requeue
<1>4. Catch(v) => pc'[w] = pc[w] /\ result'[w] = result[w]
  BY <1>t DEF Catch
<1>5. Raise(v) => Stays
  BY <1>3, <1>4 DEF Raise
<1>6. ASSUME NEW label, NEW next, Call(v, label, next)
      PROVE  Stays
  BY <1>t, <1>5, <1>6 DEF Call, LoseReply
<1>7. ASSUME NEW label, LastCall(v, label)
      PROVE  Stays
  BY <1>2, <1>5, <1>7 DEF LastCall, LoseReply
<1>8. ASSUME NEW label, NEW next, NEW k, PublishCall(v, label, next, k)
      PROVE  Stays
  BY <1>t, <1>4, <1>8 DEF PublishCall, Publish
<1>9. CASE Receive(v)
  BY <1>t, <1>9 DEF Receive, Deliver
<1>10. CASE Process(v)
  BY <1>t, <1>10 DEF Process
<1>11. CASE \E label, next : Call(v, label, next)
  BY <1>6, <1>11
<1>12. CASE \E label : LastCall(v, label)
  BY <1>7, <1>12
<1>13. CASE \E label, next, k : PublishCall(v, label, next, k)
  BY <1>8, <1>13
<1>14. CASE Catch(v) /\ UNCHANGED queueVars
  BY <1>4, <1>14
<1>15. CASE Reraise(v)
  BY <1>3, <1>15
<1>16. CASE CallFails(v)
  BY <1>5, <1>16 DEF CallFails
<1>17. CASE Disconnect(v)
  BY <1>t, <1>17 DEF Disconnect, CloseChannel
<1>18. WorkerStep(v) => \/ Receive(v) \/ Process(v)
                        \/ \E label, next : Call(v, label, next)
                        \/ \E label : LastCall(v, label)
                        \/ \E label, next, k : PublishCall(v, label, next, k)
                        \/ Catch(v) /\ UNCHANGED queueVars
                        \/ Reraise(v)
  BY DEF WorkerStep, Claim, Skip, Start, Store, Complete, Terminal,
         TerminalUnsupported, TerminalEvent, CreateFailureStep, PublishFailure,
         FailureEvent, Override, OverrideUnsupported, Finish, FinishEvent,
         CreateNextStep, PublishNext, PublishEvent, Fail, FailEvent
<1> QED
  BY <1>9, <1>10, <1>11, <1>12, <1>13, <1>14, <1>15, <1>16, <1>17, <1>18 DEF Crash

(***************************************************************************)
(* A worker that owns a step after its own action owned it before, or has  *)
(* just claimed it.                                                        *)
(***************************************************************************)
JustClaimed(w) == /\ pc[w] = "claim"
                  /\ Claimable(Step(w))
                  /\ ClaimStepForProcessing(Step(w))

LEMMA OwnershipIsClaimed ==
  ASSUME TypeOK, NEW w \in Workers,
         WorkerStep(w) \/ CallFails(w) \/ Crash(w) \/ Disconnect(w),
         pc'[w] \in OwnerLabels
  PROVE  /\ msg'[w] = msg[w]
         /\ pc[w] \in OwnerLabels \/ JustClaimed(w)
<1> USE DEF Goto, queueVars
<1>t. /\ pc \in [Workers -> Labels]
      /\ "idle" \notin OwnerLabels
      /\ TryLabels \subseteq OwnerLabels
  BY DEF TypeOK, WorkerTypeOK, OwnerLabels, TryLabels
<1>1. ~Leave(w)
  BY <1>t DEF Leave
<1>2. ~Return(w) /\ ~Reraise(w)
  BY <1>1 DEF Return, Reraise
<1>3. Raise(w) => pc[w] \in TryLabels /\ msg'[w] = msg[w]
  BY <1>2 DEF Raise
<1>4. ASSUME NEW label, NEW next, Call(w, label, next)
      PROVE  /\ msg'[w] = msg[w]
             /\ pc[w] = label
             /\ label \in TryLabels \/ pc'[w] = next
  BY <1>t, <1>3, <1>4 DEF Call, LoseReply
<1>5. ASSUME NEW label, LastCall(w, label)
      PROVE  msg'[w] = msg[w] /\ pc[w] = label /\ label \in TryLabels
  BY <1>2, <1>3, <1>5 DEF LastCall, LoseReply
<1>6. ASSUME NEW label, NEW next, NEW k, PublishCall(w, label, next, k)
      PROVE  msg'[w] = msg[w] /\ pc[w] = label
  BY <1>6 DEF PublishCall, Publish
<1>7. CASE Receive(w)
  BY <1>t, <1>7 DEF Receive, OwnerLabels, TryLabels
<1>8. CASE Claim(w)
  <2>1. msg'[w] = msg[w] /\ pc[w] = "claim"
    BY <1>4, <1>8 DEF Claim
  <2>2. pc'[w] = IF Claimable(Step(w)) THEN "start" ELSE "skip"
    <3>1. Call(w, "claim", IF Claimable(Step(w)) THEN "start" ELSE "skip")
      BY <1>8 DEF Claim
    <3>2. "claim" \notin TryLabels
      BY DEF TryLabels
    <3> QED
      BY <1>4, <3>1, <3>2
  <2>3. Claimable(Step(w))
    BY <2>2 DEF OwnerLabels, TryLabels
  <2> QED
    BY <1>8, <2>1, <2>3 DEF Claim, JustClaimed
<1>9. CASE Skip(w) \/ FailureEvent(w) \/ FinishEvent(w) \/ PublishEvent(w)
  BY <1>t, <1>5, <1>9 DEF Skip, FailureEvent, FinishEvent, PublishEvent
<1>10. CASE Start(w)
  BY <1>4, <1>10 DEF Start, OwnerLabels
<1>11. CASE Process(w)
  BY <1>11 DEF Process, OwnerLabels, TryLabels
<1>12. CASE \/ Store(w) \/ Complete(w) \/ Terminal(w) \/ CreateFailureStep(w)
            \/ Override(w) \/ Finish(w) \/ CreateNextStep(w)
  <2>1. PICK label \in {"store", "complete", "terminal", "failure_step",
                        "override", "finish", "next_step"}, next \in {next : next \in Labels} :
          Call(w, label, next)
    BY <1>12 DEF Store, Complete, Terminal, CreateFailureStep, Override, Finish,
                 CreateNextStep, AfterComplete, AfterOverride, Labels, TryLabels
  <2>2. label \in TryLabels
    BY DEF TryLabels
  <2> QED
    BY <1>t, <1>4, <2>1, <2>2
<1>13. CASE TerminalEvent(w)
  <2>1. "terminal_event" \in OwnerLabels
    BY DEF OwnerLabels, TryLabels
  <2> QED
    BY <1>4, <1>5, <1>13, <2>1 DEF TerminalEvent
<1>14. CASE PublishFailure(w) \/ PublishNext(w)
  <2>1. {"failure_publish", "publish"} \subseteq OwnerLabels
    BY DEF OwnerLabels, TryLabels
  <2> QED
    BY <1>6, <1>14, <2>1 DEF PublishFailure, PublishNext
<1>15. CASE TerminalUnsupported(w) \/ OverrideUnsupported(w)
  <2>1. {"terminal", "override"} \subseteq OwnerLabels
    BY DEF OwnerLabels, TryLabels
  <2> QED
    BY <1>15, <2>1 DEF TerminalUnsupported, OverrideUnsupported
<1>16. CASE Fail(w)
  <2>1. "except" \in OwnerLabels
    BY DEF OwnerLabels
  <2> QED
    BY <1>4, <1>16, <2>1 DEF Fail
<1>17. CASE CallFails(w)
  BY <1>t, <1>3, <1>17 DEF CallFails
<1>18. CASE Disconnect(w)
  BY <1>18 DEF Disconnect, CloseChannel
<1> QED
  BY <1>2, <1>7, <1>8, <1>9, <1>10, <1>11, <1>12, <1>13, <1>14, <1>15, <1>16,
     <1>17, <1>18 DEF WorkerStep, FailEvent, Crash

(***************************************************************************)
(* A step that is running or completed stays so, and a completed one stays *)
(* completed, unless a worker that caught an exception marks it failed and *)
(* thereby gives it up.                                                    *)
(***************************************************************************)
GivesUp(v, k) == pc[v] = "except" /\ Step(v) = k /\ pc'[v] \notin OwnerLabels

StatusKept(k) ==
  /\ StatusOf(k) \in {"running", "completed"}
       => StatusOf(k)' \in {"running", "completed"}
  /\ StatusOf(k) = "completed" => StatusOf(k)' = "completed"

LEMMA StatusIsKept ==
  ASSUME TypeOK, NEW k, [Next]_vars
  PROVE  StatusKept(k) \/ \E v \in Workers : GivesUp(v, k)
<1> SUFFICES ASSUME Exists(k) PROVE StatusKept(k) \/ \E v \in Workers : GivesUp(v, k)
  BY DEF StatusKept, StatusOf
<1>d. DbTypeOK
  BY DEF TypeOK
<1>1. ASSUME UNCHANGED steps PROVE StatusKept(k)
  BY <1>1 DEF StatusKept, StatusOf, Exists
<1>2. ASSUME NEW j, NEW a, CreateWorkflowStep(j, a) PROVE StatusKept(k)
  BY <1>2, CreateKeepsStatus DEF StatusKept
<1>3. ASSUME NEW j, ClaimStepForProcessing(j) PROVE StatusKept(k)
  <2>1. StatusOf(k)' = IF k = j /\ Claimable(j) THEN "running" ELSE StatusOf(k)
    BY <1>d, <1>3, ClaimSetsStatus
  <2> QED
    BY <2>1 DEF StatusKept, Claimable
<1>4. ASSUME NEW j, NEW a, MarkStepCompleted(j, a) PROVE StatusKept(k)
  <2>1. StatusOf(k)' = IF k = j THEN "completed" ELSE StatusOf(k)
    BY <1>d, <1>4, CompleteSetsStatus
  <2> QED
    BY <2>1 DEF StatusKept
<1>5. ASSUME NEW v \in Workers, Fail(v)
      PROVE  StatusKept(k) \/ GivesUp(v, k)
  <2>1. pc[v] = "except" /\ MarkStepFailed(Step(v))
    BY <1>5 DEF Fail, Call
  <2>2. CASE k # Step(v)
    BY <1>d, <2>1, <2>2, FailSetsStatus DEF StatusKept
  <2>3. CASE k = Step(v)
    <3>1. pc \in [Workers -> Labels]
      BY DEF TypeOK, WorkerTypeOK
    <3>2. pc'[v] \in {"except_event", "idle"}
      BY <1>5, <2>1, <3>1
         DEF Fail, Call, Goto, LoseReply, Raise, Reraise, Leave, TryLabels
    <3> QED
      BY <2>1, <2>3, <3>2 DEF GivesUp, OwnerLabels, TryLabels
  <2> QED
    BY <2>2, <2>3
<1>6. CASE UNCHANGED vars
  BY <1>1, <1>6 DEF vars, dbVars
<1>7. ASSUME NEW r \in Runs, CreateRun(r) \/ RequestContinues(r) \/ RequestFails(r)
      PROVE  StatusKept(k)
  BY <1>1, <1>2, <1>7
     DEF CreateRun, CreateWorkflowRun, RequestContinues, CreateInput, CreateArtifact,
         CreateFirstStep, PublishFirst, StartedEvent, RequestFails, dbVars
<1>8. ASSUME NEW w \in Workers, CallFails(w) \/ Crash(w) \/ Disconnect(w)
      PROVE  StatusKept(k)
  BY <1>1, <1>8 DEF CallFails, Crash, Disconnect, dbVars
<1>9. ASSUME NEW w \in Workers, WorkerStep(w)
      PROVE  StatusKept(k) \/ GivesUp(w, k)
  <2>1. CASE \/ Receive(w) \/ Skip(w) \/ Start(w) \/ Process(w) \/ Store(w)
             \/ Terminal(w) \/ TerminalUnsupported(w) \/ TerminalEvent(w)
             \/ PublishFailure(w) \/ FailureEvent(w) \/ Override(w)
             \/ OverrideUnsupported(w) \/ Finish(w) \/ FinishEvent(w)
             \/ PublishNext(w) \/ PublishEvent(w) \/ FailEvent(w)
    <3>1. UNCHANGED steps
      BY <2>1
         DEF Receive, Skip, Start, Process, Store, CreateArtifact, Terminal,
             MarkWorkflow, TerminalUnsupported, TerminalEvent, RecordEvent,
             PublishFailure, PublishCall, FailureEvent, Override,
             OverrideUnsupported, Finish, FinishEvent, PublishNext,
             PublishEvent, FailEvent, dbVars
    <3> QED
      BY <1>1, <3>1
  <2>2. CASE Claim(w)
    BY <1>3, <2>2 DEF Claim
  <2>3. CASE Complete(w)
    BY <1>4, <2>3 DEF Complete
  <2>4. CASE CreateFailureStep(w) \/ CreateNextStep(w)
    BY <1>2, <2>4 DEF CreateFailureStep, CreateNextStep
  <2>5. CASE Fail(w)
    BY <1>5, <2>5
  <2> QED
    BY <1>9, <2>1, <2>2, <2>3, <2>4, <2>5 DEF WorkerStep
<1> QED
  BY <1>6, <1>7, <1>8, <1>9 DEF Next

(***************************************************************************)
(* The inductive invariant of exclusive execution: besides the exclusion   *)
(* itself, that the row of a step somebody owns says so.                   *)
(***************************************************************************)
OwnedIsHeld ==
  \A w \in Workers :
    pc[w] \in OwnerLabels => StatusOf(Step(w)) \in {"running", "completed"}

ExclusiveInv == TypeOK /\ OwnedIsHeld /\ ExclusiveExecution

LEMMA ExclusiveInit == Init => ExclusiveInv
<1> SUFFICES ASSUME Init PROVE ExclusiveInv
  OBVIOUS
<1>1. \A w \in Workers : pc[w] \notin OwnerLabels
  BY DEF Init, OwnerLabels, TryLabels
<1> QED
  BY <1>1, InitTyped DEF ExclusiveInv, OwnedIsHeld, ExclusiveExecution

LEMMA ExclusiveStep == ExclusiveInv /\ [Next]_vars => ExclusiveInv'
<1> SUFFICES ASSUME ExclusiveInv, [Next]_vars PROVE ExclusiveInv'
  OBVIOUS
<1>t. TypeOK /\ TypeOK'
  BY NextTyped DEF ExclusiveInv
<1>1. ASSUME NEW w \in Workers, pc'[w] \in OwnerLabels
      PROVE  /\ msg'[w] = msg[w]
             /\ \/ pc[w] \in OwnerLabels
                \/ JustClaimed(w) /\ \A v \in Workers \ {w} : pc'[v] = pc[v]
  <2>1. CASE UNCHANGED vars
    BY <1>1, <2>1 DEF vars, queueVars
  <2>2. CASE \E r \in Runs : CreateRun(r) \/ RequestContinues(r) \/ RequestFails(r)
    <3>1. UNCHANGED <<pc, msg>>
      BY <2>2 DEF CreateRun, RequestContinues, CreateInput, CreateFirstStep,
                  PublishFirst, Publish, StartedEvent, RequestFails,
                  RequestCall, queueVars
    <3> QED
      BY <1>1, <3>1
  <2>3. ASSUME NEW v \in Workers,
               WorkerStep(v) \/ CallFails(v) \/ Crash(v) \/ Disconnect(v)
        PROVE  /\ msg'[w] = msg[w]
               /\ \/ pc[w] \in OwnerLabels
                  \/ JustClaimed(w) /\ \A u \in Workers \ {w} : pc'[u] = pc[u]
    <3>1. CASE v = w
      BY <1>1, <1>t, <2>3, <3>1, OwnershipIsClaimed, OthersStay
    <3>2. CASE v # w
      BY <1>1, <1>t, <2>3, <3>2, OthersStay
    <3> QED
      BY <3>1, <3>2
  <2> QED
    BY <2>1, <2>2, <2>3 DEF Next
<1>2. ExclusiveExecution'
  <2> SUFFICES ASSUME NEW v \in Workers, NEW w \in Workers, v # w,
                      pc'[v] \in OwnerLabels, pc'[w] \in OwnerLabels
               PROVE  Step(v) # Step(w) /\ msg'[v] = msg[v] /\ msg'[w] = msg[w]
    BY DEF ExclusiveExecution, Owns, Step
  <2>1. msg'[v] = msg[v] /\ msg'[w] = msg[w]
    BY <1>1
  <2>2. CASE pc[v] \in OwnerLabels /\ pc[w] \in OwnerLabels
    BY <2>1, <2>2 DEF ExclusiveInv, ExclusiveExecution, Owns
  <2>3. ASSUME NEW x \in Workers, NEW y \in Workers, x # y, JustClaimed(x),
               pc'[y] \in OwnerLabels,
               \A u \in Workers \ {x} : pc'[u] = pc[u]
        PROVE  Step(x) # Step(y)
    <3>1. pc[y] \in OwnerLabels
      BY <2>3
    <3>2. StatusOf(Step(y)) \in {"running", "completed"}
      BY <3>1 DEF ExclusiveInv, OwnedIsHeld
    <3>3. StatusOf(Step(x)) \in {"pending", "failed"}
      BY <2>3 DEF JustClaimed, Claimable
    <3> QED
      BY <3>2, <3>3
  <2> QED
    BY <1>1, <2>1, <2>2, <2>3
<1>3. OwnedIsHeld'
  <2> SUFFICES ASSUME NEW w \in Workers, pc'[w] \in OwnerLabels
               PROVE  StatusOf(Step(w))' \in {"running", "completed"}
    BY DEF OwnedIsHeld
  <2> PICK k : k = Step(w)
    OBVIOUS
  <2>1. Step(w)' = k
    BY <1>1 DEF Step
  <2>2. CASE pc[w] \in OwnerLabels
    <3>1. StatusOf(k) \in {"running", "completed"}
      BY <2>2 DEF ExclusiveInv, OwnedIsHeld
    <3>2. ~\E v \in Workers : GivesUp(v, k)
      BY <2>2 DEF GivesUp, ExclusiveInv, ExclusiveExecution, Owns, OwnerLabels
    <3>3. StatusKept(k)
      BY <1>t, <3>2, StatusIsKept
    <3> QED
      BY <2>1, <3>1, <3>3 DEF StatusKept, StatusOf, Exists
  <2>3. CASE JustClaimed(w)
    <3>1. ClaimStepForProcessing(k) /\ Claimable(k) /\ DbTypeOK
      BY <1>t, <2>3 DEF JustClaimed, TypeOK
    <3>2. StatusOf(k)' = "running"
      BY <3>1, ClaimSetsStatus
    <3> QED
      BY <2>1, <3>2 DEF StatusOf, Exists
  <2> QED
    BY <1>1, <2>2, <2>3
<1> QED
  BY <1>t, <1>2, <1>3 DEF ExclusiveInv

(***************************************************************************)
(* No two handlers ever execute one step at the same time, for any number  *)
(* of replicas, whatever is redelivered and whichever calls fail: the      *)
(* conditional UPDATE of the claim is lock enough.                         *)
(***************************************************************************)
THEOREM ExclusiveExecutionHolds == Spec => []ExclusiveExecution
<1>1. ExclusiveInv => ExclusiveExecution
  BY DEF ExclusiveInv
<1> QED
  BY <1>1, ExclusiveInit, ExclusiveStep, PTL DEF Spec

(***************************************************************************)
(* A completed step is reopened by nobody but the handler that completed   *)
(* it, when a later call of it fails.                                      *)
(***************************************************************************)
THEOREM CompletionKeptHolds == Spec => CompletionKept
<1>1. ASSUME TypeOK, [Next]_vars
      PROVE  [\A k \in StepKey :
                StatusOf(k) = "completed" /\ StatusOf(k)' # "completed"
                  => \E w \in Workers : pc[w] = "except" /\ Step(w) = k]_vars
  BY <1>1, StatusIsKept DEF StatusKept, GivesUp
<1> QED
  BY <1>1, InitTyped, NextTyped, PTL DEF Spec, CompletionKept

---------------------------------------------------------------------------
(***************************************************************************)
(* The step worker implements the life cycle of a step.                    *)
(***************************************************************************)

(***************************************************************************)
(* Until its holder completes it, an executed step is running.             *)
(***************************************************************************)
WorkLabels == {"start", "process", "store", "complete"}

RunningUntilCompleted ==
  \A w \in Workers : pc[w] \in WorkLabels => StatusOf(Step(w)) = "running"

LifecycleInv == ExclusiveInv /\ RunningUntilCompleted

(***************************************************************************)
(* A worker gets to these labels one after the other, from the claim.      *)
(***************************************************************************)
LEMMA WorkGoesForward ==
  ASSUME TypeOK, NEW w \in Workers,
         WorkerStep(w) \/ CallFails(w) \/ Crash(w) \/ Disconnect(w),
         pc'[w] \in WorkLabels
  PROVE  \/ pc[w] \in WorkLabels \ {"complete"}
         \/ pc[w] = "claim"
         \/ pc[w] = "complete" /\ UNCHANGED steps
<1> USE DEF Goto, queueVars, dbVars
<1>t. pc \in [Workers -> Labels]
  BY DEF TypeOK, WorkerTypeOK
<1>1. ~Leave(w)
  BY <1>t DEF Leave, WorkLabels
<1>2. ~Catch(w)
  BY <1>t DEF Catch, WorkLabels
<1>3. ~Return(w) /\ ~Reraise(w) /\ ~Raise(w)
  BY <1>1, <1>2 DEF Return, Reraise, Raise
<1>4. ASSUME NEW label, NEW next, Call(w, label, next)
      PROVE  pc[w] = label /\ pc'[w] = next
  BY <1>t, <1>3, <1>4 DEF Call, LoseReply
<1>5. ASSUME NEW label, LastCall(w, label)
      PROVE  FALSE
  BY <1>3, <1>5 DEF LastCall, LoseReply
<1>6. ASSUME NEW label, NEW next, NEW k, PublishCall(w, label, next, k)
      PROVE  pc'[w] = next
  BY <1>t, <1>2, <1>6 DEF PublishCall
<1>7. AfterOverride(w) \notin WorkLabels /\ AfterComplete(w) \notin WorkLabels
  BY DEF AfterOverride, AfterComplete, WorkLabels
<1>8. CASE Receive(w)
  BY <1>t, <1>8 DEF Receive, WorkLabels
<1>9. CASE Claim(w) \/ Start(w) \/ Process(w) \/ Store(w)
  BY <1>4, <1>9 DEF Claim, Start, Process, Store, WorkLabels
<1>10. CASE \/ Complete(w) \/ Terminal(w) \/ CreateFailureStep(w) \/ Override(w)
            \/ Finish(w) \/ CreateNextStep(w) \/ Fail(w)
  BY <1>4, <1>7, <1>10
     DEF Complete, Terminal, CreateFailureStep, Override, Finish,
         CreateNextStep, Fail, WorkLabels
<1>11. CASE Skip(w) \/ FailureEvent(w) \/ FinishEvent(w) \/ PublishEvent(w)
  BY <1>5, <1>11 DEF Skip, FailureEvent, FinishEvent, PublishEvent
<1>12. CASE TerminalEvent(w)
  BY <1>4, <1>5, <1>12 DEF TerminalEvent, WorkLabels
<1>13. CASE PublishFailure(w) \/ PublishNext(w)
  BY <1>6, <1>13 DEF PublishFailure, PublishNext, WorkLabels
<1>14. CASE TerminalUnsupported(w) \/ OverrideUnsupported(w)
  BY <1>2, <1>14 DEF TerminalUnsupported, OverrideUnsupported
<1>15. CASE FailEvent(w) \/ CallFails(w) \/ Crash(w)
  BY <1>3, <1>15 DEF FailEvent, CallFails, Crash
<1>16. CASE Disconnect(w)
  BY <1>16 DEF Disconnect
<1> QED
  BY <1>8, <1>9, <1>10, <1>11, <1>12, <1>13, <1>14, <1>15, <1>16 DEF WorkerStep

(***************************************************************************)
(* What the step of a worker does to the steps table, and where it is      *)
(* afterwards.                                                             *)
(***************************************************************************)
TableEffect(w) ==
  \/ UNCHANGED steps
  \/ pc[w] = "claim" /\ ClaimStepForProcessing(Step(w))
  \/ /\ pc[w] \in OwnerLabels /\ pc'[w] \in OwnerLabels
     /\ \E k \in StepKey, a \in Artifact : CreateWorkflowStep(k, a)
  \/ /\ pc[w] = "complete" /\ pc'[w] \in OwnerLabels
     /\ MarkStepCompleted(Step(w), Output(w))
  \/ /\ pc[w] = "except" /\ pc'[w] \notin OwnerLabels
     /\ MarkStepFailed(Step(w))

LEMMA WorkerTableEffect ==
  ASSUME TypeOK, NEW w \in Workers,
         WorkerStep(w) \/ CallFails(w) \/ Crash(w) \/ Disconnect(w)
  PROVE  TableEffect(w)
<1>t. pc \in [Workers -> Labels]
  BY DEF TypeOK, WorkerTypeOK
<1>1. CASE CallFails(w) \/ Crash(w) \/ Disconnect(w)
  BY <1>1 DEF CallFails, Crash, Disconnect, dbVars, TableEffect
<1>2. CASE \/ Receive(w) \/ Skip(w) \/ Start(w) \/ Process(w) \/ Store(w)
           \/ Terminal(w) \/ TerminalUnsupported(w) \/ TerminalEvent(w)
           \/ PublishFailure(w) \/ FailureEvent(w) \/ Override(w)
           \/ OverrideUnsupported(w) \/ Finish(w) \/ FinishEvent(w)
           \/ PublishNext(w) \/ PublishEvent(w) \/ FailEvent(w)
  BY <1>2
     DEF Receive, Skip, Start, Process, Store, CreateArtifact, Terminal,
         MarkWorkflow, TerminalUnsupported, TerminalEvent, RecordEvent,
         PublishFailure, PublishCall, FailureEvent, Override,
         OverrideUnsupported, Finish, FinishEvent, PublishNext, PublishEvent,
         FailEvent, dbVars, TableEffect
<1>3. CASE Claim(w)
  BY <1>3 DEF Claim, Call, TableEffect
<1>4. ASSUME NEW label \in TryLabels, NEW next \in OwnerLabels,
             Call(w, label, next)
      PROVE  pc[w] \in OwnerLabels /\ pc'[w] \in OwnerLabels
  BY <1>t, <1>4 DEF Call, Goto, LoseReply, Raise, Catch, OwnerLabels
<1>5. CASE Complete(w)
  <2>1. AfterComplete(w) \in OwnerLabels
    BY DEF AfterComplete, AfterOverride, OwnerLabels, TryLabels
  <2>2. "complete" \in TryLabels
    BY DEF TryLabels
  <2> QED
    BY <1>4, <1>5, <2>1, <2>2 DEF Complete, Call, TableEffect
<1>6. CASE CreateFailureStep(w)
  <2>1. {"failure_step", "failure_publish"} \subseteq TryLabels \cap ResultLabels
    BY DEF TryLabels, ResultLabels
  <2>2. pc[w] \in OwnerLabels /\ pc'[w] \in OwnerLabels
    BY <1>4, <1>6, <2>1 DEF CreateFailureStep, OwnerLabels
  <2>3. FailureStep(w) \in StepKey /\ Output(w) \in Artifact
    BY <1>6, <2>1, OutputTyped DEF CreateFailureStep, Call
  <2> QED
    BY <1>6, <2>2, <2>3 DEF CreateFailureStep, TableEffect
<1>7. CASE CreateNextStep(w)
  <2>1. /\ {"next_step", "publish"} \subseteq TryLabels \cap ResultLabels
        /\ "next_step" \in NextLabels
    BY DEF TryLabels, ResultLabels, NextLabels
  <2>2. pc[w] \in OwnerLabels /\ pc'[w] \in OwnerLabels
    BY <1>4, <1>7, <2>1 DEF CreateNextStep, OwnerLabels
  <2>3. NextStep(w) \in StepKey /\ Output(w) \in Artifact
    BY <1>7, <2>1, OutputTyped, NextStepTyped DEF CreateNextStep, Call
  <2> QED
    BY <1>7, <2>2, <2>3 DEF CreateNextStep, TableEffect
<1>8. CASE Fail(w)
  <2>1. pc[w] = "except" /\ MarkStepFailed(Step(w))
    BY <1>8 DEF Fail, Call
  <2>2. pc'[w] \in {"except_event", "idle"}
    BY <1>t, <1>8, <2>1
       DEF Fail, Call, Goto, LoseReply, Raise, Reraise, Leave, TryLabels
  <2> QED
    BY <2>1, <2>2 DEF TableEffect, OwnerLabels, TryLabels
<1> QED
  BY <1>1, <1>2, <1>3, <1>5, <1>6, <1>7, <1>8 DEF WorkerStep

(***************************************************************************)
(* A running step stays running but for its holder.                        *)
(***************************************************************************)
LEMMA RunningIsKept ==
  ASSUME TypeOK, NEW w \in Workers, TableEffect(w), NEW k, StatusOf(k) = "running",
         pc[w] \in {"complete", "except"} => k # Step(w)
  PROVE  StatusOf(k)' = "running"
<1>1. DbTypeOK /\ Exists(k)
  BY DEF TypeOK, StatusOf
<1>2. CASE UNCHANGED steps
  BY <1>2 DEF StatusOf, Exists
<1>3. CASE \E j \in StepKey, a \in Artifact : CreateWorkflowStep(j, a)
  BY <1>1, <1>3, CreateKeepsStatus
<1>4. CASE ClaimStepForProcessing(Step(w))
  BY <1>1, <1>4, ClaimSetsStatus
<1>5. CASE pc[w] = "complete" /\ MarkStepCompleted(Step(w), Output(w))
  BY <1>1, <1>5, CompleteSetsStatus
<1>6. CASE pc[w] = "except" /\ MarkStepFailed(Step(w))
  BY <1>1, <1>6, FailSetsStatus
<1> QED
  BY <1>2, <1>3, <1>4, <1>5, <1>6 DEF TableEffect

(***************************************************************************)
(* A step of a request moves no worker, and creates at most a step.        *)
(***************************************************************************)
LEMMA RequestEffect ==
  ASSUME TypeOK, NEW r \in Runs,
         CreateRun(r) \/ RequestContinues(r) \/ RequestFails(r)
  PROVE  /\ UNCHANGED <<pc, msg>>
         /\ \/ UNCHANGED steps
            \/ \E k \in StepKey, a \in Artifact : CreateWorkflowStep(k, a)
<1>1. UNCHANGED <<pc, msg>>
  BY DEF CreateRun, RequestContinues, CreateInput, CreateFirstStep,
         PublishFirst, Publish, StartedEvent, RequestFails, RequestCall,
         queueVars
<1>2. FirstStep(r) \in StepKey /\ Ticket(r) \in Artifact
  BY TicketTyped
<1> QED
  BY <1>1, <1>2
     DEF CreateRun, CreateWorkflowRun, RequestContinues, CreateInput,
         CreateArtifact, CreateFirstStep, PublishFirst, StartedEvent,
         RequestFails, dbVars

LEMMA LifecycleInit == Init => LifecycleInv
BY ExclusiveInit DEF LifecycleInv, RunningUntilCompleted, Init, WorkLabels

LEMMA LifecycleStep == LifecycleInv /\ [Next]_vars => LifecycleInv'
<1> SUFFICES ASSUME LifecycleInv, [Next]_vars PROVE RunningUntilCompleted'
  BY ExclusiveStep DEF LifecycleInv
<1>t. TypeOK /\ ExclusiveInv
  BY DEF LifecycleInv, ExclusiveInv
<1>l. WorkLabels \subseteq OwnerLabels
  BY DEF WorkLabels, OwnerLabels, TryLabels
<1> SUFFICES ASSUME NEW w \in Workers, pc'[w] \in WorkLabels
             PROVE  StatusOf(Step(w))' = "running"
  BY DEF RunningUntilCompleted
<1> PICK k : k = Step(w)
  OBVIOUS
<1>s. ASSUME msg'[w] = msg[w], StatusOf(k)' = "running"
      PROVE  StatusOf(Step(w))' = "running"
  <2>1. Step(w)' = k
    BY <1>s DEF Step
  <2> QED
    BY <1>s, <2>1 DEF StatusOf, Exists
<1>r. pc[w] \in WorkLabels => StatusOf(k) = "running"
  BY DEF LifecycleInv, RunningUntilCompleted
<1>1. CASE UNCHANGED vars
  BY <1>1, <1>r, <1>s DEF vars, dbVars, queueVars, StatusOf, Exists
<1>2. ASSUME NEW r \in Runs, CreateRun(r) \/ RequestContinues(r) \/ RequestFails(r)
      PROVE  StatusOf(Step(w))' = "running"
  <2>1. /\ UNCHANGED <<pc, msg>>
        /\ \/ UNCHANGED steps
           \/ \E j \in StepKey, a \in Artifact : CreateWorkflowStep(j, a)
    BY <1>t, <1>2, RequestEffect
  <2>2. StatusOf(k)' = "running"
    BY <1>r, <2>1, CreateKeepsStatus DEF StatusOf, Exists
  <2> QED
    BY <1>s, <2>1, <2>2
<1>3. ASSUME NEW v \in Workers, v # w,
             WorkerStep(v) \/ CallFails(v) \/ Crash(v) \/ Disconnect(v)
      PROVE  StatusOf(Step(w))' = "running"
  <2>1. pc'[w] = pc[w] /\ msg'[w] = msg[w]
    BY <1>t, <1>3, OthersStay
  <2>2. pc[v] \in OwnerLabels => Step(v) # k
    BY <1>l, <1>t, <1>3, <2>1 DEF ExclusiveInv, ExclusiveExecution, Owns
  <2>3. {"complete", "except"} \subseteq OwnerLabels
    BY DEF OwnerLabels, TryLabels
  <2>4. StatusOf(k)' = "running"
    BY <1>r, <1>t, <1>3, <2>1, <2>2, <2>3, WorkerTableEffect, RunningIsKept
  <2> QED
    BY <1>s, <2>1, <2>4
<1>4. CASE WorkerStep(w) \/ CallFails(w) \/ Crash(w) \/ Disconnect(w)
  <2>1. msg'[w] = msg[w] /\ (pc[w] \in OwnerLabels \/ JustClaimed(w))
    BY <1>l, <1>t, <1>4, OwnershipIsClaimed
  <2>2. CASE pc[w] \in WorkLabels \ {"complete"}
    <3>1. StatusOf(k)' = "running"
      BY <1>r, <1>t, <1>4, <2>2, WorkerTableEffect, RunningIsKept DEF WorkLabels
    <3> QED
      BY <1>s, <2>1, <3>1
  <2>3. CASE pc[w] = "claim"
    <3>1. JustClaimed(w)
      BY <2>1, <2>3 DEF OwnerLabels, TryLabels
    <3>2. StatusOf(k)' = "running"
      BY <1>t, <3>1, ClaimSetsStatus DEF JustClaimed, TypeOK
    <3> QED
      BY <1>s, <2>1, <3>2
  <2>4. CASE pc[w] = "complete" /\ UNCHANGED steps
    BY <1>r, <1>s, <2>1, <2>4 DEF WorkLabels, StatusOf, Exists
  <2> QED
    BY <1>t, <1>4, <2>2, <2>3, <2>4, WorkGoesForward
<1> QED
  BY <1>1, <1>2, <1>3, <1>4 DEF Next

(***************************************************************************)
(* What the statements do to the statuses of the table.                    *)
(***************************************************************************)
LEMMA TableCreate ==
  ASSUME NEW k \in StepKey, NEW a \in Artifact, CreateWorkflowStep(k, a)
  PROVE  \/ UNCHANGED TableStatus
         \/ /\ k \notin DOMAIN TableStatus
            /\ TableStatus' = [j \in DOMAIN TableStatus \cup {k} |->
                                 IF j = k THEN "pending" ELSE TableStatus[j]]
BY DEF CreateWorkflowStep, TableStatus, Exists

LEMMA TableClaim ==
  ASSUME DbTypeOK, NEW k, ClaimStepForProcessing(k)
  PROVE  IF Claimable(k)
           THEN TableStatus' = [TableStatus EXCEPT ![k] = "running"]
           ELSE UNCHANGED TableStatus
<1>1. CASE Claimable(k)
  <2>1. steps' = [steps EXCEPT ![k].status = "running"]
    BY <1>1 DEF ClaimStepForProcessing
  <2> QED
    BY <1>1, <2>1 DEF TableStatus, DbTypeOK, StepRow
<1>2. CASE ~Claimable(k)
  BY <1>2 DEF ClaimStepForProcessing, TableStatus
<1> QED
  BY <1>1, <1>2

LEMMA TableMark ==
  ASSUME DbTypeOK, NEW k,
         NEW a, NEW new,
         \/ new = "completed" /\ MarkStepCompleted(k, a)
         \/ new = "failed" /\ MarkStepFailed(k)
  PROVE  TableStatus' = [TableStatus EXCEPT ![k] = new]
<1>1. CASE new = "completed" /\ MarkStepCompleted(k, a)
  <2>1. steps' = [steps EXCEPT ![k].status = "completed", ![k].output = a]
    BY <1>1 DEF MarkStepCompleted
  <2>2. DOMAIN steps' = DOMAIN steps
    BY <2>1
  <2>3. ASSUME NEW j \in DOMAIN steps
        PROVE  steps'[j].status = IF j = k THEN "completed" ELSE steps[j].status
    <3>1. steps[j] \in StepRow
      BY DEF DbTypeOK
    <3> QED
      BY <2>1, <3>1 DEF StepRow
  <2>4. TableStatus' = [j \in DOMAIN steps |->
                          IF j = k THEN "completed" ELSE steps[j].status]
    BY <2>2, <2>3 DEF TableStatus
  <2> QED
    BY <1>1, <2>4 DEF TableStatus
<1>2. CASE new = "failed" /\ MarkStepFailed(k)
  BY <1>2 DEF MarkStepFailed, TableStatus, DbTypeOK, StepRow
<1> QED
  BY <1>1, <1>2

(***************************************************************************)
(* Who executes what, when only worker w moves.                            *)
(***************************************************************************)
OnlyMoves(w) == \A v \in Workers \ {w} : pc'[v] = pc[v] /\ msg'[v] = msg[v]

LEMMA ExecutingStays ==
  ASSUME NEW w \in Workers, OnlyMoves(w),
         pc[w] \in OwnerLabels <=> pc'[w] \in OwnerLabels,
         pc[w] \in OwnerLabels => msg'[w] = msg[w]
  PROVE  UNCHANGED Executing
<1>1. Owners' = Owners
  BY DEF Owners, OnlyMoves
<1>2. \A v \in Owners : Step(v)' = Step(v)
  BY DEF Owners, OnlyMoves, Step
<1> QED
  BY <1>1, <1>2 DEF Executing

LEMMA ExecutingLeaves ==
  ASSUME NEW w \in Workers, OnlyMoves(w), pc'[w] \notin OwnerLabels
  PROVE  Executing' = [v \in DOMAIN Executing \ {w} |-> Executing[v]]
<1>1. Owners' = Owners \ {w}
  BY DEF Owners, OnlyMoves
<1>2. \A v \in Owners \ {w} : Step(v)' = Step(v)
  BY DEF Owners, OnlyMoves, Step
<1> QED
  BY <1>1, <1>2 DEF Executing

LEMMA ExecutingJoins ==
  ASSUME NEW w \in Workers, OnlyMoves(w), pc[w] \notin OwnerLabels,
         pc'[w] \in OwnerLabels, msg'[w] = msg[w]
  PROVE  Executing' = [v \in DOMAIN Executing \cup {w} |->
                         IF v = w THEN Step(w) ELSE Executing[v]]
<1>1. Owners' = Owners \cup {w}
  BY DEF Owners, OnlyMoves
<1>2. \A v \in Owners \cup {w} : Step(v)' = Step(v)
  BY DEF Owners, OnlyMoves, Step
<1> QED
  BY <1>1, <1>2 DEF Executing

(***************************************************************************)
(* Every step of the workers and requests is a step of the life cycle.     *)
(***************************************************************************)
LEMMA WorkerStepImplements ==
  ASSUME LifecycleInv, NEW w \in Workers,
         WorkerStep(w) \/ CallFails(w) \/ Crash(w) \/ Disconnect(w)
  PROVE  Lifecycle!Next \/ UNCHANGED <<TableStatus, Executing>>
<1> DEFINE k == Step(w)
<1>t. TypeOK /\ DbTypeOK /\ pc \in [Workers -> Labels]
  BY DEF LifecycleInv, ExclusiveInv, TypeOK, WorkerTypeOK
<1>o. OnlyMoves(w)
  BY <1>t, OthersStay DEF OnlyMoves
<1>e. TableEffect(w)
  BY <1>t, WorkerTableEffect
<1>x. DOMAIN Executing = Owners /\ \A v \in Owners : Executing[v] = Step(v)
  BY DEF Executing
<1>d. DOMAIN TableStatus = DOMAIN steps /\ \A j \in DOMAIN steps : TableStatus[j] = StatusOf(j)
  BY DEF TableStatus, StatusOf, Exists
<1>g. Claimable(k) => k \in DOMAIN TableStatus /\ Lifecycle!Grantable(k)
  <2> SUFFICES ASSUME Claimable(k)
               PROVE  k \in DOMAIN TableStatus /\ Lifecycle!Grantable(k)
    OBVIOUS
  <2>1. k \in DOMAIN TableStatus /\ TableStatus[k] \in {"pending", "failed"}
    BY <1>d DEF Claimable, StatusOf, Exists
  <2>2. \A v \in Owners : Executing[v] # k
    BY <1>x DEF Claimable, Owners, LifecycleInv, ExclusiveInv, OwnedIsHeld
  <2> QED
    BY <1>x, <2>1, <2>2 DEF Lifecycle!Grantable
<1>1. CASE pc'[w] \in OwnerLabels /\ pc[w] \notin OwnerLabels
  <2>1. JustClaimed(w) /\ msg'[w] = msg[w]
    BY <1>1, <1>t, OwnershipIsClaimed
  <2>2. TableStatus' = [TableStatus EXCEPT ![k] = "running"]
    BY <1>t, <2>1, TableClaim DEF JustClaimed
  <2>3. Executing' = [v \in DOMAIN Executing \cup {w} |->
                        IF v = w THEN k ELSE Executing[v]]
    BY <1>1, <1>o, <2>1, ExecutingJoins
  <2>4. w \notin DOMAIN Executing
    BY <1>1, <1>x DEF Owners
  <2>5. Lifecycle!Claim(w, k) /\ k \in DOMAIN TableStatus
    BY <1>g, <2>1, <2>2, <2>3, <2>4
       DEF JustClaimed, Lifecycle!Claim, Lifecycle!Become
  <2> QED
    BY <2>5 DEF Lifecycle!Next
<1>2. ASSUME pc[w] \in OwnerLabels, pc'[w] \in OwnerLabels
      PROVE  UNCHANGED Executing
  BY <1>2, <1>o, <1>t, OwnershipIsClaimed, ExecutingStays
<1>3. ASSUME pc[w] \notin OwnerLabels, pc'[w] \notin OwnerLabels
      PROVE  UNCHANGED Executing
  BY <1>3, <1>o, ExecutingStays
<1>4. ASSUME pc[w] \in OwnerLabels, pc'[w] \notin OwnerLabels
      PROVE  w \in DOMAIN Executing /\ Lifecycle!LetGo(w)
  BY <1>4, <1>o, <1>x, ExecutingLeaves DEF Owners, Lifecycle!LetGo
<1>5. CASE UNCHANGED steps /\ ~(pc'[w] \in OwnerLabels /\ pc[w] \notin OwnerLabels)
  <2>1. UNCHANGED TableStatus
    BY <1>5 DEF TableStatus
  <2>2. CASE pc[w] \in OwnerLabels /\ pc'[w] \notin OwnerLabels
    BY <1>4, <2>1, <2>2 DEF Lifecycle!Next, Lifecycle!Release
  <2> QED
    BY <1>2, <1>3, <1>5, <2>1, <2>2
<1>6. CASE pc[w] = "claim" /\ pc'[w] \notin OwnerLabels /\ ClaimStepForProcessing(k)
  <2>1. UNCHANGED Executing
    BY <1>3, <1>6 DEF OwnerLabels, TryLabels
  <2>2. CASE Claimable(k)
    <3>1. Lifecycle!ClaimUnheard(k) /\ k \in DOMAIN TableStatus
      BY <1>g, <1>t, <1>6, <2>1, <2>2, TableClaim
         DEF Lifecycle!ClaimUnheard, Lifecycle!Become
    <3> QED
      BY <3>1 DEF Lifecycle!Next
  <2>3. CASE ~Claimable(k)
    BY <1>t, <1>6, <2>1, <2>3, TableClaim
  <2> QED
    BY <2>2, <2>3
<1>7. CASE /\ pc[w] \in OwnerLabels /\ pc'[w] \in OwnerLabels
           /\ \E j \in StepKey, a \in Artifact : CreateWorkflowStep(j, a)
  <2>1. UNCHANGED Executing
    BY <1>2, <1>7
  <2>2. PICK j \in StepKey, a \in Artifact : CreateWorkflowStep(j, a)
    BY <1>7
  <2>3. UNCHANGED TableStatus \/ Lifecycle!Create(j)
    BY <2>1, <2>2, TableCreate DEF Lifecycle!Create
  <2> QED
    BY <2>1, <2>3 DEF Lifecycle!Next
<1>8. CASE /\ pc[w] = "complete" /\ pc'[w] \in OwnerLabels
           /\ MarkStepCompleted(k, Output(w))
  <2>1. pc[w] \in OwnerLabels /\ pc[w] \in WorkLabels
    BY <1>8 DEF OwnerLabels, TryLabels, WorkLabels
  <2>2. w \in DOMAIN Executing /\ Executing[w] = k
    BY <1>x, <2>1 DEF Owners
  <2>3. TableStatus[k] = "running"
    BY <1>d, <2>1 DEF LifecycleInv, RunningUntilCompleted, StatusOf, Exists
  <2>4. UNCHANGED Executing
    BY <1>2, <1>8, <2>1
  <2>5. TableStatus' = [TableStatus EXCEPT ![k] = "completed"]
    BY <1>t, <1>8, TableMark
  <2>6. Lifecycle!Complete(w)
    BY <2>2, <2>3, <2>4, <2>5 DEF Lifecycle!Complete, Lifecycle!Become
  <2> QED
    BY <2>2, <2>6 DEF Lifecycle!Next
<1>9. CASE /\ pc[w] = "except" /\ pc'[w] \notin OwnerLabels
           /\ MarkStepFailed(k)
  <2>1. pc[w] \in OwnerLabels
    BY <1>9 DEF OwnerLabels
  <2>2. w \in DOMAIN Executing /\ Executing[w] = k /\ Lifecycle!LetGo(w)
    BY <1>4, <1>9, <1>x, <2>1 DEF Owners
  <2>3. TableStatus[k] \in {"running", "completed"}
    BY <1>d, <2>1 DEF LifecycleInv, ExclusiveInv, OwnedIsHeld, StatusOf, Exists
  <2>4. TableStatus' = [TableStatus EXCEPT ![k] = "failed"]
    BY <1>t, <1>9, TableMark
  <2>5. Lifecycle!Fail(w)
    BY <2>2, <2>3, <2>4 DEF Lifecycle!Fail, Lifecycle!Become
  <2> QED
    BY <2>2, <2>5 DEF Lifecycle!Next
<1> QED
  BY <1>1, <1>e, <1>5, <1>6, <1>7, <1>8, <1>9 DEF TableEffect, OwnerLabels, TryLabels

LEMMA NextImplements ==
  LifecycleInv /\ [Next]_vars => [Lifecycle!Next]_<<TableStatus, Executing>>
<1> SUFFICES ASSUME LifecycleInv, [Next]_vars
             PROVE  Lifecycle!Next \/ UNCHANGED <<TableStatus, Executing>>
  OBVIOUS
<1>1. ASSUME UNCHANGED <<pc, msg>> PROVE UNCHANGED Executing
  BY <1>1 DEF Executing, Owners, Step
<1>2. CASE UNCHANGED vars
  BY <1>1, <1>2 DEF vars, dbVars, queueVars, TableStatus
<1>3. ASSUME NEW r \in Runs, CreateRun(r) \/ RequestContinues(r) \/ RequestFails(r)
      PROVE  Lifecycle!Next \/ UNCHANGED <<TableStatus, Executing>>
  <2>1. /\ UNCHANGED <<pc, msg>>
        /\ \/ UNCHANGED steps
           \/ \E k \in StepKey, a \in Artifact : CreateWorkflowStep(k, a)
    BY <1>3, RequestEffect DEF LifecycleInv, ExclusiveInv
  <2>2. CASE UNCHANGED steps
    BY <1>1, <2>1, <2>2 DEF TableStatus
  <2>3. CASE \E k \in StepKey, a \in Artifact : CreateWorkflowStep(k, a)
    <3>1. PICK k \in StepKey, a \in Artifact : CreateWorkflowStep(k, a)
      BY <2>3
    <3>2. UNCHANGED TableStatus \/ Lifecycle!Create(k)
      BY <1>1, <2>1, <3>1, TableCreate DEF Lifecycle!Create
    <3> QED
      BY <1>1, <2>1, <3>2 DEF Lifecycle!Next
  <2> QED
    BY <2>1, <2>2, <2>3
<1> QED
  BY <1>2, <1>3, WorkerStepImplements DEF Next

(***************************************************************************)
(* The workers implement the life cycle of a step: for any number of       *)
(* replicas and faults and any handlers, the conditional UPDATE of the     *)
(* claim and the two unconditional ones that end a step behave as a lock   *)
(* which one handler takes and only its holder gives back.                 *)
(***************************************************************************)
THEOREM ImplementsLifecycleHolds == Spec => ImplementsLifecycle
<1>1. Init => Lifecycle!Init
  <2> SUFFICES ASSUME Init PROVE Lifecycle!Init
    OBVIOUS
  <2>1. TableStatus = [k \in {} |-> "pending"]
    BY DEF Init, DbInit, TableStatus
  <2>2. Owners = {}
    BY DEF Init, Owners, OwnerLabels, TryLabels
  <2> QED
    BY <2>1, <2>2 DEF Executing, Lifecycle!Init
<1>2. LifecycleInv /\ [Next]_vars => [Lifecycle!Next]_(Lifecycle!lifecycleVars)
  BY NextImplements DEF Lifecycle!lifecycleVars
<1> QED
  BY <1>1, <1>2, LifecycleInit, LifecycleStep, PTL
     DEF Spec, ImplementsLifecycle, Lifecycle!Spec
===========================================================================
