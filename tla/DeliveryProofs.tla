-------------------------- MODULE DeliveryProofs --------------------------
(***************************************************************************)
(* Proofs about what becomes of messages, steps and runs when calls fail,  *)
(* for any number of runs, workers and faults and any handlers.            *)
(***************************************************************************)
EXTENDS StepWorkerProofs, FiniteSetTheorems

(***************************************************************************)
(* What a step of worker w does, sorted by how its call ends: it goes on,  *)
(* it catches an exception, it is done with its message, it gives the      *)
(* message back, or it loses its channel.                                  *)
(***************************************************************************)
Moves(w) == WorkerStep(w) \/ CallFails(w) \/ Crash(w) \/ Disconnect(w)

Received(w) == /\ pc[w] = "idle" /\ pc'[w] = "claim"
               /\ Deliver(w)
               /\ UNCHANGED <<result, faults>>

Processed(w) ==
  /\ pc[w] = "process" /\ pc'[w] = "store"
  /\ result'[w] \in Results(Step(w).type, msg[w].input.content)
  /\ UNCHANGED <<queueVars, faults>>

\* From one label to the next, when the call succeeds.
Onward(w) ==
  \/ pc[w] = "claim" /\ pc'[w] = "start" /\ Claimable(Step(w))
  \/ pc[w] = "claim" /\ pc'[w] = "skip" /\ ~Claimable(Step(w))
  \/ pc[w] = "start" /\ pc'[w] = "process"
  \/ pc[w] = "store" /\ pc'[w] = "complete"
  \/ pc[w] = "complete" /\ pc'[w] = AfterComplete(w)
  \/ pc[w] = "terminal" /\ pc'[w] = "terminal_event"
       /\ result[w].terminal \in {"completed", "failed"}
  \/ pc[w] = "terminal_event" /\ pc'[w] = "failure_step" /\ result[w].failure
  \/ pc[w] = "failure_step" /\ pc'[w] = "failure_publish"
  \/ pc[w] = "failure_publish" /\ pc'[w] = "failure_event"
  \/ pc[w] = "override" /\ pc'[w] = AfterOverride(w) /\ StatusNameBound
  \/ pc[w] = "finish" /\ pc'[w] = "finish_event"
  \/ pc[w] = "next_step" /\ pc'[w] = "publish"
  \/ pc[w] = "publish" /\ pc'[w] = "publish_event"
  \/ pc[w] = "except" /\ pc'[w] = "except_event"

\* The publication made at the label of w, if there is one.
Sends(w) ==
  \/ pc[w] = "publish" /\ Publish(NextStep(w), Output(w))
  \/ pc[w] = "failure_publish" /\ Publish(FailureStep(w), Output(w))
  \/ pc[w] \notin {"publish", "failure_publish"} /\ UNCHANGED queueVars

Advanced(w) == Onward(w) /\ Sends(w) /\ UNCHANGED <<result, faults>>

\* The exceptions that need no fault.
Unsupported(w) ==
  \/ pc[w] = "terminal" /\ result[w].terminal \notin {"completed", "failed"}
  \/ /\ pc[w] = "override"
     /\ \/ ~StatusNameBound
        \/ result[w].override \notin {"running", "failed", "completed"}

Caught(w) == /\ pc[w] \in TryLabels /\ pc'[w] = "except"
             /\ Sends(w) \/ UNCHANGED queueVars
             /\ UNCHANGED result
             /\ \/ faults' = faults + 1
                \/ Unsupported(w) /\ UNCHANGED <<faults, queueVars>>

ReturnLabels == {"skip", "terminal_event", "failure_event", "finish_event",
                 "publish_event"}

Returned(w) == /\ pc[w] \in ReturnLabels /\ pc'[w] = "idle"
               /\ Acknowledge(w)
               /\ UNCHANGED faults

\* After the except block, by a crash, or by a failure that nothing catches.
Abandoned(w) ==
  /\ pc[w] # "idle" /\ pc'[w] = "idle"
  /\ Requeue(w)
  /\ \/ pc[w] = "except_event" /\ UNCHANGED faults
     \/ /\ faults' = faults + 1
        /\ "crash" \in FaultKinds \/ pc[w] \in FaultLabels \ TryLabels

Detached(w) == /\ UNCHANGED <<dbVars, pc, result>>
               /\ CloseChannel(w)
               /\ "disconnect" \in FaultKinds
               /\ faults' = faults + 1

Fate(w) == \/ Received(w) \/ Processed(w) \/ Advanced(w) \/ Caught(w)
           \/ Returned(w) \/ Abandoned(w) \/ Detached(w)

LEMMA CallFate ==
  ASSUME TypeOK, NEW w \in Workers, NEW label, NEW next,
         Call(w, label, next), label # "idle",
         label \notin {"publish", "failure_publish"}
  PROVE  \/ pc'[w] = next /\ Sends(w) /\ UNCHANGED <<result, faults>>
         \/ Caught(w)
         \/ Abandoned(w)
<1>t. pc \in [Workers -> Labels] /\ pc[w] = label
  BY DEF TypeOK, WorkerTypeOK, Call
<1> QED
  BY <1>t DEF Call, Goto, LoseReply, Fault, Raise, Catch, Reraise, Leave, Sends,
              Caught, Abandoned, queueVars

LEMMA LastCallFate ==
  ASSUME TypeOK, NEW w \in Workers, NEW label, LastCall(w, label),
         label \in ReturnLabels
  PROVE  Returned(w) \/ Caught(w) \/ Abandoned(w)
<1>t. pc \in [Workers -> Labels] /\ pc[w] = label /\ label # "idle"
  BY DEF TypeOK, WorkerTypeOK, LastCall, ReturnLabels
<1> QED
  BY <1>t DEF LastCall, Return, LoseReply, Fault, Raise, Catch, Reraise, Leave,
              Goto, Returned, Caught, Abandoned

LEMMA PublishFate ==
  ASSUME TypeOK, NEW w \in Workers, NEW label \in TryLabels, NEW next, NEW k,
         PublishCall(w, label, next, k),
         \/ label = "publish" /\ k = NextStep(w)
         \/ label = "failure_publish" /\ k = FailureStep(w)
  PROVE  \/ pc'[w] = next /\ Sends(w) /\ UNCHANGED <<result, faults>>
         \/ Caught(w)
<1>t. pc \in [Workers -> Labels] /\ pc[w] = label /\ Sends(w)
  BY DEF TypeOK, WorkerTypeOK, PublishCall, Sends
<1> QED
  BY <1>t DEF PublishCall, Goto, Fault, Catch, Caught

LEMMA WorkerFate ==
  ASSUME TypeOK, NEW w \in Workers, Moves(w)
  PROVE  Fate(w)
<1>t. /\ pc \in [Workers -> Labels]
      /\ result \in [Workers -> StepResult \cup {NoResult}]
  BY DEF TypeOK, WorkerTypeOK
<1>1. CASE Receive(w)
  BY <1>t, <1>1 DEF Receive, Goto, Fate, Received
<1>2. CASE Claim(w)
  <2>1. Call(w, "claim", IF Claimable(Step(w)) THEN "start" ELSE "skip")
        /\ pc[w] = "claim"
    BY <1>2 DEF Claim, Call
  <2>2. CASE Claimable(Step(w))
    BY <2>1, <2>2, CallFate DEF Fate, Advanced, Onward
  <2>3. CASE ~Claimable(Step(w))
    BY <2>1, <2>3, CallFate DEF Fate, Advanced, Onward
  <2> QED
    BY <2>2, <2>3
<1>3. CASE Process(w)
  BY <1>t, <1>3 DEF Process, Goto, Fate, Processed
<1>4. CASE Start(w) \/ Store(w) \/ Complete(w) \/ Override(w)
  BY <1>4, CallFate
     DEF Start, Store, Complete, Override, Call, Fate, Advanced, Onward
<1>5. CASE Terminal(w) \/ CreateFailureStep(w) \/ Finish(w) \/ CreateNextStep(w)
  BY <1>5, CallFate
     DEF Terminal, CreateFailureStep, Finish, CreateNextStep, Call, Fate,
         Advanced, Onward
<1>6. CASE Fail(w)
  BY <1>6, CallFate DEF Fail, Call, Fate, Advanced, Onward
<1>7. CASE TerminalEvent(w)
  <2>1. pc[w] = "terminal_event"
    BY <1>7 DEF TerminalEvent
  <2>2. CASE result[w].failure
    BY <1>7, <2>1, <2>2, CallFate DEF TerminalEvent, Fate, Advanced, Onward
  <2>3. CASE ~result[w].failure
    BY <1>7, <2>1, <2>3, LastCallFate DEF TerminalEvent, Fate, ReturnLabels
  <2> QED
    BY <2>2, <2>3
<1>8. CASE Skip(w) \/ FailureEvent(w) \/ FinishEvent(w) \/ PublishEvent(w)
  BY <1>8, LastCallFate
     DEF Skip, FailureEvent, FinishEvent, PublishEvent, Fate, ReturnLabels
<1>9. CASE PublishFailure(w) \/ PublishNext(w)
  <2>1. {"publish", "failure_publish"} \subseteq TryLabels
    BY DEF TryLabels
  <2> QED
    BY <1>9, <2>1, PublishFate
       DEF PublishFailure, PublishNext, PublishCall, Fate, Advanced, Onward
<1>10. CASE TerminalUnsupported(w) \/ OverrideUnsupported(w)
  <2>1. {"terminal", "override"} \subseteq TryLabels
    BY DEF TryLabels
  <2> QED
    BY <1>t, <1>10, <2>1
       DEF TerminalUnsupported, OverrideUnsupported, Catch, Goto, Fate, Caught,
           Unsupported
<1>11. CASE FailEvent(w) \/ Crash(w)
  BY <1>t, <1>11
     DEF FailEvent, Crash, Fault, Reraise, Leave, Goto, Fate, Abandoned
<1>12. CASE CallFails(w)
  BY <1>t, <1>12
     DEF CallFails, Fault, Raise, Catch, Reraise, Leave, Goto, Fate, Caught,
         Abandoned
<1>13. CASE Disconnect(w)
  BY <1>13 DEF Disconnect, Fault, Fate, Detached
<1> QED
  BY <1>1, <1>2, <1>3, <1>4, <1>5, <1>6, <1>7, <1>8, <1>9, <1>10, <1>11, <1>12,
     <1>13 DEF Moves, WorkerStep

(***************************************************************************)
(* What the step writes: the statement at the label of w, or nothing, when *)
(* there is none or it fails.                                              *)
(***************************************************************************)
Writes(w) ==
  \/ pc[w] = "claim" /\ ClaimStepForProcessing(Step(w))
  \/ pc[w] = "store" /\ CreateArtifact(Output(w))
  \/ pc[w] = "complete" /\ MarkStepCompleted(Step(w), Output(w))
  \/ /\ pc[w] = "terminal" /\ result[w].terminal \in {"completed", "failed"}
     /\ MarkWorkflow(Step(w).run, result[w].terminal)
  \/ /\ pc[w] = "terminal_event"
     /\ RecordEvent(Step(w), IF result[w].event = None THEN "workflow_terminated"
                                                       ELSE result[w].event)
  \/ pc[w] = "failure_step" /\ CreateWorkflowStep(FailureStep(w), Output(w))
  \/ pc[w] = "failure_event" /\ RecordEvent(Step(w), "workflow_failure_published")
  \/ /\ pc[w] = "override" /\ StatusNameBound
     /\ result[w].override \in {"running", "failed", "completed"}
     /\ MarkWorkflow(Step(w).run, result[w].override)
  \/ pc[w] = "finish" /\ MarkWorkflow(Step(w).run, "completed")
  \/ pc[w] = "finish_event" /\ RecordEvent(Step(w), "workflow_completed")
  \/ pc[w] = "next_step" /\ CreateWorkflowStep(NextStep(w), Output(w))
  \/ pc[w] = "publish_event" /\ RecordEvent(Step(w), "next_step_published")
  \/ pc[w] = "except" /\ MarkStepFailed(Step(w))

SilentLabels == {"idle", "skip", "start", "process", "publish",
                 "failure_publish", "except_event"}

WritesNothing(w) ==
  /\ UNCHANGED dbVars
  /\ pc[w] \in SilentLabels \/ pc'[w] \in {"idle", "except", pc[w]}

LEMMA WorkerWrites ==
  ASSUME TypeOK, NEW w \in Workers, Moves(w)
  PROVE  /\ Writes(w) \/ WritesNothing(w)
         /\ request' = request
<1>t. pc \in [Workers -> Labels]
  BY DEF TypeOK, WorkerTypeOK
<1>1. CASE \/ Receive(w) \/ Skip(w) \/ Start(w) \/ Process(w)
           \/ PublishFailure(w) \/ PublishNext(w) \/ FailEvent(w)
  BY <1>1 DEF Receive, Skip, Start, Process, PublishFailure, PublishNext,
              FailEvent, PublishCall, Call, LastCall, WritesNothing, SilentLabels
<1>2. CASE Claim(w) \/ Store(w) \/ Complete(w) \/ Fail(w)
  BY <1>2 DEF Claim, Store, Complete, Fail, Call, Writes
<1>3. CASE Terminal(w) \/ CreateFailureStep(w) \/ FailureEvent(w)
  BY <1>3 DEF Terminal, CreateFailureStep, FailureEvent, Call, LastCall, Writes
<1>4. CASE TerminalEvent(w)
  BY <1>4 DEF TerminalEvent, Call, LastCall, Writes
<1>5. CASE Override(w) \/ Finish(w) \/ FinishEvent(w) \/ CreateNextStep(w)
           \/ PublishEvent(w)
  BY <1>5 DEF Override, Finish, FinishEvent, CreateNextStep, PublishEvent, Call,
              LastCall, Writes
<1>6. CASE TerminalUnsupported(w) \/ OverrideUnsupported(w)
  BY <1>t, <1>6 DEF TerminalUnsupported, OverrideUnsupported, Catch, Goto,
                    WritesNothing
<1>7. CASE CallFails(w) \/ Crash(w) \/ Disconnect(w)
  BY <1>t, <1>7 DEF CallFails, Crash, Disconnect, Raise, Catch, Reraise, Leave,
                    Goto, WritesNothing
<1> QED
  BY <1>1, <1>2, <1>3, <1>4, <1>5, <1>6, <1>7 DEF Moves, WorkerStep

(***************************************************************************)
(* What a step of the request that creates run r does: its next call takes *)
(* effect, or it breaks off, at the price of a fault.                      *)
(***************************************************************************)
RequestMoves(r) == CreateRun(r) \/ RequestContinues(r) \/ RequestFails(r)

RequestCalls(r) ==
  \/ /\ request[r] = "create_run" /\ request'[r] \in {"create_input", "error"}
     /\ CreateWorkflowRun(r) /\ UNCHANGED queueVars
  \/ /\ request[r] = "create_input" /\ request'[r] \in {"create_step", "error"}
     /\ CreateArtifact(Ticket(r)) /\ UNCHANGED queueVars
  \/ /\ request[r] = "create_step" /\ request'[r] \in {"publish_first", "error"}
     /\ CreateWorkflowStep(FirstStep(r), Ticket(r)) /\ UNCHANGED queueVars
  \/ /\ request[r] = "publish_first" /\ request'[r] \in {"started_event", "error"}
     /\ Publish(FirstStep(r), Ticket(r)) /\ UNCHANGED dbVars
  \/ /\ request[r] = "started_event" /\ request'[r] \in {"done", "error"}
     /\ UNCHANGED <<dbVars, queueVars>>
  \/ /\ request[r] \notin {"create_run", "done", "error"} /\ request'[r] = "error"
     /\ UNCHANGED <<dbVars, queueVars>>

LEMMA RequestFate ==
  ASSUME TypeOK, NEW r \in Runs, RequestMoves(r)
  PROVE  /\ RequestCalls(r)
         /\ UNCHANGED <<pc, result>>
         /\ request' = [request EXCEPT ![r] = request'[r]]
         /\ IF request'[r] = "error" THEN faults' = faults + 1
                                     ELSE UNCHANGED faults
<1>t. request \in [Runs -> RequestLabels]
  BY DEF TypeOK
<1>1. ASSUME NEW label, NEW next, RequestCall(r, label, next), next # "error"
      PROVE  /\ request[r] = label /\ request'[r] \in {next, "error"}
             /\ UNCHANGED <<pc, result>>
             /\ request' = [request EXCEPT ![r] = request'[r]]
             /\ IF request'[r] = "error" THEN faults' = faults + 1
                                         ELSE UNCHANGED faults
  BY <1>t, <1>1 DEF RequestCall, Fault
<1>2. CASE CreateRun(r)
  BY <1>1, <1>2 DEF CreateRun, RequestCalls
<1>3. CASE CreateInput(r)
  BY <1>1, <1>3 DEF CreateInput, RequestCalls
<1>4. CASE CreateFirstStep(r)
  BY <1>1, <1>4 DEF CreateFirstStep, RequestCalls
<1>5. CASE PublishFirst(r)
  BY <1>1, <1>5 DEF PublishFirst, RequestCalls
<1>6. CASE StartedEvent(r)
  BY <1>1, <1>6 DEF StartedEvent, RequestCalls
<1>7. CASE RequestFails(r)
  BY <1>t, <1>7 DEF RequestFails, Fault, RequestCalls
<1> QED
  BY <1>2, <1>3, <1>4, <1>5, <1>6, <1>7 DEF RequestMoves, RequestContinues

LEMMA NextCases ==
  ASSUME [Next]_vars
  PROVE  \/ UNCHANGED vars
         \/ \E w \in Workers : Moves(w)
         \/ \E r \in Runs : RequestMoves(r)
BY DEF Next, Moves, RequestMoves
-----------------------------------------------------------------------------
(***************************************************************************)
(* Rows are never deleted.                                                 *)
(***************************************************************************)
LEMMA RowsRemain ==
  ASSUME TypeOK, [Next]_vars
  PROVE  /\ artifacts \subseteq artifacts'
         /\ \A k : Exists(k) => Exists(k)'
<1> DEFINE Remain == artifacts \subseteq artifacts' /\ DOMAIN steps \subseteq DOMAIN steps'
<1>1. UNCHANGED dbVars => Remain
  BY DEF dbVars
<1>2. ASSUME NEW k, NEW a, CreateWorkflowStep(k, a) PROVE Remain
  BY <1>2 DEF CreateWorkflowStep
<1>3. ASSUME NEW k, NEW a,
             \/ ClaimStepForProcessing(k) \/ MarkStepCompleted(k, a)
             \/ MarkStepFailed(k) \/ CreateArtifact(a)
      PROVE  Remain
  BY <1>3 DEF ClaimStepForProcessing, MarkStepCompleted, MarkStepFailed, CreateArtifact
<1>4. ASSUME NEW r, NEW status, NEW k, NEW type,
             MarkWorkflow(r, status) \/ CreateWorkflowRun(r) \/ RecordEvent(k, type)
      PROVE  Remain
  BY <1>4 DEF MarkWorkflow, CreateWorkflowRun, RecordEvent
<1>5. ASSUME NEW w \in Workers, Moves(w) PROVE Remain
  <2>1. CASE WritesNothing(w)
    BY <1>1, <2>1 DEF WritesNothing
  <2>2. CASE Writes(w)
    BY <1>2, <1>3, <1>4, <2>2 DEF Writes
  <2> QED
    BY <1>5, <2>1, <2>2, WorkerWrites
<1>6. ASSUME NEW r \in Runs, RequestMoves(r) PROVE Remain
  <2>1. RequestCalls(r)
    BY <1>6, RequestFate
  <2> QED
    BY <1>1, <1>2, <1>3, <1>4, <2>1 DEF RequestCalls
<1> QED
  BY <1>1, <1>5, <1>6, NextCases DEF Exists, vars

(***************************************************************************)
(* Where a message comes from.                                             *)
(***************************************************************************)
LEMMA MessagesAreSent ==
  ASSUME TypeOK, [Next]_vars, NEW m \in Messages'
  PROVE  \/ m \in Messages
         \/ \E w \in Workers :
              /\ m.input = Output(w)
              /\ \/ pc[w] = "publish" /\ m.step = NextStep(w)
                 \/ pc[w] = "failure_publish" /\ m.step = FailureStep(w)
         \/ \E r \in Runs : /\ request[r] = "publish_first"
                            /\ m.step = FirstStep(r) /\ m.input = Ticket(r)
<1>t. /\ pc \in [Workers -> Labels]
      /\ msg \in [Workers -> WorkflowMessage \cup {NoMessage}]
  BY DEF TypeOK, WorkerTypeOK, QueueTypeOK
<1>1. CASE UNCHANGED vars
  BY <1>1 DEF vars, queueVars, Messages
<1>2. ASSUME NEW w \in Workers, Moves(w)
      PROVE  \/ m \in Messages
             \/ /\ m.input = Output(w)
                /\ \/ pc[w] = "publish" /\ m.step = NextStep(w)
                   \/ pc[w] = "failure_publish" /\ m.step = FailureStep(w)
  <2>1. \A v \in Workers \ {w} : pc'[v] = pc[v] /\ msg'[v] = msg[v]
    BY <1>2, OthersStay DEF Moves
  <2>2. Fate(w)
    BY <1>2, WorkerFate
  <2>3. CASE Received(w)
    <3>1. UNCHANGED queue /\ msg'[w] \in queue
      BY <1>t, <2>3 DEF Received, Deliver, Ready
    <3> QED
      BY <2>1, <3>1 DEF Messages
  <2>4. ASSUME msg'[w] = msg[w], pc[w] # "idle", queue' = queue
        PROVE  m \in Messages
    BY <2>1, <2>4 DEF Messages
  <2>5. ASSUME msg'[w] = msg[w], pc[w] # "idle", NEW k, Publish(k, Output(w))
        PROVE  m \in Messages \/ (m.input = Output(w) /\ m.step = k)
    BY <2>1, <2>5 DEF Messages, Publish
  <2>6. CASE Sends(w) /\ pc[w] # "idle"
    BY <2>4, <2>5, <2>6 DEF Sends, Publish, queueVars
  <2>7. CASE Processed(w) \/ Caught(w)
    BY <2>4, <2>6, <2>7 DEF Processed, Caught, TryLabels, queueVars
  <2>8. CASE Advanced(w)
    BY <2>6, <2>8 DEF Advanced, Onward
  <2>9. CASE Returned(w) \/ Abandoned(w)
    <3>1. pc'[w] = "idle" /\ queue' \subseteq queue
      BY <2>9 DEF Returned, Abandoned, Acknowledge, Requeue
    <3> QED
      BY <2>1, <3>1 DEF Messages
  <2>10. CASE Detached(w)
    BY <2>10 DEF Detached, CloseChannel, Messages
  <2> QED
    BY <2>2, <2>3, <2>7, <2>8, <2>9, <2>10 DEF Fate
<1>3. ASSUME NEW r \in Runs, RequestMoves(r)
      PROVE  \/ m \in Messages
             \/ /\ request[r] = "publish_first"
                /\ m.step = FirstStep(r) /\ m.input = Ticket(r)
  <2>1. RequestCalls(r) /\ UNCHANGED pc
    BY <1>3, RequestFate
  <2>2. CASE UNCHANGED queueVars
    BY <2>1, <2>2 DEF queueVars, Messages
  <2>3. CASE request[r] = "publish_first" /\ Publish(FirstStep(r), Ticket(r))
    BY <2>1, <2>3 DEF Publish, Messages
  <2> QED
    BY <2>1, <2>2, <2>3 DEF RequestCalls
<1> QED
  BY <1>1, <1>2, <1>3, NextCases

(***************************************************************************)
(* The inductive invariant of resolvable messages: besides the messages    *)
(* themselves, that the rows a worker or a request is about to name are    *)
(* written by then.                                                        *)
(***************************************************************************)
OutputsStored ==
  \A w \in Workers : pc[w] \in ResultLabels \ {"store"} => Output(w) \in artifacts

HandOffsCreated ==
  \A w \in Workers :
    /\ pc[w] \in {"publish", "publish_event"} => Exists(NextStep(w))
    /\ pc[w] \in {"failure_publish", "failure_event"} => Exists(FailureStep(w))

TicketsStored ==
  \A r \in Runs :
    /\ request[r] \in {"create_step", "publish_first"} => Ticket(r) \in artifacts
    /\ request[r] = "publish_first" => Exists(FirstStep(r))

ResolvableInv == /\ TypeOK
                 /\ OutputsStored
                 /\ HandOffsCreated
                 /\ TicketsStored
                 /\ MessagesResolvable

LEMMA ResolvableInit == Init => ResolvableInv
<1> SUFFICES ASSUME Init PROVE ResolvableInv
  OBVIOUS
<1>1. Messages = {}
  BY DEF Init, QueueInit, Messages
<1> QED
  BY <1>1, InitTyped
     DEF ResolvableInv, OutputsStored, HandOffsCreated, TicketsStored,
         MessagesResolvable, Init, ResultLabels, TryLabels

\* What a worker hands on is determined by its message and its result.
LEMMA HandOffStays ==
  ASSUME NEW w \in Workers, msg'[w] = msg[w], result'[w] = result[w]
  PROVE  /\ Step(w)' = Step(w) /\ Output(w)' = Output(w)
         /\ NextStep(w)' = NextStep(w) /\ FailureStep(w)' = FailureStep(w)
BY DEF Step, Output, NextStep, FailureStep

(***************************************************************************)
(* A worker that is past a call has made it.                               *)
(***************************************************************************)
LEMMA WorkerCameFrom ==
  ASSUME TypeOK, NEW w \in Workers, Moves(w)
  PROVE  /\ pc'[w] \in ResultLabels =>
              /\ msg'[w] = msg[w]
              /\ \/ pc[w] \in ResultLabels /\ result'[w] = result[w]
                 \/ pc[w] = "process" /\ pc'[w] = "store"
         /\ pc'[w] \in ResultLabels \ {"store"} =>
              \/ pc[w] \in ResultLabels \ {"store"}
              \/ pc[w] = "store" /\ Writes(w)
         /\ pc'[w] \in {"publish", "publish_event"} =>
              \/ pc[w] \in {"publish", "publish_event"}
              \/ pc[w] = "next_step" /\ Writes(w)
         /\ pc'[w] \in {"failure_publish", "failure_event"} =>
              \/ pc[w] \in {"failure_publish", "failure_event"}
              \/ pc[w] = "failure_step" /\ Writes(w)
<1>1. Fate(w) /\ (Writes(w) \/ WritesNothing(w))
  BY WorkerFate, WorkerWrites
<1> USE DEF ResultLabels, TryLabels, queueVars
<1>2. CASE Received(w) \/ Processed(w) \/ Caught(w) \/ Returned(w) \/ Abandoned(w)
  BY <1>2 DEF Received, Processed, Caught, Returned, Abandoned
<1>3. CASE Detached(w)
  BY <1>3 DEF Detached, CloseChannel
<1>4. CASE Advanced(w)
  <2>1. Onward(w) /\ Sends(w) /\ result' = result
    BY <1>4 DEF Advanced
  <2>2. msg' = msg
    BY <2>1 DEF Sends, Publish
  <2>3. AfterComplete(w) \notin {"publish", "publish_event", "failure_publish", "failure_event"}
        /\ AfterOverride(w) \notin {"publish", "publish_event", "failure_publish", "failure_event"}
    BY DEF AfterComplete, AfterOverride
  <2> QED
    BY <1>1, <2>1, <2>2, <2>3 DEF Onward, WritesNothing, SilentLabels
<1> QED
  BY <1>1, <1>2, <1>3, <1>4 DEF Fate

LEMMA ResolvableStep == ResolvableInv /\ [Next]_vars => ResolvableInv'
<1> SUFFICES ASSUME ResolvableInv, [Next]_vars PROVE ResolvableInv'
  OBVIOUS
<1>t. TypeOK /\ TypeOK'
  BY NextTyped DEF ResolvableInv
<1>g. artifacts \subseteq artifacts' /\ \A k : Exists(k) => Exists(k)'
  BY <1>t, RowsRemain
<1>1. ASSUME NEW w \in Workers
      PROVE  \/ Moves(w)
             \/ /\ pc'[w] = pc[w] /\ msg'[w] = msg[w] /\ result'[w] = result[w]
  <2>1. CASE UNCHANGED vars
    BY <2>1 DEF vars, queueVars
  <2>2. ASSUME NEW v \in Workers, v # w, Moves(v)
        PROVE  pc'[w] = pc[w] /\ msg'[w] = msg[w] /\ result'[w] = result[w]
    BY <1>t, <2>2, OthersStay DEF Moves
  <2>3. ASSUME NEW r \in Runs, RequestMoves(r)
        PROVE  UNCHANGED <<pc, msg, result>>
    BY <1>t, <2>3, RequestFate DEF RequestCalls, Publish, queueVars
  <2> QED
    BY <2>1, <2>2, <2>3, NextCases
<1>2. OutputsStored'
  <2> SUFFICES ASSUME NEW w \in Workers, pc'[w] \in ResultLabels \ {"store"}
               PROVE  Output(w)' \in artifacts'
    BY DEF OutputsStored
  <2>1. CASE Moves(w)
    <3>1. /\ msg'[w] = msg[w] /\ result'[w] = result[w]
          /\ \/ pc[w] \in ResultLabels \ {"store"}
             \/ pc[w] = "store" /\ Writes(w)
      BY <1>t, <2>1, WorkerCameFrom
    <3>2. Output(w)' = Output(w)
      BY <3>1, HandOffStays
    <3>3. pc[w] = "store" /\ Writes(w) => Output(w) \in artifacts'
      BY DEF Writes, CreateArtifact
    <3> QED
      BY <1>g, <3>1, <3>2, <3>3 DEF ResolvableInv, OutputsStored
  <2>2. CASE pc'[w] = pc[w] /\ msg'[w] = msg[w] /\ result'[w] = result[w]
    BY <1>g, <2>2, HandOffStays DEF ResolvableInv, OutputsStored
  <2> QED
    BY <1>1, <2>1, <2>2
<1>3. HandOffsCreated'
  <2> SUFFICES ASSUME NEW w \in Workers
               PROVE  /\ pc'[w] \in {"publish", "publish_event"} => Exists(NextStep(w))'
                      /\ pc'[w] \in {"failure_publish", "failure_event"} =>
                           Exists(FailureStep(w))'
    BY DEF HandOffsCreated
  <2>0. ASSUME msg'[w] = msg[w], result'[w] = result[w]
        PROVE  /\ Exists(NextStep(w))' <=> NextStep(w) \in DOMAIN steps'
               /\ Exists(FailureStep(w))' <=> FailureStep(w) \in DOMAIN steps'
    BY <2>0, HandOffStays DEF Exists
  <2>g. DOMAIN steps \subseteq DOMAIN steps'
    BY <1>g DEF Exists
  <2>1. CASE Moves(w)
    <3>1. CASE pc'[w] \in {"publish", "publish_event"}
      <4>1. /\ msg'[w] = msg[w] /\ result'[w] = result[w]
            /\ \/ pc[w] \in {"publish", "publish_event"}
               \/ pc[w] = "next_step" /\ Writes(w)
        BY <1>t, <2>1, <3>1, WorkerCameFrom DEF ResultLabels, TryLabels
      <4>2. pc[w] = "next_step" /\ Writes(w) => NextStep(w) \in DOMAIN steps'
        BY DEF Writes, CreateWorkflowStep, Exists
      <4> QED
        BY <2>0, <2>g, <3>1, <4>1, <4>2 DEF ResolvableInv, HandOffsCreated, Exists
    <3>2. CASE pc'[w] \in {"failure_publish", "failure_event"}
      <4>1. /\ msg'[w] = msg[w] /\ result'[w] = result[w]
            /\ \/ pc[w] \in {"failure_publish", "failure_event"}
               \/ pc[w] = "failure_step" /\ Writes(w)
        BY <1>t, <2>1, <3>2, WorkerCameFrom DEF ResultLabels, TryLabels
      <4>2. pc[w] = "failure_step" /\ Writes(w) => FailureStep(w) \in DOMAIN steps'
        BY DEF Writes, CreateWorkflowStep, Exists
      <4> QED
        BY <2>0, <2>g, <3>2, <4>1, <4>2 DEF ResolvableInv, HandOffsCreated, Exists
    <3> QED
      BY <3>1, <3>2
  <2>2. CASE pc'[w] = pc[w] /\ msg'[w] = msg[w] /\ result'[w] = result[w]
    BY <2>0, <2>g, <2>2 DEF ResolvableInv, HandOffsCreated, Exists
  <2> QED
    BY <1>1, <2>1, <2>2
<1>4. TicketsStored'
  <2> SUFFICES ASSUME NEW r \in Runs
               PROVE  /\ request'[r] \in {"create_step", "publish_first"} =>
                           Ticket(r) \in artifacts'
                      /\ request'[r] = "publish_first" => Exists(FirstStep(r))'
    BY DEF TicketsStored, Ticket
  <2>0. FirstStep(r)' = FirstStep(r)
    BY DEF FirstStep, FirstAttempt
  <2>1. CASE request'[r] = request[r]
    BY <1>g, <2>0, <2>1 DEF ResolvableInv, TicketsStored, Exists
  <2>2. ASSUME NEW q \in Runs, RequestMoves(q)
        PROVE  request'[r] = request[r] \/ (q = r /\ RequestCalls(r))
    <3>1. request' = [request EXCEPT ![q] = request'[q]] /\ RequestCalls(q)
      BY <1>t, <2>2, RequestFate
    <3> QED
      BY <1>t, <3>1 DEF TypeOK
  <2>3. CASE RequestCalls(r)
    BY <1>g, <2>0, <2>3
       DEF RequestCalls, CreateArtifact, CreateWorkflowStep, Exists,
           ResolvableInv, TicketsStored
  <2> QED
    BY <1>t, <2>1, <2>2, <2>3, NextCases, WorkerWrites DEF vars
<1>5. MessagesResolvable'
  <2> SUFFICES ASSUME NEW m \in Messages'
               PROVE  /\ m.step \in DOMAIN steps' /\ m.input \in artifacts'
                      /\ m.input.run = m.step.run
    BY DEF MessagesResolvable, Exists
  <2>g. DOMAIN steps \subseteq DOMAIN steps'
    BY <1>g DEF Exists
  <2>1. CASE m \in Messages
    BY <1>g, <2>g, <2>1 DEF ResolvableInv, MessagesResolvable, Exists
  <2>2. ASSUME NEW w \in Workers, m.input = Output(w),
               \/ pc[w] = "publish" /\ m.step = NextStep(w)
               \/ pc[w] = "failure_publish" /\ m.step = FailureStep(w)
        PROVE  /\ m.step \in DOMAIN steps /\ m.input \in artifacts
               /\ m.input.run = m.step.run
    <3>1. pc[w] \in ResultLabels \ {"store"}
      BY <2>2 DEF ResultLabels, TryLabels
    <3>2. m.input \in artifacts /\ m.step \in DOMAIN steps
      BY <2>2, <3>1 DEF ResolvableInv, OutputsStored, HandOffsCreated, Exists
    <3>3. m.input.run = m.step.run
      BY <2>2 DEF Output, NextStep, FailureStep, FirstAttempt
    <3> QED
      BY <3>2, <3>3
  <2>3. ASSUME NEW r \in Runs, request[r] = "publish_first",
               m.step = FirstStep(r), m.input = Ticket(r)
        PROVE  /\ m.step \in DOMAIN steps /\ m.input \in artifacts
               /\ m.input.run = m.step.run
    BY <2>3 DEF ResolvableInv, TicketsStored, Exists, FirstStep, FirstAttempt, Ticket
  <2> QED
    BY <1>t, <1>g, <2>g, <2>1, <2>2, <2>3, MessagesAreSent
<1> QED
  BY <1>t, <1>2, <1>3, <1>4, <1>5 DEF ResolvableInv

(***************************************************************************)
(* Every message names a step row and a stored artifact of one run,        *)
(* whatever is retried, redelivered or lost, for any handlers: the rows    *)
(* are committed before the message that names them is published.          *)
(***************************************************************************)
THEOREM MessagesResolvableHolds == Spec => []MessagesResolvable
<1>1. ResolvableInv => MessagesResolvable
  BY DEF ResolvableInv
<1> QED
  BY <1>1, ResolvableInit, ResolvableStep, PTL DEF Spec
-----------------------------------------------------------------------------
(***************************************************************************)
(* The queue of a worker's step: the worker takes a message, keeps it, is  *)
(* done with it, gives it back, or loses the channel it came through.      *)
(***************************************************************************)
Keeps(w) == /\ pc[w] # "idle" /\ pc'[w] # "idle"
            /\ msg'[w] = msg[w] /\ linked'[w] = linked[w]
            /\ queue \subseteq queue'

LEMMA MessageFate ==
  ASSUME TypeOK, NEW w \in Workers, Moves(w)
  PROVE  Received(w) \/ Keeps(w) \/ Returned(w) \/ Abandoned(w) \/ Detached(w)
<1>1. Sends(w) => /\ msg'[w] = msg[w] /\ linked'[w] = linked[w]
                  /\ queue \subseteq queue'
  BY DEF Sends, Publish, queueVars
<1>2. Onward(w) => pc[w] # "idle" /\ pc'[w] # "idle"
  BY DEF Onward, AfterComplete, AfterOverride
<1>3. Advanced(w) => Keeps(w)
  BY <1>1, <1>2 DEF Advanced, Keeps
<1>4. Processed(w) \/ Caught(w) => Keeps(w)
  BY <1>1 DEF Processed, Caught, Keeps, TryLabels, queueVars
<1> QED
  BY <1>3, <1>4, WorkerFate DEF Fate

LEMMA MovesOrStays ==
  ASSUME TypeOK, [Next]_vars, NEW w \in Workers
  PROVE  \/ Moves(w)
         \/ /\ pc'[w] = pc[w] /\ msg'[w] = msg[w]
            /\ result'[w] = result[w] /\ linked'[w] = linked[w]
<1>1. CASE UNCHANGED vars
  BY <1>1 DEF vars, queueVars
<1>2. ASSUME NEW v \in Workers, v # w, Moves(v)
      PROVE  /\ pc'[w] = pc[w] /\ msg'[w] = msg[w]
             /\ result'[w] = result[w] /\ linked'[w] = linked[w]
  BY <1>2, OthersStay DEF Moves
<1>3. ASSUME NEW r \in Runs, RequestMoves(r)
      PROVE  UNCHANGED <<pc, msg, result, linked>>
  BY <1>3, RequestFate DEF RequestCalls, Publish, queueVars
<1> QED
  BY <1>1, <1>2, <1>3, NextCases

(***************************************************************************)
(* While no channel closes under a handler, its message stays in the queue *)
(* and its own until it is done with it.                                   *)
(***************************************************************************)
Delivered ==
  /\ \A w \in Workers : pc[w] # "idle" => linked[w] /\ msg[w] \in queue
  /\ \A v, w \in Workers :
       v # w /\ pc[v] # "idle" /\ pc[w] # "idle" => msg[v] # msg[w]

LEMMA DeliveredStep ==
  ASSUME TypeOK, Delivered, [Next]_vars, "disconnect" \notin FaultKinds \/ faults' = faults
  PROVE  Delivered'
<1>1. CASE UNCHANGED vars
  BY <1>1 DEF vars, queueVars, Delivered
<1>2. ASSUME NEW r \in Runs, RequestMoves(r)
      PROVE  Delivered'
  <2>1. UNCHANGED <<pc, msg, linked>> /\ queue \subseteq queue'
    BY <1>2, RequestFate DEF RequestCalls, Publish, queueVars
  <2> QED
    BY <2>1 DEF Delivered
<1>3. ASSUME NEW u \in Workers, Moves(u)
      PROVE  Delivered'
  <2>o. \A w \in Workers \ {u} :
          pc'[w] = pc[w] /\ msg'[w] = msg[w] /\ linked'[w] = linked[w]
    BY <1>3, OthersStay DEF Moves
  <2>1. CASE Received(u)
    <3>1. /\ linked'[u] /\ msg'[u] \in queue /\ queue' = queue
          /\ \A w \in Workers : linked[w] => msg[w] # msg'[u]
      <4>1. linked' = [linked EXCEPT ![u] = TRUE] /\ queue' = queue
        BY <2>1 DEF Received, Deliver
      <4>2. PICK m \in Ready(Service[u]) : msg' = [msg EXCEPT ![u] = m]
        BY <2>1 DEF Received, Deliver
      <4> QED
        BY <4>1, <4>2 DEF Ready, TypeOK, QueueTypeOK
    <3> QED
      BY <2>o, <2>1, <3>1 DEF Delivered, Received
  <2>2. CASE Keeps(u)
    BY <2>o, <2>2 DEF Delivered, Keeps
  <2>3. CASE Returned(u) \/ Abandoned(u)
    <3>1. pc[u] # "idle" /\ pc'[u] = "idle" /\ queue \ {msg[u]} \subseteq queue'
      BY <2>3 DEF Returned, ReturnLabels, Abandoned, Acknowledge, Requeue
    <3> QED
      BY <2>o, <3>1 DEF Delivered
  <2>4. faults' = faults => ~Detached(u)
    BY FaultAssumption DEF Detached, TypeOK
  <2> QED
    BY <1>3, <2>1, <2>2, <2>3, <2>4, MessageFate DEF Detached
<1> QED
  BY <1>1, <1>2, <1>3, NextCases

(***************************************************************************)
(* The message that retries a failed step is on nobody's desk to be        *)
(* acknowledged: a worker that skips its message saw its step running or   *)
(* completed, and then nobody else has the message.                        *)
(***************************************************************************)
KeptForRetry ==
  \A k \in StepKey :
    StatusOf(k) = "failed" =>
      \E m \in queue : /\ m.step = k
                       /\ \A w \in Workers : pc[w] = "skip" => msg[w] # m

RetryInv == ExclusiveInv /\ Delivered /\ KeptForRetry

LEMMA CreateIsPending ==
  ASSUME NEW j, NEW a, CreateWorkflowStep(j, a), NEW k
  PROVE  StatusOf(k)' \in {StatusOf(k), "pending"}
BY DEF CreateWorkflowStep, StatusOf, Exists

LEMMA RequestCreates ==
  ASSUME TypeOK, NEW r \in Runs, RequestMoves(r), NEW k
  PROVE  StatusOf(k)' \in {StatusOf(k), "pending"}
<1>1. CASE UNCHANGED steps
  BY <1>1 DEF StatusOf, Exists
<1>2. CASE \E j \in StepKey, a \in Artifact : CreateWorkflowStep(j, a)
  BY <1>2, CreateIsPending
<1> QED
  BY <1>1, <1>2, RequestEffect DEF RequestMoves

\* The step of a worker fails a step only at "except", and then it is its own.
LEMMA FailedByItsOwner ==
  ASSUME TypeOK, NEW w \in Workers, Moves(w), NEW k, StatusOf(k)' = "failed"
  PROVE  \/ StatusOf(k) = "failed"
         \/ /\ pc[w] = "except" /\ Step(w) = k
            /\ pc'[w] \in {"except_event", "idle"}
            /\ queue' = queue
<1>1. TableEffect(w) /\ DbTypeOK
  BY WorkerTableEffect DEF Moves, TypeOK
<1>2. CASE UNCHANGED steps
  BY <1>2 DEF StatusOf, Exists
<1>3. ASSUME NEW j, NEW a, CreateWorkflowStep(j, a)
      PROVE  StatusOf(k) = "failed"
  BY <1>3, CreateIsPending
<1>4. CASE ClaimStepForProcessing(Step(w))
  BY <1>1, <1>4, ClaimSetsStatus
<1>5. CASE MarkStepCompleted(Step(w), Output(w))
  <2>1. Exists(k)
    BY <1>5 DEF MarkStepCompleted, StatusOf, Exists
  <2> QED
    BY <1>1, <1>5, <2>1, CompleteSetsStatus
<1>6. CASE /\ pc[w] = "except" /\ pc'[w] \notin OwnerLabels
           /\ MarkStepFailed(Step(w))
  <2>1. Step(w) # k => StatusOf(k) = "failed"
    BY <1>1, <1>6, FailSetsStatus
  <2>2. Fate(w)
    BY WorkerFate
  <2>3. pc'[w] \in {"except_event", "idle"} /\ queue' = queue
    BY <1>6, <2>2
       DEF Fate, Received, Processed, Advanced, Onward, Sends, Caught, TryLabels,
           Returned, ReturnLabels, Abandoned, Requeue, Detached, OwnerLabels,
           queueVars
  <2> QED
    BY <1>6, <2>1, <2>3
<1> QED
  BY <1>1, <1>2, <1>3, <1>4, <1>5, <1>6 DEF TableEffect

LEMMA KeptForRetryStep ==
  ASSUME RetryInv, [Next]_vars, "disconnect" \notin FaultKinds
  PROVE  KeptForRetry'
<1>t. TypeOK /\ pc \in [Workers -> Labels]
  BY DEF RetryInv, ExclusiveInv, TypeOK, WorkerTypeOK
<1> SUFFICES ASSUME NEW k \in StepKey, StatusOf(k)' = "failed"
             PROVE  \E m \in queue' :
                      /\ m.step = k
                      /\ \A w \in Workers : pc'[w] = "skip" => msg'[w] # m
  BY DEF KeptForRetry
<1>k. StatusOf(k) = "failed" =>
        \E m \in queue : /\ m.step = k
                         /\ \A w \in Workers : pc[w] = "skip" => msg[w] # m
  BY DEF RetryInv, KeptForRetry
<1>1. CASE UNCHANGED vars
  BY <1>1, <1>k DEF vars, dbVars, queueVars, StatusOf, Exists
<1>2. ASSUME NEW r \in Runs, RequestMoves(r)
      PROVE  \E m \in queue' :
               /\ m.step = k
               /\ \A w \in Workers : pc'[w] = "skip" => msg'[w] # m
  <2>1. UNCHANGED <<pc, msg>> /\ queue \subseteq queue'
    BY <1>t, <1>2, RequestFate DEF RequestCalls, Publish, queueVars
  <2>2. StatusOf(k) = "failed"
    BY <1>t, <1>2, RequestCreates
  <2> QED
    BY <1>k, <2>1, <2>2
<1>3. ASSUME NEW u \in Workers, Moves(u)
      PROVE  \E m \in queue' :
               /\ m.step = k
               /\ \A w \in Workers : pc'[w] = "skip" => msg'[w] # m
  <2>o. \A w \in Workers \ {u} : pc'[w] = pc[w] /\ msg'[w] = msg[w]
    BY <1>t, <1>3, OthersStay DEF Moves
  <2>1. CASE pc[u] = "except" /\ Step(u) = k /\ queue' = queue
             /\ pc'[u] \in {"except_event", "idle"}
    \* u has just failed the step: its own message retries it.
    <3>1. msg[u] \in queue' /\ msg[u].step = k
      BY <2>1 DEF RetryInv, Delivered, Step
    <3>2. \A w \in Workers : pc'[w] = "skip" => msg'[w] # msg[u]
      BY <2>o, <2>1 DEF RetryInv, Delivered
    <3> QED
      BY <3>1, <3>2
  <2>2. CASE StatusOf(k) = "failed"
    <3>1. PICK m \in queue :
            m.step = k /\ \A w \in Workers : pc[w] = "skip" => msg[w] # m
      BY <1>k, <2>2
    <3>2. m \in queue'
      <4>1. ASSUME Returned(u), msg[u] = m PROVE FALSE
        <5>1. pc[u] \in ReturnLabels \ {"skip"} /\ Step(u) = k
          BY <3>1, <4>1 DEF Returned, Step
        <5>2. StatusOf(k) \in {"running", "completed"}
          BY <5>1 DEF RetryInv, ExclusiveInv, OwnedIsHeld, OwnerLabels, TryLabels,
                      ReturnLabels
        <5> QED
          BY <2>2, <5>2
      <4> QED
        BY <1>t, <1>3, <4>1, MessageFate
           DEF Received, Deliver, Keeps, Returned, Acknowledge, Abandoned, Requeue,
               Detached, CloseChannel
    <3>3. pc'[u] = "skip" => msg'[u] # m
      <4> SUFFICES ASSUME pc'[u] = "skip", msg'[u] = m PROVE FALSE
        OBVIOUS
      <4>0. Fate(u)
        BY <1>t, <1>3, WorkerFate
      <4>1. Advanced(u)
        BY <4>0 DEF Fate, Received, Processed, Caught, Returned, Abandoned, Detached
      <4>2. pc[u] = "claim" /\ ~Claimable(Step(u)) /\ msg' = msg
        BY <4>1 DEF Advanced, Onward, AfterComplete, AfterOverride, Sends, queueVars
      <4> QED
        BY <2>2, <3>1, <4>2 DEF Claimable, Step
    <3> QED
      BY <2>o, <3>1, <3>2, <3>3
  <2> QED
    BY <1>t, <1>3, <2>1, <2>2, FailedByItsOwner
<1> QED
  BY <1>1, <1>2, <1>3, NextCases

(***************************************************************************)
(* While no channel closes under a handler, a step that was marked failed  *)
(* has a message, whatever calls fail and whoever dies: the handler that   *)
(* marks it gives the message back, and no other handler can settle it.    *)
(***************************************************************************)
THEOREM FailedStepsAreRetriedHolds ==
  ASSUME "disconnect" \notin FaultKinds
  PROVE  Spec => []FailedStepsAreRetried
<1>1. Init => RetryInv
  BY ExclusiveInit DEF RetryInv, Delivered, KeptForRetry, Init, DbInit, StatusOf, Exists
<1>2. RetryInv /\ [Next]_vars => RetryInv'
  <2> SUFFICES ASSUME RetryInv, [Next]_vars PROVE RetryInv'
    OBVIOUS
  <2> QED
    BY ExclusiveStep, DeliveredStep, KeptForRetryStep DEF RetryInv, ExclusiveInv
<1>3. RetryInv => FailedStepsAreRetried
  BY DEF RetryInv, KeptForRetry, FailedStepsAreRetried
<1> QED
  BY <1>1, <1>2, <1>3, PTL DEF Spec
-----------------------------------------------------------------------------
(***************************************************************************)
(* Past its "complete" call, a worker's step is completed.                 *)
(***************************************************************************)
PastLabels == TryLabels \ {"process", "store", "complete"}

CompletedPast ==
  \A w \in Workers : pc[w] \in PastLabels => StatusOf(Step(w)) = "completed"

LEMMA PastCameFrom ==
  ASSUME TypeOK, NEW w \in Workers, Moves(w), pc'[w] \in PastLabels
  PROVE  /\ msg'[w] = msg[w]
         /\ \/ pc[w] \in PastLabels
            \/ pc[w] = "complete" /\ MarkStepCompleted(Step(w), Output(w))
<1>1. pc'[w] \in ResultLabels \ {"store"}
  BY DEF PastLabels, ResultLabels, TryLabels
<1>2. msg'[w] = msg[w] /\ pc[w] \in ResultLabels
  BY <1>1, WorkerCameFrom DEF ResultLabels, TryLabels
<1>3. CASE pc[w] \in {"store", "complete"}
  <2>1. Fate(w) /\ (Writes(w) \/ WritesNothing(w))
    BY WorkerFate, WorkerWrites
  <2>2. pc[w] = "complete"
    BY <1>3, <2>1
       DEF Fate, Received, Processed, Advanced, Onward, Caught, Returned,
           ReturnLabels, Abandoned, Detached, PastLabels, TryLabels
  <2> QED
    BY <1>2, <2>1, <2>2 DEF Writes, WritesNothing, SilentLabels, PastLabels, TryLabels
<1> QED
  BY <1>2, <1>3 DEF ResultLabels, PastLabels, TryLabels

OrphanInv == LifecycleInv /\ CompletedPast

LEMMA OrphanInit == Init => OrphanInv
BY LifecycleInit DEF OrphanInv, CompletedPast, Init, PastLabels, TryLabels

LEMMA OrphanStep == OrphanInv /\ [Next]_vars => OrphanInv'
<1> SUFFICES ASSUME OrphanInv, [Next]_vars PROVE CompletedPast'
  BY LifecycleStep DEF OrphanInv
<1>t. TypeOK /\ TypeOK' /\ DbTypeOK
  BY NextTyped DEF OrphanInv, LifecycleInv, ExclusiveInv, TypeOK
<1> SUFFICES ASSUME NEW w \in Workers, pc'[w] \in PastLabels
             PROVE  StatusOf(Step(w))' = "completed"
  BY DEF CompletedPast
<1> PICK k : k = Step(w)
  OBVIOUS
<1>s. ASSUME msg'[w] = msg[w], StatusOf(k)' = "completed"
      PROVE  StatusOf(Step(w))' = "completed"
  <2>1. Step(w)' = k
    BY <1>s DEF Step
  <2> QED
    BY <1>s, <2>1 DEF StatusOf, Exists
<1>1. ASSUME pc[w] \in PastLabels, msg'[w] = msg[w]
      PROVE  StatusOf(Step(w))' = "completed"
  <2>1. StatusOf(k) = "completed"
    BY <1>1 DEF OrphanInv, CompletedPast
  <2>2. ~\E v \in Workers : GivesUp(v, k)
    BY <1>1 DEF GivesUp, OrphanInv, LifecycleInv, ExclusiveInv, ExclusiveExecution,
                Owns, OwnerLabels, PastLabels, TryLabels
  <2>3. StatusOf(k)' = "completed"
    BY <1>t, <2>1, <2>2, StatusIsKept DEF StatusKept
  <2> QED
    BY <1>1, <1>s, <2>3
<1>2. ASSUME msg'[w] = msg[w], pc[w] = "complete", MarkStepCompleted(k, Output(w))
      PROVE  StatusOf(Step(w))' = "completed"
  <2>1. StatusOf(k) = "running"
    BY <1>2 DEF OrphanInv, LifecycleInv, RunningUntilCompleted, WorkLabels
  <2>2. Exists(k)
    BY <2>1 DEF StatusOf
  <2>3. StatusOf(k)' = "completed"
    BY <1>t, <1>2, <2>2, CompleteSetsStatus
  <2> QED
    BY <1>2, <1>s, <2>3
<1> QED
  BY <1>t, <1>1, <1>2, MovesOrStays, PastCameFrom

(***************************************************************************)
(* A step becomes an orphan when its handler dies or fails outside the try *)
(* block, between the claim and the end of the handler: nothing else gives *)
(* a running step up.                                                      *)
(***************************************************************************)
LEMMA OrphanMade ==
  ASSUME OrphanInv, NEW w \in Workers, Moves(w), NEW k, k \in Orphans', k \notin Orphans
  PROVE  /\ k = Step(w)
         /\ faults' = faults + 1
         /\ "crash" \in FaultKinds \/ pc[w] \in FaultLabels \ TryLabels
<1>t. TypeOK /\ DbTypeOK
  BY DEF OrphanInv, LifecycleInv, ExclusiveInv, TypeOK
<1>f. Fate(w) /\ (Writes(w) \/ WritesNothing(w)) /\ TableEffect(w)
  BY <1>t, WorkerFate, WorkerWrites, WorkerTableEffect DEF Moves
<1>o. \A v \in Workers \ {w} : pc'[v] = pc[v] /\ msg'[v] = msg[v]
  BY <1>t, OthersStay DEF Moves
<1>k. StatusOf(k)' = "running" /\ \A v \in Workers : ~Owns(v, k)'
  BY DEF Orphans, StatusOf, Exists
<1>1. CASE StatusOf(k) = "running"
  <2>1. PICK v \in Workers : Owns(v, k)
    BY <1>1 DEF Orphans, StatusOf, Exists
  <2>2. v = w
    BY <1>k, <1>o, <2>1 DEF Owns, Step
  <2>3. pc[w] \in OwnerLabels /\ Step(w) = k
    BY <2>1, <2>2 DEF Owns
  <2>4. pc'[w] \notin OwnerLabels
    <3>1. ASSUME pc'[w] \in OwnerLabels PROVE Owns(w, k)'
      <4>1. msg'[w] = msg[w]
        BY <1>t, <3>1, OwnershipIsClaimed DEF Moves
      <4> QED
        BY <2>3, <3>1, <4>1 DEF Owns, Step
    <3> QED
      BY <1>k, <3>1
  <2>5. ~Returned(w)
    <3>1. Returned(w) => pc[w] \in PastLabels
      BY <2>3 DEF Returned, ReturnLabels, PastLabels, OwnerLabels, TryLabels
    <3> QED
      BY <1>1, <2>3, <3>1 DEF OrphanInv, CompletedPast
  <2>6. ~Advanced(w)
    <3>1. Advanced(w) => pc[w] = "except" /\ pc'[w] = "except_event"
      BY <2>3, <2>4
         DEF Advanced, Onward, AfterComplete, AfterOverride, OwnerLabels, TryLabels
    <3>2. Advanced(w) => MarkStepFailed(k)
      BY <1>f, <2>3, <3>1 DEF Writes, WritesNothing, SilentLabels
    <3>3. MarkStepFailed(k) => StatusOf(k)' = "failed"
      BY <1>t, <1>1 DEF MarkStepFailed, StatusOf, Exists, DbTypeOK, StepRow
    <3> QED
      BY <1>k, <3>2, <3>3
  <2>7. Abandoned(w) /\ pc[w] # "except_event"
    BY <1>f, <2>3, <2>4, <2>5, <2>6
       DEF Fate, Received, Processed, Caught, Detached, OwnerLabels, TryLabels
  <2> QED
    BY <2>3, <2>7 DEF Abandoned
<1>2. CASE StatusOf(k) # "running"
  <2>1. pc[w] = "claim" /\ ClaimStepForProcessing(Step(w)) /\ k = Step(w) /\ Claimable(k)
    <3>1. ~UNCHANGED steps
      BY <1>2, <1>k DEF StatusOf, Exists
    <3>2. ASSUME NEW j, NEW a, CreateWorkflowStep(j, a) PROVE FALSE
      BY <1>2, <1>k, <3>2, CreateIsPending
    <3>3. ASSUME MarkStepCompleted(Step(w), Output(w)) PROVE FALSE
      <4>1. Exists(k)
        BY <1>k, <3>3 DEF MarkStepCompleted, StatusOf, Exists
      <4> QED
        BY <1>2, <1>k, <1>t, <3>3, <4>1, CompleteSetsStatus
    <3>4. ASSUME MarkStepFailed(Step(w)) PROVE FALSE
      BY <1>2, <1>k, <1>t, <3>4 DEF MarkStepFailed, StatusOf, Exists, DbTypeOK, StepRow
    <3>5. pc[w] = "claim" /\ ClaimStepForProcessing(Step(w))
      BY <1>f, <3>1, <3>2, <3>3, <3>4 DEF TableEffect
    <3> QED
      BY <1>2, <1>k, <1>t, <3>5, ClaimSetsStatus
  <2>2. ~Advanced(w)
    <3>1. Advanced(w) => pc'[w] = "start" /\ msg'[w] = msg[w]
      BY <2>1 DEF Advanced, Onward, Sends, queueVars
    <3>2. Advanced(w) => Owns(w, k)'
      BY <2>1, <3>1 DEF Owns, Step, OwnerLabels
    <3> QED
      BY <1>k, <3>2
  <2>3. ~Detached(w)
    BY <1>2, <1>k DEF Detached, dbVars, StatusOf, Exists
  <2>4. Abandoned(w)
    BY <1>f, <2>1, <2>2, <2>3
       DEF Fate, Received, Processed, Caught, TryLabels, Returned, ReturnLabels
  <2> QED
    BY <2>1, <2>4 DEF Abandoned
<1> QED
  BY <1>1, <1>2

LEMMA FaultsCount ==
  ASSUME TypeOK, [Next]_vars
  PROVE  faults' \in {faults, faults + 1}
<1>1. ASSUME NEW w \in Workers, Moves(w) PROVE faults' \in {faults, faults + 1}
  <2>1. Fate(w)
    BY <1>1, WorkerFate
  <2> QED
    BY <2>1 DEF Fate, Received, Processed, Advanced, Caught, Returned, Abandoned,
                Detached
<1>2. ASSUME NEW r \in Runs, RequestMoves(r) PROVE faults' \in {faults, faults + 1}
  BY <1>2, RequestFate
<1> QED
  BY <1>1, <1>2, NextCases DEF vars

\* A step of the system makes one orphan at most, and for a fault.
LEMMA OrphansGrow ==
  ASSUME OrphanInv, [Next]_vars
  PROVE  \/ Orphans' \subseteq Orphans
         \/ /\ \E k : Orphans' \subseteq Orphans \cup {k}
            /\ faults' = faults + 1
            /\ "crash" \in FaultKinds \/ ~(FaultLabels \subseteq TryLabels)
<1>t. TypeOK
  BY DEF OrphanInv, LifecycleInv, ExclusiveInv
<1>1. CASE UNCHANGED vars
  BY <1>1 DEF vars, dbVars, queueVars, Orphans, Owns, Step
<1>2. ASSUME NEW r \in Runs, RequestMoves(r)
      PROVE  Orphans' \subseteq Orphans
  <2> SUFFICES ASSUME NEW k \in Orphans' PROVE k \in Orphans
    OBVIOUS
  <2>1. StatusOf(k)' = "running" /\ \A w \in Workers : ~Owns(w, k)'
    BY DEF Orphans, StatusOf, Exists
  <2>2. StatusOf(k) = "running"
    BY <1>t, <1>2, <2>1, RequestCreates
  <2>3. UNCHANGED <<pc, msg>>
    BY <1>t, <1>2, RequestEffect DEF RequestMoves
  <2> QED
    BY <2>1, <2>2, <2>3 DEF Orphans, StatusOf, Exists, Owns, Step
<1>3. ASSUME NEW w \in Workers, Moves(w)
      PROVE  \/ Orphans' \subseteq Orphans
             \/ /\ \E k : Orphans' \subseteq Orphans \cup {k}
                /\ faults' = faults + 1
                /\ "crash" \in FaultKinds \/ ~(FaultLabels \subseteq TryLabels)
  <2>1. Orphans' \subseteq Orphans \cup {Step(w)}
    BY <1>3, OrphanMade
  <2> QED
    BY <1>3, <2>1, OrphanMade
<1> QED
  BY <1>1, <1>2, <1>3, NextCases

\* A finite set that is no larger than a counter, and gets one more element at
\* most and only when the counter counts.
LEMMA CountGrows ==
  ASSUME NEW S, NEW T, NEW n \in Nat, NEW next \in {n, n + 1},
         IsFiniteSet(S), Cardinality(S) <= n,
         T \subseteq S \/ ((\E k : T \subseteq S \cup {k}) /\ next = n + 1)
  PROVE  IsFiniteSet(T) /\ Cardinality(T) <= next
<1>c. Cardinality(S) \in Nat
  BY FS_CardinalityType
<1>1. CASE T \subseteq S
  <2>1. IsFiniteSet(T) /\ Cardinality(T) <= Cardinality(S)
    BY <1>1, FS_Subset
  <2>2. Cardinality(T) \in Nat
    BY <2>1, FS_CardinalityType
  <2> QED
    BY <1>c, <2>1, <2>2
<1>2. ASSUME NEW k, T \subseteq S \cup {k}, next = n + 1
      PROVE  IsFiniteSet(T) /\ Cardinality(T) <= next
  <2>1. /\ IsFiniteSet(S \cup {k})
        /\ Cardinality(S \cup {k}) \in {Cardinality(S), Cardinality(S) + 1}
    BY FS_AddElement
  <2>2. IsFiniteSet(T) /\ Cardinality(T) <= Cardinality(S \cup {k})
    BY <1>2, <2>1, FS_Subset
  <2>3. Cardinality(T) \in Nat
    BY <2>2, FS_CardinalityType
  <2> QED
    BY <1>2, <1>c, <2>1, <2>2, <2>3
<1> QED
  BY <1>1, <1>2

OrphansCounted == IsFiniteSet(Orphans) /\ OrphansNeedFaults

(***************************************************************************)
(* There are never more orphaned steps than faults have happened, for any  *)
(* number of each: redeliveries and replicas do not multiply them.         *)
(***************************************************************************)
THEOREM OrphansNeedFaultsHolds == Spec => []OrphansNeedFaults
<1>1. Init => OrphanInv /\ OrphansCounted
  <2> SUFFICES ASSUME Init PROVE OrphansCounted
    BY OrphanInit
  <2>1. Orphans = {} /\ faults = 0
    BY DEF Init, DbInit, Orphans
  <2> QED
    BY <2>1, FS_EmptySet DEF OrphansCounted, OrphansNeedFaults
<1>2. OrphanInv /\ OrphansCounted /\ [Next]_vars => OrphanInv' /\ OrphansCounted'
  <2> SUFFICES ASSUME OrphanInv, OrphansCounted, [Next]_vars PROVE OrphansCounted'
    BY OrphanStep
  <2>t. TypeOK /\ faults \in Nat
    BY FaultAssumption DEF OrphanInv, LifecycleInv, ExclusiveInv, TypeOK
  <2>f. faults' \in {faults, faults + 1}
    BY <2>t, FaultsCount
  <2> QED
    BY <2>t, <2>f, OrphansGrow, CountGrows DEF OrphansCounted, OrphansNeedFaults
<1>3. OrphansCounted => OrphansNeedFaults
  BY DEF OrphansCounted
<1> QED
  BY <1>1, <1>2, <1>3, PTL DEF Spec

NoOrphans == Orphans = {}

(***************************************************************************)
(* When no handler dies, and calls fail only inside the try block, every   *)
(* running step has a handler, however many calls fail and channels close. *)
(***************************************************************************)
THEOREM RunningStepsAreOwnedHolds ==
  ASSUME "crash" \notin FaultKinds, FaultLabels \subseteq TryLabels
  PROVE  Spec => []RunningStepsAreOwned
<1>1. Init => OrphanInv /\ NoOrphans
  BY OrphanInit DEF Init, DbInit, NoOrphans, Orphans
<1>2. OrphanInv /\ NoOrphans /\ [Next]_vars => OrphanInv' /\ NoOrphans'
  BY OrphanStep, OrphansGrow DEF NoOrphans
<1>3. NoOrphans => RunningStepsAreOwned
  BY DEF NoOrphans, Orphans, RunningStepsAreOwned, StatusOf, Exists
<1> QED
  BY <1>1, <1>2, <1>3, PTL DEF Spec
-----------------------------------------------------------------------------
(***************************************************************************)
(* A step is attended while its handlers have open channels, each with a   *)
(* message of its own, and while a failed one has a message that nobody is *)
(* about to acknowledge.  That is Delivered and KeptForRetry for a single  *)
(* step, which survive the faults that hit other steps.                    *)
(***************************************************************************)
Works(w, k) == pc[w] # "idle" /\ Step(w) = k

Connected(k) ==
  /\ \A w \in Workers : Works(w, k) => linked[w] /\ msg[w] \in queue
  /\ \A v, w \in Workers :
       v # w /\ Works(v, k) /\ Works(w, k) => msg[v] # msg[w]

RetryKept(k) ==
  StatusOf(k) = "failed" =>
    \E m \in queue : /\ m.step = k
                     /\ \A w \in Workers : pc[w] = "skip" => msg[w] # m

Attended(k) == Connected(k) /\ RetryKept(k)

Neglected == {k \in StepKey : ~Attended(k) \/ k \in Orphans}

LEMMA RequestAttends ==
  ASSUME TypeOK, NEW r \in Runs, RequestMoves(r), NEW k, Attended(k)
  PROVE  Attended(k)'
<1>1. UNCHANGED <<pc, msg, linked>> /\ queue \subseteq queue'
  BY RequestFate DEF RequestCalls, Publish, queueVars
<1>2. StatusOf(k)' \in {StatusOf(k), "pending"}
  BY RequestCreates
<1>3. Connected(k)'
  BY <1>1 DEF Attended, Connected, Works, Step
<1>4. RetryKept(k)'
  BY <1>1, <1>2 DEF Attended, RetryKept
<1> QED
  BY <1>3, <1>4 DEF Attended

\* A worker takes no channel and no message from a step it does not detach.
LEMMA ConnectedStays ==
  ASSUME TypeOK, NEW u \in Workers, Moves(u), NEW k, Connected(k),
         ~(Detached(u) /\ Step(u) = k)
  PROVE  Connected(k)'
<1>o. \A w \in Workers \ {u} :
        pc'[w] = pc[w] /\ msg'[w] = msg[w] /\ linked'[w] = linked[w]
  BY OthersStay DEF Moves
<1>w. \A w \in Workers : msg'[w] = msg[w] /\ pc[w] # "idle" =>
                           (Works(w, k)' => Works(w, k))
  BY DEF Works, Step
<1>v. \A w \in Workers \ {u} : Works(w, k)' => Works(w, k)
  BY <1>o DEF Works, Step
<1>1. CASE Received(u)
  <2>1. linked' = [linked EXCEPT ![u] = TRUE] /\ queue' = queue
    BY <1>1 DEF Received, Deliver
  <2>2. PICK m \in Ready(Service[u]) : msg' = [msg EXCEPT ![u] = m]
    BY <1>1 DEF Received, Deliver
  <2>3. /\ linked'[u] /\ msg'[u] \in queue
        /\ \A w \in Workers : linked[w] => msg[w] # msg'[u]
    BY <2>1, <2>2 DEF Ready, TypeOK, QueueTypeOK
  <2> QED
    BY <1>o, <1>v, <2>1, <2>3 DEF Connected
<1>2. CASE Keeps(u)
  BY <1>o, <1>v, <1>w, <1>2 DEF Connected, Keeps
<1>3. CASE Returned(u) \/ Abandoned(u)
  <2>1. pc[u] # "idle" /\ ~Works(u, k)' /\ queue \ {msg[u]} \subseteq queue'
    BY <1>3 DEF Returned, ReturnLabels, Abandoned, Acknowledge, Requeue, Works
  <2>2. \A w \in Workers \ {u} : Works(w, k) => msg[w] # msg[u]
    BY <2>1 DEF Connected, Works, Step
  <2> QED
    BY <1>o, <1>v, <2>1, <2>2 DEF Connected
<1>4. CASE Detached(u)
  <2>1. UNCHANGED <<pc, msg, queue>> /\ ~Works(u, k)
    BY <1>4 DEF Detached, CloseChannel, Works
  <2>2. \A w \in Workers : Works(w, k)' <=> Works(w, k)
    BY <2>1 DEF Works, Step
  <2> QED
    BY <1>o, <2>1, <2>2 DEF Connected
<1> QED
  BY <1>1, <1>2, <1>3, <1>4, MessageFate

LEMMA RetryStaysKept ==
  ASSUME ExclusiveInv, NEW u \in Workers, Moves(u), NEW k, Attended(k)
  PROVE  RetryKept(k)'
<1>t. TypeOK /\ pc \in [Workers -> Labels]
  BY DEF ExclusiveInv, TypeOK, WorkerTypeOK
<1> SUFFICES ASSUME StatusOf(k)' = "failed"
             PROVE  \E m \in queue' :
                      /\ m.step = k
                      /\ \A w \in Workers : pc'[w] = "skip" => msg'[w] # m
  BY DEF RetryKept
<1>o. \A w \in Workers \ {u} : pc'[w] = pc[w] /\ msg'[w] = msg[w]
  BY <1>t, OthersStay DEF Moves
<1>1. CASE pc[u] = "except" /\ Step(u) = k /\ queue' = queue
           /\ pc'[u] \in {"except_event", "idle"}
  \* u has just failed the step: its own message retries it.
  <2>1. msg[u] \in queue' /\ msg[u].step = k /\ Works(u, k)
    BY <1>1 DEF Attended, Connected, Works, Step
  <2>2. \A w \in Workers \ {u} : pc[w] = "skip" => msg[w] # msg[u]
    BY <2>1 DEF Attended, Connected, Works, Step
  <2> QED
    BY <1>o, <1>1, <2>1, <2>2
<1>2. CASE StatusOf(k) = "failed"
  <2>1. PICK m \in queue :
          m.step = k /\ \A w \in Workers : pc[w] = "skip" => msg[w] # m
    BY <1>2 DEF Attended, RetryKept
  <2>2. m \in queue'
    <3>1. ASSUME Returned(u), msg[u] = m PROVE FALSE
      <4>1. pc[u] \in ReturnLabels \ {"skip"} /\ Step(u) = k
        BY <2>1, <3>1 DEF Returned, Step
      <4>2. StatusOf(k) \in {"running", "completed"}
        BY <4>1 DEF ExclusiveInv, OwnedIsHeld, OwnerLabels, TryLabels, ReturnLabels
      <4> QED
        BY <1>2, <4>2
    <3> QED
      BY <1>t, <3>1, MessageFate
         DEF Received, Deliver, Keeps, Returned, Acknowledge, Abandoned, Requeue,
             Detached, CloseChannel
  <2>3. pc'[u] = "skip" => msg'[u] # m
    <3> SUFFICES ASSUME pc'[u] = "skip", msg'[u] = m PROVE FALSE
      OBVIOUS
    <3>0. Fate(u)
      BY <1>t, WorkerFate
    <3>1. CASE Detached(u)
      BY <2>1, <3>1 DEF Detached, CloseChannel
    <3>2. CASE Advanced(u)
      <4>1. pc[u] = "claim" /\ ~Claimable(Step(u)) /\ msg' = msg
        BY <3>2 DEF Advanced, Onward, AfterComplete, AfterOverride, Sends, queueVars
      <4> QED
        BY <1>2, <2>1, <4>1 DEF Claimable, Step
    <3> QED
      BY <3>0, <3>1, <3>2
         DEF Fate, Received, Processed, Caught, Returned, Abandoned
  <2> QED
    BY <1>o, <2>1, <2>2, <2>3
<1> QED
  BY <1>t, <1>1, <1>2, FailedByItsOwner

\* A step of the system neglects one step at most, and for a fault.
LEMMA NeglectGrows ==
  ASSUME OrphanInv, [Next]_vars
  PROVE  \/ Neglected' \subseteq Neglected
         \/ /\ \E k : Neglected' \subseteq Neglected \cup {k}
            /\ faults' = faults + 1
<1>t. TypeOK /\ ExclusiveInv
  BY DEF OrphanInv, LifecycleInv, ExclusiveInv
<1>1. CASE UNCHANGED vars
  BY <1>1 DEF vars, dbVars, queueVars, Neglected, Attended, Connected, RetryKept,
              Works, Step, StatusOf, Exists, Orphans, Owns
<1>2. ASSUME NEW r \in Runs, RequestMoves(r)
      PROVE  \/ Neglected' \subseteq Neglected
             \/ /\ \E k : Neglected' \subseteq Neglected \cup {k}
                /\ faults' = faults + 1
  <2>1. \A k : Attended(k) => Attended(k)'
    BY <1>t, <1>2, RequestAttends
  <2> QED
    BY <2>1, OrphansGrow DEF Neglected
<1>3. ASSUME NEW w \in Workers, Moves(w), NEW k \in Neglected', k \notin Neglected
      PROVE  k = Step(w) /\ faults' = faults + 1
  <2>1. k \in StepKey /\ Attended(k) /\ k \notin Orphans
    BY <1>3 DEF Neglected
  <2>2. CASE k \in Orphans'
    BY <1>3, <2>1, <2>2, OrphanMade
  <2>3. CASE ~Attended(k)'
    <3>1. RetryKept(k)'
      BY <1>t, <1>3, <2>1, RetryStaysKept
    <3>2. ~Connected(k)'
      BY <2>3, <3>1 DEF Attended
    <3>3. Detached(w) /\ Step(w) = k
      BY <1>t, <1>3, <2>1, <3>2, ConnectedStays DEF Attended
    <3> QED
      BY <3>3 DEF Detached
  <2> QED
    BY <1>3, <2>2, <2>3 DEF Neglected
<1>4. ASSUME NEW w \in Workers, Moves(w)
      PROVE  \/ Neglected' \subseteq Neglected
             \/ /\ \E k : Neglected' \subseteq Neglected \cup {k}
                /\ faults' = faults + 1
  <2>1. Neglected' \subseteq Neglected \cup {Step(w)}
    BY <1>3, <1>4
  <2> QED
    BY <1>3, <1>4, <2>1
<1> QED
  BY <1>1, <1>2, <1>4, NextCases

NeglectCounted == IsFiniteSet(Neglected) /\ Cardinality(Neglected) <= faults

(***************************************************************************)
(* Whatever channels close, calls fail and workers die, there are never    *)
(* more steps that nobody will end, running without a handler or failed    *)
(* without a message, than faults have happened: the redelivery that a     *)
(* lost channel causes costs no step but the one it is about.              *)
(***************************************************************************)
THEOREM LostStepsNeedFaultsHolds == Spec => []LostStepsNeedFaults
<1>1. Init => OrphanInv /\ NeglectCounted
  <2> SUFFICES ASSUME Init PROVE NeglectCounted
    BY OrphanInit
  <2>1. Neglected = {} /\ faults = 0
    BY DEF Init, DbInit, Neglected, Orphans, Attended, Connected, RetryKept, Works,
           StatusOf, Exists
  <2> QED
    BY <2>1, FS_EmptySet DEF NeglectCounted
<1>2. OrphanInv /\ NeglectCounted /\ [Next]_vars => OrphanInv' /\ NeglectCounted'
  <2> SUFFICES ASSUME OrphanInv, NeglectCounted, [Next]_vars PROVE NeglectCounted'
    BY OrphanStep
  <2>1. faults \in Nat /\ faults' \in {faults, faults + 1}
    BY FaultAssumption, FaultsCount DEF OrphanInv, LifecycleInv, ExclusiveInv, TypeOK
  <2> QED
    BY <2>1, NeglectGrows, CountGrows DEF NeglectCounted
<1>3. OrphanInv /\ NeglectCounted => LostStepsNeedFaults
  <2> SUFFICES ASSUME OrphanInv, NeglectCounted PROVE LostStepsNeedFaults
    OBVIOUS
  <2>1. DOMAIN steps \subseteq StepKey /\ faults \in Nat
    BY FaultAssumption DEF OrphanInv, LifecycleInv, ExclusiveInv, TypeOK, DbTypeOK
  <2>2. Lost \subseteq Neglected
    BY <2>1 DEF Lost, Neglected, Orphans, Attended, RetryKept, StatusOf, Exists
  <2>3. IsFiniteSet(Lost) /\ Cardinality(Lost) <= Cardinality(Neglected)
    BY <2>2, FS_Subset DEF NeglectCounted
  <2>4. Cardinality(Lost) \in Nat /\ Cardinality(Neglected) \in Nat
    BY <2>3, FS_CardinalityType DEF NeglectCounted
  <2> QED
    BY <2>1, <2>3, <2>4 DEF NeglectCounted, LostStepsNeedFaults
<1> QED
  BY <1>1, <1>2, <1>3, PTL DEF Spec
===========================================================================
