-------------------------- MODULE StrandingProofs --------------------------
(***************************************************************************)
(* Proof that a run loses its work to faults alone: how far the work of a  *)
(* run that no fault has hit is, for any number of runs, workers and       *)
(* faults and any handlers whose hand-offs go forward.                     *)
(***************************************************************************)
EXTENDS DeliveryProofs

(***************************************************************************)
(* The run of a message that a worker is handling.                         *)
(***************************************************************************)
Handles(w, r) == pc[w] # "idle" /\ Step(w).run = r

\* The labels of a handler that has handed the work of its run on.
SentLabels == {"failure_event", "publish_event"}

\* The messages of run r that are yet to be handed on or acknowledged.
Live(r) == {m \in queue : /\ m.step.run = r
                          /\ \A w \in Workers : pc[w] \in SentLabels => msg[w] # m}

(***************************************************************************)
(* Hand-offs go forward: each result that a handler can act on names a     *)
(* step type that comes later in some order, or one of the detours back.   *)
(***************************************************************************)
HandOff(next, attempt) == [type |-> next, attempt |-> attempt]

Forward(rank, back) ==
  \A t \in StepType, c \in Content : \A res \in Results(t, c) :
    /\ res.next # None /\ (res.override = None \/ StatusNameBound) =>
         \/ rank[t] < rank[res.next]
         \/ HandOff(res.next, res.attempt) \in back
    /\ res.failure => rank[t] < rank["failure_routing"]

\* Run r has taken a detour.
Detoured(r, back) ==
  \E k \in DOMAIN steps : k.run = r /\ HandOff(k.type, k.attempt) \in back

(***************************************************************************)
(* A worker that acts on a result has it from its handler, and has looked  *)
(* at what it does.                                                        *)
(***************************************************************************)
ResultsReturned ==
  \A w \in Workers :
    /\ pc[w] \in ResultLabels =>
         result[w] \in Results(Step(w).type, msg[w].input.content)
    /\ pc[w] \in {"failure_step", "failure_publish"} => result[w].failure
    /\ pc[w] \in {"next_step", "publish"} =>
         result[w].next # None /\ (result[w].override = None \/ StatusNameBound)

TagsCount == \A m \in queue : m.tag <= published

(***************************************************************************)
(* One message at a time carries the work of run r.                        *)
(***************************************************************************)
OneCarrier(r) ==
  /\ \A w \in Workers : Handles(w, r) => linked[w] /\ msg[w] \in queue
  /\ \A v, w \in Workers :
       v # w /\ Handles(v, r) /\ Handles(w, r) => msg[v] # msg[w]
  /\ \A m, n \in Live(r) : m = n

Unsent == {"create_run", "create_input", "create_step", "publish_first"}

\* While run r is being submitted it has no message, and no step but its first.
Submission(r) ==
  /\ request[r] # "error"
  /\ request[r] \in Unsent =>
       /\ \A m \in queue : m.step.run # r
       /\ \A k \in DOMAIN steps :
            k.run = r => request[r] = "publish_first" /\ k = FirstStep(r)
  /\ request[r] = "publish_first" => StatusOf(FirstStep(r)) = "pending"

Decided(r) == runs[r] \in {"completed", "failed"}

\* Once submitted, it has a message or a verdict.
Carried(r) ==
  request[r] \notin Unsent => Live(r) # {} \/ Decided(r)

\* Its handlers find their steps as they need them.
OnTime(w, r) ==
  /\ pc[w] # "skip"
  /\ pc[w] \in {"claim", "except_event"} => Claimable(Step(w))
  /\ pc[w] \in {"terminal_event", "failure_step", "failure_publish",
                "finish_event"} => Decided(r)
  /\ pc[w] = "publish" => StatusOf(NextStep(w)) = "pending"
  /\ pc[w] = "failure_publish" => StatusOf(FailureStep(w)) = "pending"

\* A message that nobody handles is for a step that may be claimed.
Waiting(r) ==
  \A m \in Live(r) :
    (\A w \in Workers : Handles(w, r) => msg[w] # m) => Claimable(m.step)

\* No step comes after the one the work is at, but the one about to be
\* handed on to.
Ordered(r, rank) ==
  \A m \in Live(r), k \in DOMAIN steps :
    k.run = r =>
      \/ rank[k.type] <= rank[m.step.type]
      \/ \E w \in Workers :
           /\ msg[w] = m
           /\ \/ pc[w] = "publish" /\ k = NextStep(w)
              \/ pc[w] = "failure_publish" /\ k = FailureStep(w)

OnCourse(r, rank) ==
  /\ OneCarrier(r) /\ Submission(r) /\ Carried(r) /\ Waiting(r)
  /\ \A w \in Workers : Handles(w, r) => OnTime(w, r)
  /\ Ordered(r, rank)

Adrift(rank, back) ==
  {r \in Runs : ~OnCourse(r, rank) /\ ~Detoured(r, back)}
-----------------------------------------------------------------------------
(***************************************************************************)
(* What a step leaves alone that is none of run r's.                       *)
(***************************************************************************)
StepsStay(r) ==
  \A k : k.run = r => (Exists(k)' <=> Exists(k)) /\ StatusOf(k)' = StatusOf(k)

QueueStays(r) == \A m : m.step.run = r => (m \in queue' <=> m \in queue)

WorkersStay(r) ==
  \A w \in Workers :
    \/ /\ pc'[w] = pc[w] /\ msg'[w] = msg[w]
       /\ linked'[w] = linked[w] /\ result'[w] = result[w]
    \/ ~Handles(w, r) /\ ~Handles(w, r)'

Untouched(r) == /\ StepsStay(r) /\ QueueStays(r) /\ WorkersStay(r)
                /\ runs'[r] = runs[r] /\ request'[r] = request[r]

LEMMA StatementsStay ==
  ASSUME DbTypeOK, NEW r, NEW j, j.run # r
  PROVE  /\ ClaimStepForProcessing(j) => StepsStay(r)
         /\ \A a : MarkStepCompleted(j, a) => StepsStay(r)
         /\ MarkStepFailed(j) => StepsStay(r)
         /\ \A a : CreateWorkflowStep(j, a) => StepsStay(r)
<1> SUFFICES ASSUME NEW k, k.run = r
             PROVE  LET same == (Exists(k)' <=> Exists(k)) /\ StatusOf(k)' = StatusOf(k)
                    IN  /\ ClaimStepForProcessing(j) => same
                        /\ \A a : MarkStepCompleted(j, a) => same
                        /\ MarkStepFailed(j) => same
                        /\ \A a : CreateWorkflowStep(j, a) => same
  BY Zenon DEF StepsStay
<1>1. k # j
  OBVIOUS
<1>2. ASSUME NEW a, CreateWorkflowStep(j, a)
      PROVE  (Exists(k)' <=> Exists(k)) /\ StatusOf(k)' = StatusOf(k)
  BY <1>1, <1>2 DEF CreateWorkflowStep, Exists, StatusOf
<1>3. ASSUME DOMAIN steps' = DOMAIN steps,
             Exists(k) => steps'[k].status = steps[k].status
      PROVE  (Exists(k)' <=> Exists(k)) /\ StatusOf(k)' = StatusOf(k)
  BY <1>3 DEF Exists, StatusOf
<1>4. ASSUME ClaimStepForProcessing(j) \/ MarkStepFailed(j)
      PROVE  (Exists(k)' <=> Exists(k)) /\ StatusOf(k)' = StatusOf(k)
  BY <1>1, <1>3, <1>4 DEF ClaimStepForProcessing, MarkStepFailed, Exists, DbTypeOK
<1>5. ASSUME NEW a, MarkStepCompleted(j, a)
      PROVE  (Exists(k)' <=> Exists(k)) /\ StatusOf(k)' = StatusOf(k)
  BY <1>1, <1>3, <1>5 DEF MarkStepCompleted, Exists, DbTypeOK
<1> QED
  BY <1>2, <1>4, <1>5

\* What a handler or a request writes is about its own run.
LEMMA OtherRunsStay ==
  ASSUME TypeOK, NEW r \in Runs, NEW w \in Workers, Moves(w), ~Handles(w, r)
  PROVE  StepsStay(r) /\ runs'[r] = runs[r]
<1>t. DbTypeOK
  BY DEF TypeOK
<1>n. UNCHANGED steps => StepsStay(r)
  BY DEF StepsStay, Exists, StatusOf
<1>0. runs[r] = runs[r] /\ \A q, status : q # r /\ MarkWorkflow(q, status) => runs'[r] = runs[r]
  BY <1>t DEF MarkWorkflow, DbTypeOK
<1>1. CASE WritesNothing(w)
  BY <1>n, <1>1 DEF WritesNothing, dbVars
<1>2. CASE Writes(w)
  <2>1. pc[w] # "idle"
    BY <1>2 DEF Writes
  <2>2. Step(w).run # r /\ FailureStep(w).run # r /\ NextStep(w).run # r
    BY <2>1 DEF Handles, FailureStep, NextStep, FirstAttempt
  <2>3. ASSUME \/ ClaimStepForProcessing(Step(w)) \/ MarkStepCompleted(Step(w), Output(w))
               \/ CreateWorkflowStep(FailureStep(w), Output(w))
               \/ CreateWorkflowStep(NextStep(w), Output(w)) \/ MarkStepFailed(Step(w))
        PROVE  StepsStay(r) /\ runs'[r] = runs[r]
    <3>1. runs' = runs
      BY <2>3 DEF ClaimStepForProcessing, MarkStepCompleted, CreateWorkflowStep,
                  MarkStepFailed
    <3> QED
      BY <1>t, <2>2, <2>3, <3>1, StatementsStay
  <2>4. ASSUME NEW a, NEW type, CreateArtifact(a) \/ RecordEvent(Step(w), type)
        PROVE  StepsStay(r) /\ runs'[r] = runs[r]
    BY <1>n, <2>4 DEF CreateArtifact, RecordEvent
  <2>5. ASSUME NEW status, MarkWorkflow(Step(w).run, status)
        PROVE  StepsStay(r) /\ runs'[r] = runs[r]
    BY <1>n, <1>0, <2>2, <2>5 DEF MarkWorkflow
  <2> QED
    BY <1>2, <2>3, <2>4, <2>5 DEF Writes
<1> QED
  BY <1>1, <1>2, WorkerWrites

LEMMA PublishElsewhere ==
  ASSUME NEW r, NEW k, k.run # r, NEW a, Publish(k, a)
  PROVE  QueueStays(r)
BY DEF Publish, QueueStays

LEMMA UntouchedByWorker ==
  ASSUME TypeOK, NEW r \in Runs, NEW w \in Workers, Moves(w),
         ~Handles(w, r), ~Handles(w, r)'
  PROVE  Untouched(r)
<1>1. StepsStay(r) /\ runs'[r] = runs[r] /\ request' = request
  BY OtherRunsStay, WorkerWrites
<1>2. WorkersStay(r)
  BY OthersStay DEF WorkersStay, Moves
<1>3. QueueStays(r)
  <2>0. queue' = queue => QueueStays(r)
    BY DEF QueueStays
  <2>1. Fate(w)
    BY WorkerFate
  <2>2. ASSUME Sends(w), pc[w] # "idle" PROVE QueueStays(r)
    <3>1. FailureStep(w).run # r /\ NextStep(w).run # r
      BY <2>2 DEF Handles, FailureStep, NextStep, FirstAttempt
    <3> QED
      BY <2>0, <2>2, <3>1, PublishElsewhere DEF Sends, queueVars
  <2>3. Returned(w) => QueueStays(r)
    <3>1. Returned(w) => msg[w].step.run # r
      BY DEF Returned, ReturnLabels, Handles, Step
    <3> QED
      BY <3>1 DEF Returned, Acknowledge, QueueStays
  <2> QED
    BY <2>0, <2>1, <2>2, <2>3
       DEF Fate, Received, Deliver, Processed, Advanced, Onward, Caught, TryLabels,
           Abandoned, Requeue, Detached, CloseChannel, queueVars
<1> QED
  BY <1>1, <1>2, <1>3 DEF Untouched

LEMMA UntouchedByRequest ==
  ASSUME TypeOK, NEW r \in Runs, NEW q \in Runs, q # r, RequestMoves(q)
  PROVE  Untouched(r)
<1>t. DbTypeOK /\ request \in [Runs -> RequestLabels]
  BY DEF TypeOK
<1>1. RequestCalls(q) /\ request'[r] = request[r] /\ UNCHANGED <<pc, result>>
  <2>1. RequestCalls(q) /\ request' = [request EXCEPT ![q] = request'[q]]
        /\ UNCHANGED <<pc, result>>
    BY RequestFate
  <2> QED
    BY <1>t, <2>1
<1>2. UNCHANGED <<msg, linked>>
  BY <1>1 DEF RequestCalls, Publish, queueVars
<1>3. WorkersStay(r)
  BY <1>1, <1>2 DEF WorkersStay
<1>4. FirstStep(q).run # r
  BY DEF FirstStep, FirstAttempt
<1>5. QueueStays(r)
  <2>1. queue' = queue => QueueStays(r)
    BY DEF QueueStays
  <2> QED
    BY <1>1, <1>4, <2>1, PublishElsewhere DEF RequestCalls, queueVars
<1>6. StepsStay(r) /\ runs'[r] = runs[r]
  <2>1. UNCHANGED steps => StepsStay(r)
    BY DEF StepsStay, Exists, StatusOf
  <2>2. CASE UNCHANGED steps /\ (UNCHANGED runs \/ CreateWorkflowRun(q))
    BY <1>t, <2>1, <2>2 DEF CreateWorkflowRun, DbTypeOK
  <2>3. CASE CreateWorkflowStep(FirstStep(q), Ticket(q))
    BY <1>t, <1>4, <2>3, StatementsStay DEF CreateWorkflowStep
  <2> QED
    BY <1>1, <2>2, <2>3
       DEF RequestCalls, CreateWorkflowRun, CreateArtifact, dbVars
<1> QED
  BY <1>1, <1>3, <1>5, <1>6 DEF Untouched

\* The messages of run r, its carriers and where they are, after a step that
\* leaves the run alone.
LEMMA UntouchedViews ==
  ASSUME NEW r, Untouched(r)
  PROVE  /\ \A w \in Workers :
              /\ Handles(w, r)' <=> Handles(w, r)
              /\ Handles(w, r) => /\ pc'[w] = pc[w] /\ msg'[w] = msg[w]
                                  /\ linked'[w] = linked[w] /\ result'[w] = result[w]
         /\ Live(r)' = Live(r)
         /\ \A k : k.run = r => (k \in DOMAIN steps' <=> k \in DOMAIN steps)
<1>1. \A w \in Workers :
        /\ Handles(w, r)' <=> Handles(w, r)
        /\ Handles(w, r) => /\ pc'[w] = pc[w] /\ msg'[w] = msg[w]
                            /\ linked'[w] = linked[w] /\ result'[w] = result[w]
  <2> SUFFICES ASSUME NEW w \in Workers
               PROVE  /\ Handles(w, r)' <=> Handles(w, r)
                      /\ Handles(w, r) => /\ pc'[w] = pc[w] /\ msg'[w] = msg[w]
                                          /\ linked'[w] = linked[w] /\ result'[w] = result[w]
    OBVIOUS
  <2>1. CASE /\ pc'[w] = pc[w] /\ msg'[w] = msg[w]
             /\ linked'[w] = linked[w] /\ result'[w] = result[w]
    BY <2>1 DEF Handles, Step
  <2>2. CASE ~Handles(w, r) /\ ~Handles(w, r)'
    BY <2>2
  <2> QED
    BY <2>1, <2>2 DEF Untouched, WorkersStay
<1>2. ASSUME NEW m, m.step.run = r
      PROVE  m \in Live(r)' <=> m \in Live(r)
  <2>1. m \in queue' <=> m \in queue
    BY <1>2 DEF Untouched, QueueStays
  <2>2. ASSUME NEW w \in Workers
        PROVE  (pc'[w] \in SentLabels /\ msg'[w] = m) <=> (pc[w] \in SentLabels /\ msg[w] = m)
    BY <1>1, <1>2, <2>2 DEF Handles, Step, SentLabels
  <2> QED
    BY <1>2, <2>1, <2>2 DEF Live
<1>3. \A m \in Live(r) : m.step.run = r
  BY DEF Live
<1>4. \A m \in Live(r)' : m.step.run = r
  BY DEF Live
<1> QED
  BY <1>1, <1>2, <1>3, <1>4 DEF Untouched, StepsStay, Exists

LEMMA UntouchedKeeps ==
  ASSUME TypeOK, NEW r \in Runs, NEW rank, OnCourse(r, rank), Untouched(r)
  PROVE  OnCourse(r, rank)'
<1>v. /\ \A w \in Workers :
           /\ Handles(w, r)' <=> Handles(w, r)
           /\ Handles(w, r) => /\ pc'[w] = pc[w] /\ msg'[w] = msg[w]
                               /\ linked'[w] = linked[w] /\ result'[w] = result[w]
      /\ Live(r)' = Live(r)
      /\ \A k : k.run = r => (k \in DOMAIN steps' <=> k \in DOMAIN steps)
  BY UntouchedViews
<1>s. \A k : k.run = r => StatusOf(k)' = StatusOf(k)
  BY DEF Untouched, StepsStay
<1>u. request'[r] = request[r] /\ runs'[r] = runs[r] /\ QueueStays(r)
  BY DEF Untouched
<1>f. FirstStep(r).run = r /\ FirstStep(r)' = FirstStep(r)
  BY DEF FirstStep, FirstAttempt
<1>1. OneCarrier(r)'
  <2>1. \A w \in Workers : Handles(w, r) => msg[w].step.run = r
    BY DEF Handles, Step
  <2> QED
    BY <1>v, <1>u, <2>1 DEF OnCourse, OneCarrier, QueueStays
<1>2. Submission(r)'
  <2>1. StatusOf(FirstStep(r))' = StatusOf(FirstStep(r))
    <3> PICK f : f = FirstStep(r)
      OBVIOUS
    <3>1. StatusOf(f)' = StatusOf(f)
      BY <1>s, <1>f
    <3> QED
      BY <1>f, <3>1 DEF StatusOf, Exists
  <2> QED
    BY <1>v, <1>u, <1>f, <2>1 DEF OnCourse, Submission, QueueStays
<1>3. Carried(r)'
  BY <1>v, <1>u DEF OnCourse, Carried, Decided
<1>4. Waiting(r)'
  <2>1. \A m \in Live(r) : m.step.run = r
    BY DEF Live
  <2>2. \A m \in Live(r) : StatusOf(m.step)' = StatusOf(m.step)
    BY <1>s, <2>1
  <2> QED
    BY <1>v, <2>2 DEF OnCourse, Waiting, Claimable, StatusOf, Exists
<1>5. ASSUME NEW w \in Workers, Handles(w, r)'
      PROVE  OnTime(w, r)'
  <2>1. Handles(w, r) /\ pc'[w] = pc[w] /\ msg'[w] = msg[w] /\ result'[w] = result[w]
    BY <1>v, <1>5
  <2>2. Step(w)' = Step(w) /\ NextStep(w)' = NextStep(w) /\ FailureStep(w)' = FailureStep(w)
    BY <2>1, HandOffStays
  <2>3. Step(w).run = r /\ NextStep(w).run = r /\ FailureStep(w).run = r
    BY <2>1 DEF Handles, NextStep, FailureStep, FirstAttempt
  <2>4. /\ StatusOf(Step(w))' = StatusOf(Step(w))
        /\ StatusOf(NextStep(w))' = StatusOf(NextStep(w))
        /\ StatusOf(FailureStep(w))' = StatusOf(FailureStep(w))
    <3> PICK k, n, f : k = Step(w) /\ n = NextStep(w) /\ f = FailureStep(w)
      OBVIOUS
    <3>1. StatusOf(k)' = StatusOf(k) /\ StatusOf(n)' = StatusOf(n) /\ StatusOf(f)' = StatusOf(f)
      BY <1>s, <2>3
    <3> QED
      BY <2>2, <3>1 DEF StatusOf, Exists
  <2>5. OnTime(w, r)
    BY <2>1 DEF OnCourse
  <2> QED
    BY <1>u, <2>1, <2>4, <2>5 DEF OnTime, Claimable, Decided
<1>6. Ordered(r, rank)'
  <2> SUFFICES ASSUME NEW m \in Live(r), NEW k \in DOMAIN steps', k.run = r
               PROVE  \/ rank[k.type] <= rank[m.step.type]
                      \/ \E w \in Workers :
                           /\ msg'[w] = m
                           /\ \/ pc'[w] = "publish" /\ k = NextStep(w)'
                              \/ pc'[w] = "failure_publish" /\ k = FailureStep(w)'
    BY <1>v DEF Ordered
  <2>1. CASE rank[k.type] <= rank[m.step.type]
    BY <2>1
  <2>2. ASSUME NEW w \in Workers, msg[w] = m,
               \/ pc[w] = "publish" /\ k = NextStep(w)
               \/ pc[w] = "failure_publish" /\ k = FailureStep(w)
        PROVE  /\ msg'[w] = m
               /\ \/ pc'[w] = "publish" /\ k = NextStep(w)'
                  \/ pc'[w] = "failure_publish" /\ k = FailureStep(w)'
    <3>1. Handles(w, r)
      BY <2>2 DEF Handles, Step, Live
    <3> QED
      BY <1>v, <2>2, <3>1, HandOffStays
  <2>3. k \in DOMAIN steps
    BY <1>v
  <2> QED
    BY <2>1, <2>2, <2>3 DEF OnCourse, Ordered
<1> QED
  BY <1>1, <1>2, <1>3, <1>4, <1>5, <1>6 DEF OnCourse
-----------------------------------------------------------------------------
(***************************************************************************)
(* The parts of the invariant that hold of every worker and every message. *)
(***************************************************************************)
ReturnInv == ExclusiveInv /\ ResultsReturned /\ TagsCount

LEMMA ReturnInit == Init => ReturnInv
BY ExclusiveInit
   DEF ReturnInv, Init, QueueInit, ResultsReturned, TagsCount, ResultLabels, TryLabels

LEMMA ReturnStep == ReturnInv /\ [Next]_vars => ReturnInv'
<1> SUFFICES ASSUME ReturnInv, [Next]_vars PROVE ResultsReturned' /\ TagsCount'
  BY ExclusiveStep DEF ReturnInv
<1>t. TypeOK
  BY DEF ReturnInv, ExclusiveInv
<1>1. ASSUME NEW w \in Workers
      PROVE  /\ pc'[w] \in ResultLabels =>
                  result'[w] \in Results(Step(w)'.type, msg'[w].input.content)
             /\ pc'[w] \in {"failure_step", "failure_publish"} => result'[w].failure
             /\ pc'[w] \in {"next_step", "publish"} =>
                  result'[w].next # None /\ (result'[w].override = None \/ StatusNameBound)
  <2>0. /\ pc[w] \in ResultLabels =>
             result[w] \in Results(Step(w).type, msg[w].input.content)
        /\ pc[w] \in {"failure_step", "failure_publish"} => result[w].failure
        /\ pc[w] \in {"next_step", "publish"} =>
             result[w].next # None /\ (result[w].override = None \/ StatusNameBound)
    BY DEF ReturnInv, ResultsReturned
  <2>1. CASE pc'[w] = pc[w] /\ msg'[w] = msg[w] /\ result'[w] = result[w]
    BY <2>0, <2>1 DEF Step
  <2>2. CASE Moves(w)
    <3>1. Fate(w)
      BY <1>t, <2>2, WorkerFate
    <3>2. CASE pc'[w] \in ResultLabels
      <4>1. /\ msg'[w] = msg[w]
            /\ \/ pc[w] \in ResultLabels /\ result'[w] = result[w]
               \/ pc[w] = "process" /\ pc'[w] = "store"
        BY <1>t, <2>2, <3>2, WorkerCameFrom
      <4>2. CASE pc[w] = "process" /\ pc'[w] = "store"
        <5>1. Processed(w)
          BY <3>1, <4>2 DEF Fate, Received, Advanced, Onward, Caught, Returned,
                            ReturnLabels, Abandoned, Detached
        <5> QED
          BY <4>1, <4>2, <5>1 DEF Processed, Step
      <4>3. CASE pc[w] \in ResultLabels /\ result'[w] = result[w]
        <5>1. pc'[w] \in {"failure_step", "failure_publish"} =>
                \/ pc[w] \in {"failure_step", "failure_publish"}
                \/ pc[w] = "terminal_event" /\ result[w].failure
          BY <3>1 DEF Fate, Received, Processed, Advanced, Onward, AfterComplete,
                      AfterOverride, Caught, Returned, Abandoned, Detached
        <5>2. pc'[w] \in {"next_step", "publish"} =>
                \/ pc[w] \in {"next_step", "publish"}
                \/ /\ result[w].next # None
                   /\ result[w].override = None \/ StatusNameBound
          BY <3>1 DEF Fate, Received, Processed, Advanced, Onward, AfterComplete,
                      AfterOverride, Caught, Returned, Abandoned, Detached
        <5> QED
          BY <2>0, <4>1, <4>3, <5>1, <5>2 DEF Step
      <4> QED
        BY <4>1, <4>2, <4>3
    <3> QED
      BY <3>2 DEF ResultLabels, TryLabels
  <2> QED
    BY <1>t, <2>1, <2>2, MovesOrStays
<1>2. TagsCount'
  <2>t. published \in Nat /\ \A m \in queue : m.tag \in Nat /\ m.tag <= published
    BY <1>t DEF TypeOK, QueueTypeOK, WorkflowMessage, ReturnInv, TagsCount
  <2>1. ASSUME queue' \subseteq queue, published' = published PROVE TagsCount'
    BY <2>t, <2>1 DEF TagsCount
  <2>2. ASSUME NEW k, NEW a, Publish(k, a) PROVE TagsCount'
    BY <2>t, <2>2 DEF Publish, TagsCount
  <2>3. ASSUME NEW w \in Workers, Moves(w) PROVE TagsCount'
    <3>1. Fate(w)
      BY <1>t, <2>3, WorkerFate
    <3>2. Sends(w) => TagsCount'
      BY <2>1, <2>2 DEF Sends, queueVars
    <3> QED
      BY <2>1, <3>1, <3>2
         DEF Fate, Received, Deliver, Processed, Advanced, Caught, Returned,
             Acknowledge, Abandoned, Requeue, Detached, CloseChannel, queueVars
  <2>4. ASSUME NEW r \in Runs, RequestMoves(r) PROVE TagsCount'
    BY <1>t, <2>1, <2>2, <2>4, RequestFate DEF RequestCalls, queueVars
  <2> QED
    BY <2>1, <2>3, <2>4, NextCases DEF vars, queueVars
<1> QED
  BY <1>1, <1>2 DEF ResultsReturned
-----------------------------------------------------------------------------
(***************************************************************************)
(* A handler that has not handed the work on has the one message of its    *)
(* run that is live; the others of the run have nothing left to do.        *)
(***************************************************************************)
LEMMA LiveCarrier ==
  ASSUME NEW r, OneCarrier(r), NEW u \in Workers, Handles(u, r), pc[u] \notin SentLabels
  PROVE  /\ Live(r) = {msg[u]}
         /\ \A v \in Workers : v # u /\ Handles(v, r) => pc[v] \in SentLabels
<1>1. ASSUME NEW v \in Workers, Handles(v, r), pc[v] \notin SentLabels
      PROVE  msg[v] \in Live(r)
  <2>1. msg[v] \in queue /\ msg[v].step.run = r
    BY <1>1 DEF OneCarrier, Handles, Step
  <2>2. ASSUME NEW w \in Workers, pc[w] \in SentLabels, msg[w] = msg[v] PROVE FALSE
    <3>1. Handles(w, r) /\ w # v
      BY <1>1, <2>1, <2>2 DEF Handles, Step, SentLabels
    <3> QED
      BY <1>1, <2>2, <3>1 DEF OneCarrier
  <2> QED
    BY <2>1, <2>2 DEF Live
<1>2. \A m \in Live(r) : m = msg[u]
  BY <1>1 DEF OneCarrier
<1>3. ASSUME NEW v \in Workers, v # u, Handles(v, r), pc[v] \notin SentLabels
      PROVE  FALSE
  BY <1>1, <1>3 DEF OneCarrier
<1> QED
  BY <1>1, <1>2, <1>3

LEMMA SentIsOnTime ==
  ASSUME NEW r, NEW w \in Workers, pc[w] \in SentLabels
  PROVE  OnTime(w, r)
BY DEF OnTime, SentLabels

OtherWorkersStay(u) ==
  \A v \in Workers \ {u} : /\ pc'[v] = pc[v] /\ msg'[v] = msg[v]
                           /\ linked'[v] = linked[v] /\ result'[v] = result[v]

\* The carrier goes on with the message it has.
LEMMA ProceedsKeeps ==
  ASSUME NEW r \in Runs, NEW rank, OnCourse(r, rank),
         NEW u \in Workers, OtherWorkersStay(u), Handles(u, r), request' = request,
         pc[u] \notin SentLabels, pc'[u] \notin SentLabels \cup {"idle"},
         msg'[u] = msg[u], linked'[u] = linked[u], queue' = queue,
         OnTime(u, r)', Ordered(r, rank)'
  PROVE  OnCourse(r, rank)'
<1>1. /\ Live(r) = {msg[u]}
      /\ \A v \in Workers : v # u /\ Handles(v, r) => pc[v] \in SentLabels
      /\ OneCarrier(r) /\ Submission(r)
  BY LiveCarrier DEF OnCourse
<1>2. \A v \in Workers : Handles(v, r)' <=> Handles(v, r)
  BY DEF OtherWorkersStay, Handles, Step
<1>3. \A v \in Workers : msg'[v] = msg[v] /\ linked'[v] = linked[v]
  BY DEF OtherWorkersStay
<1>4. \A v \in Workers : pc'[v] \in SentLabels <=> pc[v] \in SentLabels
  BY DEF OtherWorkersStay
<1>5. Live(r)' = Live(r)
  BY <1>3, <1>4 DEF Live
<1>6. OneCarrier(r)'
  BY <1>1, <1>2, <1>3, <1>5 DEF OneCarrier
<1>7. msg[u] \in queue /\ msg[u].step.run = r
  BY <1>1 DEF OneCarrier, Handles, Step
<1>8. Submission(r)' /\ Carried(r)'
  BY <1>1, <1>5, <1>7 DEF Submission, Carried, Unsent
<1>9. Waiting(r)'
  BY <1>1, <1>2, <1>3, <1>5 DEF Waiting
<1>10. ASSUME NEW v \in Workers, Handles(v, r)' PROVE OnTime(v, r)'
  <2>1. CASE v # u
    <3>1. pc'[v] \in SentLabels
      BY <1>1, <1>2, <1>4, <1>10, <2>1
    <3> QED
      BY <3>1 DEF OnTime, SentLabels
  <2> QED
    BY <2>1
<1> QED
  BY <1>6, <1>8, <1>9, <1>10 DEF OnCourse

\* It creates no step but the one it is about to hand on to.
LEMMA OrderedKept ==
  ASSUME NEW r \in Runs, NEW rank, OnCourse(r, rank),
         NEW u \in Workers, OtherWorkersStay(u), Handles(u, r),
         pc[u] \notin SentLabels \cup {"publish", "failure_publish"},
         pc'[u] \notin SentLabels,
         msg'[u] = msg[u], queue' = queue,
         \A k \in DOMAIN steps' :
           k.run = r => \/ k \in DOMAIN steps
                        \/ pc'[u] = "publish" /\ k = NextStep(u)'
                        \/ pc'[u] = "failure_publish" /\ k = FailureStep(u)'
  PROVE  Ordered(r, rank)'
<1>1. Live(r) = {msg[u]} /\ OneCarrier(r)
  BY LiveCarrier DEF OnCourse
<1>2. Live(r)' = Live(r)
  BY DEF Live, OtherWorkersStay
<1>3. ASSUME NEW k \in DOMAIN steps, k.run = r
      PROVE  rank[k.type] <= rank[msg[u].step.type]
  <2>1. ASSUME NEW w \in Workers, msg[w] = msg[u], pc[w] \in {"publish", "failure_publish"}
        PROVE  FALSE
    <3>1. w # u /\ Handles(w, r)
      BY <2>1 DEF Handles, Step
    <3> QED
      BY <1>1, <2>1, <3>1 DEF OneCarrier
  <2> QED
    BY <1>1, <1>3, <2>1 DEF OnCourse, Ordered
<1> SUFFICES ASSUME NEW k \in DOMAIN steps', k.run = r
             PROVE  \/ rank[k.type] <= rank[msg[u].step.type]
                    \/ \E w \in Workers :
                         /\ msg'[w] = msg[u]
                         /\ \/ pc'[w] = "publish" /\ k = NextStep(w)'
                            \/ pc'[w] = "failure_publish" /\ k = FailureStep(w)'
  BY <1>1, <1>2 DEF Ordered
<1> QED
  BY <1>3

\* It hands the work on: the new message takes its place.
LEMMA HandsOnKeeps ==
  ASSUME TypeOK, TagsCount, NEW r \in Runs, NEW rank \in [StepType -> Nat],
         OnCourse(r, rank),
         NEW u \in Workers, OtherWorkersStay(u), Handles(u, r),
         UNCHANGED <<dbVars, request>>,
         pc[u] \in {"publish", "failure_publish"}, pc'[u] \in SentLabels,
         msg'[u] = msg[u], linked'[u] = linked[u],
         NEW k \in StepKey, NEW a, Publish(k, a), k.run = r,
         k = IF pc[u] = "publish" THEN NextStep(u) ELSE FailureStep(u),
         StatusOf(k) = "pending", rank[Step(u).type] < rank[k.type]
  PROVE  OnCourse(r, rank)'
<1> DEFINE new == [tag |-> published + 1, step |-> k, input |-> a]
<1>n. queue' = queue \cup {new} /\ new.step = k /\ new.tag = published + 1
  BY DEF Publish
<1>f. new \notin queue
  <2>1. published \in Nat /\ \A m \in queue : m.tag \in Nat /\ m.tag <= published
    BY DEF TypeOK, QueueTypeOK, WorkflowMessage, TagsCount
  <2> QED
    BY <1>n, <2>1
<1> HIDE DEF new
<1>1. /\ Live(r) = {msg[u]}
      /\ \A v \in Workers : v # u /\ Handles(v, r) => pc[v] \in SentLabels
      /\ OneCarrier(r) /\ Submission(r)
  BY LiveCarrier DEF OnCourse, SentLabels
<1>2. \A v \in Workers : /\ Handles(v, r)' <=> Handles(v, r)
                         /\ msg'[v] = msg[v] /\ linked'[v] = linked[v]
  BY DEF OtherWorkersStay, Handles, Step, SentLabels
<1>3. msg[u] \in queue /\ msg[u].step.run = r
  BY <1>1 DEF OneCarrier, Handles, Step
<1>4. Live(r)' = {new}
  <2>1. ASSUME NEW v \in Workers, pc'[v] \in SentLabels, msg'[v] = new PROVE FALSE
    <3>1. msg[v] = new
      BY <1>2, <2>1
    <3>2. Handles(v, r)
      BY <1>2, <1>n, <2>1 DEF Handles, Step, SentLabels
    <3> QED
      BY <1>1, <1>f, <3>1, <3>2 DEF OneCarrier
  <2>2. ASSUME NEW m \in queue, m \in Live(r)' PROVE FALSE
    <3>1. m # msg[u]
      BY <1>2, <2>2 DEF Live
    <3>2. m \in Live(r)
      BY <1>2, <2>2 DEF Live, OtherWorkersStay, SentLabels
    <3> QED
      BY <1>1, <3>1, <3>2
  <2>3. new \in Live(r)'
    BY <1>n, <2>1 DEF Live
  <2> QED
    BY <1>n, <2>2, <2>3 DEF Live
<1>5. OneCarrier(r)'
  BY <1>1, <1>2, <1>4, <1>n DEF OneCarrier
<1>6. Submission(r)' /\ Carried(r)'
  BY <1>1, <1>3, <1>4 DEF Submission, Carried, Unsent
<1>7. Waiting(r)'
  BY <1>4, <1>n DEF Waiting, Claimable, StatusOf, Exists, dbVars
<1>8. ASSUME NEW v \in Workers, Handles(v, r)' PROVE OnTime(v, r)'
  <2>1. pc'[v] \in SentLabels
    BY <1>1, <1>2, <1>8 DEF OtherWorkersStay
  <2> QED
    BY <2>1 DEF OnTime, SentLabels
<1>9. Ordered(r, rank)'
  <2> SUFFICES ASSUME NEW j \in DOMAIN steps, j.run = r
               PROVE  rank[j.type] <= rank[k.type]
    BY <1>4, <1>n DEF Ordered, dbVars
  <2>1. j \in StepKey /\ Step(u) \in StepKey
    BY StepTyped DEF TypeOK, DbTypeOK, Handles
  <2>2. rank[j.type] \in Nat /\ rank[Step(u).type] \in Nat /\ rank[k.type] \in Nat
    BY <2>1 DEF StepKey
  <2>3. rank[j.type] <= rank[Step(u).type] \/ j = k
    <3>1. ASSUME NEW w \in Workers, msg[w] = msg[u], pc[w] \in {"publish", "failure_publish"}
          PROVE  w = u
      <4>1. Handles(w, r)
        BY <1>3, <3>1 DEF Handles, Step
      <4> QED
        BY <1>1, <3>1, <4>1 DEF OneCarrier
    <3> QED
      BY <1>1, <3>1 DEF OnCourse, Ordered, Step
  <2> QED
    BY <2>2, <2>3
<1> QED
  BY <1>5, <1>6, <1>7, <1>8, <1>9 DEF OnCourse

\* It is done with its message: its work is handed on, or the run has its
\* verdict.
LEMMA ReturnsKeeps ==
  ASSUME NEW r \in Runs, NEW rank, OnCourse(r, rank),
         NEW u \in Workers, OtherWorkersStay(u), Handles(u, r),
         UNCHANGED <<runs, steps, request>>,
         pc[u] \in SentLabels \/ (pc[u] \notin {"publish", "failure_publish"} /\ Decided(r)),
         pc'[u] = "idle", Acknowledge(u)
  PROVE  OnCourse(r, rank)'
<1>1. OneCarrier(r) /\ Submission(r) /\ Carried(r)
  BY DEF OnCourse
<1>2. queue' = queue \ {msg[u]} /\ msg[u] \in queue /\ msg[u].step.run = r
  BY <1>1 DEF Acknowledge, OneCarrier, Handles, Step
<1>3. \A v \in Workers : /\ Handles(v, r)' <=> v # u /\ Handles(v, r)
                         /\ v # u => /\ pc'[v] = pc[v] /\ msg'[v] = msg[v]
                                     /\ linked'[v] = linked[v] /\ result'[v] = result[v]
  BY DEF OtherWorkersStay, Handles, Step
<1>4. Live(r)' = Live(r) \ {msg[u]}
  <2>1. Live(r)' \subseteq Live(r) \ {msg[u]}
    BY <1>2, <1>3 DEF Live
  <2>2. Live(r) \ {msg[u]} \subseteq Live(r)'
    BY <1>2, <1>3 DEF Live, SentLabels
  <2> QED
    BY <2>1, <2>2
<1>5. pc[u] \in SentLabels => Live(r)' = Live(r)
  BY <1>4 DEF Live
<1>6. OneCarrier(r)'
  BY <1>1, <1>2, <1>3, <1>4 DEF OneCarrier
<1>7. Submission(r)'
  BY <1>1, <1>2 DEF Submission, Unsent, StatusOf, Exists, FirstStep, FirstAttempt
<1>8. Carried(r)'
  BY <1>1, <1>5 DEF Carried, Decided
<1>9. Waiting(r)'
  BY <1>3, <1>4 DEF OnCourse, Waiting, Claimable, StatusOf, Exists
<1>10. ASSUME NEW v \in Workers, Handles(v, r)' PROVE OnTime(v, r)'
  <2>1. Handles(v, r) /\ pc'[v] = pc[v] /\ msg'[v] = msg[v] /\ result'[v] = result[v]
    BY <1>3, <1>10
  <2>2. Step(v)' = Step(v) /\ NextStep(v)' = NextStep(v) /\ FailureStep(v)' = FailureStep(v)
    BY <2>1, HandOffStays
  <2>3. OnTime(v, r)
    BY <2>1 DEF OnCourse
  <2> QED
    BY <2>1, <2>2, <2>3 DEF OnTime, Claimable, Decided, StatusOf, Exists
<1>11. Ordered(r, rank)'
  <2> SUFFICES ASSUME NEW m \in Live(r), m # msg[u], NEW k \in DOMAIN steps, k.run = r
               PROVE  \/ rank[k.type] <= rank[m.step.type]
                      \/ \E w \in Workers :
                           /\ msg'[w] = m
                           /\ \/ pc'[w] = "publish" /\ k = NextStep(w)'
                              \/ pc'[w] = "failure_publish" /\ k = FailureStep(w)'
    BY <1>4 DEF Ordered
  <2>1. \A w \in Workers : msg[w] = m => w # u
    OBVIOUS
  <2> QED
    BY <1>3, <2>1, HandOffStays DEF OnCourse, Ordered
<1> QED
  BY <1>6, <1>7, <1>8, <1>9, <1>10, <1>11 DEF OnCourse

\* It gives the message of a step back that it has marked failed.
LEMMA GivesBackKeeps ==
  ASSUME NEW r \in Runs, NEW rank, OnCourse(r, rank),
         NEW u \in Workers, OtherWorkersStay(u), Handles(u, r),
         UNCHANGED <<dbVars, request>>,
         pc[u] = "except_event", pc'[u] = "idle", Requeue(u)
  PROVE  OnCourse(r, rank)'
<1>1. /\ Live(r) = {msg[u]}
      /\ \A v \in Workers : v # u /\ Handles(v, r) => pc[v] \in SentLabels
      /\ OneCarrier(r) /\ Submission(r) /\ OnTime(u, r)
  BY LiveCarrier DEF OnCourse, SentLabels
<1>2. queue' = queue /\ msg[u] \in queue /\ msg[u].step.run = r
  BY <1>1 DEF Requeue, OneCarrier, Handles, Step
<1>3. \A v \in Workers : /\ Handles(v, r)' <=> v # u /\ Handles(v, r)
                         /\ v # u => /\ pc'[v] = pc[v] /\ msg'[v] = msg[v]
                                     /\ linked'[v] = linked[v]
  BY DEF OtherWorkersStay, Handles, Step
<1>4. Live(r)' = Live(r)
  BY <1>2, <1>3 DEF Live, SentLabels
<1>5. OneCarrier(r)'
  BY <1>1, <1>2, <1>3, <1>4 DEF OneCarrier
<1>6. Submission(r)' /\ Carried(r)'
  BY <1>1, <1>2, <1>4 DEF Submission, Carried, Unsent
<1>7. Waiting(r)'
  BY <1>1, <1>4 DEF Waiting, OnTime, Claimable, StatusOf, Exists, dbVars, Step
<1>8. ASSUME NEW v \in Workers, Handles(v, r)' PROVE OnTime(v, r)'
  <2>1. pc'[v] \in SentLabels
    BY <1>1, <1>3, <1>8
  <2> QED
    BY <2>1 DEF OnTime, SentLabels
<1>9. Ordered(r, rank)'
  <2>1. \A w \in Workers : msg[w] = msg[u] /\ pc[w] \in {"publish", "failure_publish"} => FALSE
    BY <1>1, <1>2 DEF OneCarrier, Handles, Step
  <2> QED
    BY <1>1, <1>4, <2>1 DEF OnCourse, Ordered, dbVars
<1> QED
  BY <1>5, <1>6, <1>7, <1>8, <1>9 DEF OnCourse

\* A worker takes up a message of the run.
LEMMA ReceivesKeeps ==
  ASSUME TypeOK, NEW r \in Runs, NEW rank, OnCourse(r, rank),
         NEW u \in Workers, OtherWorkersStay(u), Handles(u, r)',
         UNCHANGED <<dbVars, request>>, Received(u)
  PROVE  OnCourse(r, rank)'
<1>1. OneCarrier(r) /\ Submission(r) /\ Carried(r) /\ Waiting(r)
  BY DEF OnCourse
<1>2. /\ linked'[u] /\ msg'[u] \in queue /\ queue' = queue
      /\ \A w \in Workers : linked[w] => msg[w] # msg'[u]
  <2>1. linked' = [linked EXCEPT ![u] = TRUE] /\ queue' = queue
    BY DEF Received, Deliver
  <2>2. PICK m \in Ready(Service[u]) : msg' = [msg EXCEPT ![u] = m]
    BY DEF Received, Deliver
  <2> QED
    BY <2>1, <2>2 DEF Ready, TypeOK, QueueTypeOK
<1>3. \A v \in Workers : /\ Handles(v, r)' <=> v = u \/ Handles(v, r)
                         /\ v # u => /\ pc'[v] = pc[v] /\ msg'[v] = msg[v]
                                     /\ linked'[v] = linked[v] /\ result'[v] = result[v]
  BY DEF OtherWorkersStay, Handles, Step, Received
<1>u. pc[u] = "idle" /\ pc'[u] = "claim" /\ msg'[u].step.run = r /\ ~Handles(u, r)
  BY DEF Received, Handles, Step
<1>4. Live(r)' = Live(r)
  BY <1>2, <1>3, <1>u DEF Live, SentLabels
<1>5. \A w \in Workers : Handles(w, r) => msg[w] # msg'[u]
  BY <1>1, <1>2 DEF OneCarrier
<1>6. msg'[u] \in Live(r)
  BY <1>2, <1>5, <1>u DEF Live, Handles, Step, SentLabels
<1>7. OneCarrier(r)'
  BY <1>1, <1>2, <1>3, <1>4, <1>5, <1>u DEF OneCarrier
<1>8. Submission(r)' /\ Carried(r)'
  BY <1>1, <1>2, <1>4 DEF Submission, Carried, Decided, Unsent, StatusOf, Exists, dbVars,
     FirstStep, FirstAttempt
<1>9. Waiting(r)'
  <2> SUFFICES ASSUME NEW m \in Live(r),
                      \A w \in Workers : Handles(w, r)' => msg'[w] # m
               PROVE  Claimable(m.step)'
    BY <1>4 DEF Waiting
  <2>1. \A w \in Workers : Handles(w, r) => msg[w] # m
    BY <1>3, <1>u
  <2>2. Claimable(m.step)
    BY <1>1, <2>1 DEF Waiting
  <2> QED
    BY <2>2 DEF Claimable, StatusOf, Exists, dbVars
<1>10. ASSUME NEW v \in Workers, Handles(v, r)' PROVE OnTime(v, r)'
  <2>1. CASE v = u
    <3>1. Claimable(msg'[u].step)
      BY <1>1, <1>5, <1>6 DEF Waiting
    <3>2. Claimable(Step(u))'
      BY <3>1 DEF Claimable, StatusOf, Exists, Step, dbVars
    <3> QED
      BY <1>u, <2>1, <3>2 DEF OnTime
  <2>2. CASE v # u
    <3>1. Handles(v, r) /\ pc'[v] = pc[v] /\ msg'[v] = msg[v] /\ result'[v] = result[v]
      BY <1>3, <1>10, <2>2
    <3>2. Step(v)' = Step(v) /\ NextStep(v)' = NextStep(v) /\ FailureStep(v)' = FailureStep(v)
      BY <3>1, HandOffStays
    <3>3. OnTime(v, r)
      BY <3>1 DEF OnCourse
    <3> QED
      BY <3>1, <3>2, <3>3 DEF OnTime, Claimable, Decided, StatusOf, Exists, dbVars
  <2> QED
    BY <2>1, <2>2
<1>11. Ordered(r, rank)'
  <2> SUFFICES ASSUME NEW m \in Live(r), NEW k \in DOMAIN steps, k.run = r
               PROVE  \/ rank[k.type] <= rank[m.step.type]
                      \/ \E w \in Workers :
                           /\ msg'[w] = m
                           /\ \/ pc'[w] = "publish" /\ k = NextStep(w)'
                              \/ pc'[w] = "failure_publish" /\ k = FailureStep(w)'
    BY <1>4 DEF Ordered, dbVars
  <2>1. \A w \in Workers : pc[w] \in {"publish", "failure_publish"} => w # u
    BY <1>u
  <2> QED
    BY <1>3, <2>1, HandOffStays DEF OnCourse, Ordered
<1> QED
  BY <1>7, <1>8, <1>9, <1>10, <1>11 DEF OnCourse

(***************************************************************************)
(* The step that a handler is to hand on to is new: it comes later than    *)
(* any step of the run, unless the hand-off is a detour.                   *)
(***************************************************************************)
LEMMA NextIsNew ==
  ASSUME ReturnInv, NEW r \in Runs, NEW rank \in [StepType -> Nat], OnCourse(r, rank),
         NEW u \in Workers, Handles(u, r), pc[u] \in TryLabels,
         pc[u] \notin {"publish", "failure_publish"} \cup SentLabels,
         NEW k \in StepKey, k.run = r, rank[Step(u).type] < rank[k.type]
  PROVE  ~Exists(k)
<1> SUFFICES ASSUME k \in DOMAIN steps PROVE FALSE
  BY DEF Exists
<1>1. Live(r) = {msg[u]} /\ OneCarrier(r) /\ Ordered(r, rank)
  BY LiveCarrier DEF OnCourse
<1>2. Step(u) \in StepKey
  BY StepTyped DEF ReturnInv, ExclusiveInv, Handles
<1>3. rank[Step(u).type] \in Nat /\ rank[k.type] \in Nat
  BY <1>2 DEF StepKey
<1>4. PICK w \in Workers : msg[w] = msg[u] /\ pc[w] \in {"publish", "failure_publish"}
  BY <1>1, <1>3 DEF Ordered, Step
<1>5. Handles(w, r) /\ w # u
  BY <1>4 DEF Handles, Step
<1> QED
  BY <1>1, <1>4, <1>5 DEF OneCarrier

LEMMA HandsForward ==
  ASSUME ReturnInv, NEW r \in Runs, NEW rank \in [StepType -> Nat], NEW back,
         Forward(rank, back), NEW u \in Workers, Handles(u, r)
  PROVE  /\ pc[u] \in {"next_step", "publish"} =>
              /\ NextStep(u) \in StepKey /\ NextStep(u).run = r
              /\ \/ rank[Step(u).type] < rank[NextStep(u).type]
                 \/ HandOff(NextStep(u).type, NextStep(u).attempt) \in back
         /\ pc[u] \in {"failure_step", "failure_publish"} =>
              /\ FailureStep(u) \in StepKey /\ FailureStep(u).run = r
              /\ rank[Step(u).type] < rank[FailureStep(u).type]
<1>t. TypeOK
  BY DEF ReturnInv, ExclusiveInv
<1>1. NextStep(u).run = r /\ FailureStep(u).run = r
  BY DEF Handles, NextStep, FailureStep, FirstAttempt
<1>2. Step(u) \in StepKey /\ msg[u] \in WorkflowMessage
  BY <1>t, StepTyped DEF Handles, TypeOK, WorkerTypeOK
<1>3. Step(u).type \in StepType /\ msg[u].input.content \in Content
  BY <1>2 DEF StepKey, WorkflowMessage, Artifact
<1>4. \A res \in Results(Step(u).type, msg[u].input.content) :
        /\ res.next # None /\ (res.override = None \/ StatusNameBound) =>
             \/ rank[Step(u).type] < rank[res.next]
             \/ HandOff(res.next, res.attempt) \in back
        /\ res.failure => rank[Step(u).type] < rank["failure_routing"]
  BY <1>3 DEF Forward
<1>5. CASE pc[u] \in {"next_step", "publish"}
  <2>1. /\ result[u] \in Results(Step(u).type, msg[u].input.content)
        /\ result[u].next # None /\ (result[u].override = None \/ StatusNameBound)
    BY <1>5 DEF ReturnInv, ResultsReturned, ResultLabels, TryLabels
  <2>2. NextStep(u) \in StepKey
    BY <1>t, <1>5, NextStepTyped DEF NextLabels
  <2> QED
    BY <1>1, <1>4, <1>5, <2>1, <2>2 DEF NextStep
<1>6. CASE pc[u] \in {"failure_step", "failure_publish"}
  <2>1. /\ result[u] \in Results(Step(u).type, msg[u].input.content)
        /\ result[u].failure
    BY <1>6 DEF ReturnInv, ResultsReturned, ResultLabels, TryLabels
  <2>2. FailureStep(u) \in StepKey
    BY <1>t, <1>6, OutputTyped DEF ResultLabels, TryLabels
  <2>3. FailureStep(u).type = "failure_routing"
    BY DEF FailureStep, FirstAttempt
  <2> QED
    BY <1>1, <1>4, <1>6, <2>1, <2>2, <2>3
<1> QED
  BY <1>5, <1>6

(***************************************************************************)
(* A handler of the run that no fault hits keeps it on course, or takes    *)
(* the run on a detour.                                                    *)
(***************************************************************************)
LEMMA CarrierKeeps ==
  ASSUME ReturnInv, NEW r \in Runs, NEW rank \in [StepType -> Nat], NEW back,
         Forward(rank, back), OnCourse(r, rank),
         NEW u \in Workers, Moves(u), Handles(u, r), faults' = faults,
         ~Detoured(r, back), ~Detoured(r, back)'
  PROVE  OnCourse(r, rank)'
<1>t. TypeOK /\ DbTypeOK /\ TagsCount /\ faults \in Nat /\ runs \in [Runs -> WorkflowStatus \cup {"absent"}]
  BY FaultAssumption DEF ReturnInv, ExclusiveInv, TypeOK, DbTypeOK
<1>f. /\ Processed(u) \/ Advanced(u) \/ Returned(u)
         \/ (Caught(u) /\ Unsupported(u) /\ UNCHANGED queueVars)
         \/ (Abandoned(u) /\ pc[u] = "except_event")
  <2>1. Fate(u) /\ faults' # faults + 1 /\ pc[u] # "idle"
    BY <1>t, WorkerFate DEF Handles
  <2> QED
    BY <2>1 DEF Fate, Received, Caught, Abandoned, Detached
<1>w. (Writes(u) \/ WritesNothing(u)) /\ request' = request
  BY <1>t, WorkerWrites
<1>o. OtherWorkersStay(u)
  BY <1>t, OthersStay DEF OtherWorkersStay, Moves
<1>r. Step(u).run = r /\ pc[u] # "idle" /\ OnTime(u, r)
  BY DEF Handles, OnCourse
<1>n. NextStep(u).run = r /\ FailureStep(u).run = r
  BY <1>r DEF NextStep, FailureStep, FirstAttempt
<1>1. CASE Returned(u)
  <2>1. pc[u] \in {"terminal_event", "failure_event", "finish_event", "publish_event"}
    BY <1>1, <1>r DEF Returned, ReturnLabels, OnTime
  <2>2. UNCHANGED <<runs, steps>>
    BY <1>w, <2>1 DEF Writes, WritesNothing, RecordEvent, dbVars
  <2>3. pc[u] \in SentLabels \/ (pc[u] \notin {"publish", "failure_publish"} /\ Decided(r))
    BY <1>r, <2>1 DEF OnTime, SentLabels
  <2> QED
    BY <1>1, <1>o, <1>w, <2>2, <2>3, ReturnsKeeps DEF Returned
<1>2. CASE Abandoned(u) /\ pc[u] = "except_event"
  <2>1. UNCHANGED dbVars
    BY <1>w, <1>2 DEF Writes, WritesNothing
  <2> QED
    BY <1>2, <1>o, <1>w, <2>1, GivesBackKeeps DEF Abandoned
<1>p. ASSUME pc[u] \notin SentLabels \cup {"publish", "failure_publish"},
             pc'[u] \notin SentLabels \cup {"idle"}, msg'[u] = msg[u],
             linked'[u] = linked[u], queue' = queue, OnTime(u, r)',
             \A k \in DOMAIN steps' :
               k.run = r => \/ k \in DOMAIN steps
                            \/ pc'[u] = "publish" /\ k = NextStep(u)'
                            \/ pc'[u] = "failure_publish" /\ k = FailureStep(u)'
      PROVE  OnCourse(r, rank)'
  <2>1. Ordered(r, rank)'
    BY <1>p, <1>o, OrderedKept
  <2> QED
    BY <1>p, <1>o, <1>w, <2>1, ProceedsKeeps
\* The labels at which nothing is asked of the run.
<1>l. ASSUME pc'[u] \in {"start", "process", "store", "complete", "terminal", "override",
                         "finish", "next_step", "except"}
      PROVE  OnTime(u, r)'
  BY <1>l DEF OnTime
<1>d. ASSUME pc[u] \notin {"failure_step", "next_step"}
      PROVE  DOMAIN steps' = DOMAIN steps
  BY <1>w, <1>d
     DEF Writes, WritesNothing, ClaimStepForProcessing, CreateArtifact, MarkStepCompleted,
         MarkStepFailed, MarkWorkflow, RecordEvent, dbVars
<1>3. CASE Processed(u)
  <2>1. /\ pc[u] = "process" /\ pc'[u] = "store" /\ msg'[u] = msg[u]
        /\ linked'[u] = linked[u] /\ queue' = queue
    BY <1>3 DEF Processed, queueVars
  <2> QED
    BY <1>d, <1>l, <1>p, <2>1 DEF SentLabels
<1>4. CASE Caught(u) /\ Unsupported(u) /\ UNCHANGED queueVars
  <2>1. /\ pc[u] \in {"terminal", "override"} /\ pc'[u] = "except" /\ msg'[u] = msg[u]
        /\ linked'[u] = linked[u] /\ queue' = queue
    BY <1>4 DEF Caught, Unsupported, queueVars
  <2> QED
    BY <1>d, <1>l, <1>p, <2>1 DEF SentLabels
<1>5. CASE Advanced(u) /\ pc[u] \notin {"publish", "failure_publish"}
  <2>1. /\ Onward(u) /\ result' = result /\ msg' = msg /\ linked' = linked
        /\ queue' = queue
    BY <1>5 DEF Advanced, Sends, queueVars
  <2>2. pc[u] \notin SentLabels /\ pc'[u] \notin SentLabels \cup {"idle"}
    BY <1>5, <2>1 DEF Onward, AfterComplete, AfterOverride, SentLabels
  <2>3. NextStep(u)' = NextStep(u) /\ FailureStep(u)' = FailureStep(u) /\ Step(u)' = Step(u)
    BY <2>1, HandOffStays
  <2>4. CASE pc[u] \in {"claim", "start", "store", "complete", "override"}
    <3>1. pc'[u] \in {"start", "process", "store", "complete", "terminal", "override",
                      "finish", "next_step", "except"}
      BY <1>r, <2>1, <2>4 DEF Onward, OnTime, AfterComplete, AfterOverride
    <3> QED
      BY <1>5, <1>d, <1>l, <1>p, <2>1, <2>2, <2>4, <3>1
  <2>5. CASE pc[u] \in {"terminal", "finish"}
    <3>1. pc'[u] \in {"terminal_event", "finish_event"}
      BY <2>1, <2>5 DEF Onward
    <3>2. \E status \in {"completed", "failed"} : MarkWorkflow(r, status)
      BY <1>r, <1>w, <2>5, <3>1 DEF Writes, WritesNothing, SilentLabels
    <3>3. Decided(r)'
      BY <1>t, <3>2 DEF MarkWorkflow, Decided
    <3>4. OnTime(u, r)'
      BY <3>1, <3>3 DEF OnTime
    <3> QED
      BY <1>5, <1>d, <1>p, <2>1, <2>2, <2>5, <3>4
  <2>6. CASE pc[u] = "terminal_event"
    <3>1. pc'[u] = "failure_step" /\ Decided(r)
      BY <1>r, <2>1, <2>6 DEF Onward, OnTime
    <3>2. runs' = runs
      BY <1>w, <2>6 DEF Writes, WritesNothing, RecordEvent, dbVars
    <3>3. OnTime(u, r)'
      BY <3>1, <3>2 DEF OnTime, Decided
    <3> QED
      BY <1>5, <1>d, <1>p, <2>1, <2>2, <2>6, <3>3
  <2>7. CASE pc[u] = "except"
    <3>1. pc'[u] = "except_event"
      BY <2>1, <2>7 DEF Onward
    <3>2. MarkStepFailed(Step(u))
      BY <1>w, <2>7, <3>1 DEF Writes, WritesNothing, SilentLabels
    <3>3. Exists(Step(u))
      <4>1. StatusOf(Step(u)) \in {"running", "completed"}
        BY <2>7 DEF ReturnInv, ExclusiveInv, OwnedIsHeld, OwnerLabels
      <4> QED
        BY <4>1 DEF StatusOf
    <3>4. Step(u) \in DOMAIN steps' /\ steps'[Step(u)].status = "failed"
      BY <1>t, <3>2, <3>3 DEF MarkStepFailed, Exists, DbTypeOK, StepRow
    <3>5. Claimable(Step(u))'
      BY <2>3, <3>4 DEF Claimable, StatusOf, Exists
    <3>6. OnTime(u, r)'
      BY <3>1, <3>5 DEF OnTime
    <3> QED
      BY <1>5, <1>d, <1>p, <2>1, <2>2, <2>7, <3>6
  <2>8. CASE pc[u] \in {"failure_step", "next_step"}
    <3> DEFINE k == IF pc[u] = "next_step" THEN NextStep(u) ELSE FailureStep(u)
    <3>1. pc'[u] = IF pc[u] = "next_step" THEN "publish" ELSE "failure_publish"
      BY <2>1, <2>8 DEF Onward
    <3>2. CreateWorkflowStep(k, Output(u))
      BY <1>w, <2>8, <3>1 DEF Writes, WritesNothing, SilentLabels
    <3>3. k \in StepKey /\ k.run = r /\ rank[Step(u).type] < rank[k.type]
      <4>1. k \in DOMAIN steps'
        BY <3>2 DEF CreateWorkflowStep, Exists
      <4>2. pc[u] = "next_step" => HandOff(NextStep(u).type, NextStep(u).attempt) \notin back
        BY <1>n, <4>1 DEF Detoured
      <4> QED
        BY <2>8, <4>2, HandsForward
    <3>4. ~Exists(k)
      <4>1. pc[u] \in TryLabels
        BY <2>8 DEF TryLabels
      <4> HIDE DEF k
      <4> QED
        BY <1>5, <2>2, <3>3, <4>1, NextIsNew
    <3>5. /\ k \in DOMAIN steps' /\ steps'[k].status = "pending"
          /\ DOMAIN steps' = DOMAIN steps \cup {k}
      BY <3>2, <3>4 DEF CreateWorkflowStep
    <3>6. /\ pc'[u] = "publish" => StatusOf(NextStep(u))' = "pending"
          /\ pc'[u] = "failure_publish" => StatusOf(FailureStep(u))' = "pending"
      BY <2>3, <3>1, <3>5 DEF StatusOf, Exists
    <3>7. pc[u] = "failure_step" => Decided(r) /\ Decided(r)'
      BY <1>r, <3>2 DEF OnTime, Decided, CreateWorkflowStep
    <3>8. OnTime(u, r)'
      BY <2>8, <3>1, <3>6, <3>7 DEF OnTime
    <3> QED
      BY <1>5, <1>p, <2>1, <2>2, <2>3, <2>8, <3>1, <3>5, <3>8
  <2> QED
    BY <1>5, <2>1, <2>4, <2>5, <2>6, <2>7, <2>8 DEF Onward
<1>6. CASE Advanced(u) /\ pc[u] \in {"publish", "failure_publish"}
  <2> DEFINE k == IF pc[u] = "publish" THEN NextStep(u) ELSE FailureStep(u)
  <2>1. pc'[u] \in SentLabels /\ Publish(k, Output(u))
    BY <1>6 DEF Advanced, Onward, Sends, SentLabels
  <2>2. msg'[u] = msg[u] /\ linked'[u] = linked[u]
    BY <2>1 DEF Publish
  <2>3. StatusOf(k) = "pending"
    BY <1>6, <1>r DEF OnTime
  <2>4. k \in StepKey /\ k.run = r /\ rank[Step(u).type] < rank[k.type]
    <3>1. k \in DOMAIN steps
      BY <2>3 DEF StatusOf, Exists
    <3>2. pc[u] = "publish" => HandOff(NextStep(u).type, NextStep(u).attempt) \notin back
      BY <1>n, <3>1 DEF Detoured
    <3> QED
      BY <1>6, <3>2, HandsForward
  <2>5. UNCHANGED dbVars
    BY <1>6, <1>w DEF Writes, WritesNothing
  <2> QED
    BY <1>6, <1>o, <1>t, <1>w, <2>1, <2>2, <2>3, <2>4, <2>5, HandsOnKeeps
<1> QED
  BY <1>f, <1>1, <1>2, <1>3, <1>4, <1>5, <1>6

\* The request that submits the run goes on.
LEMMA RequestKeeps ==
  ASSUME TypeOK, NEW r \in Runs, NEW rank \in [StepType -> Nat], OnCourse(r, rank),
         RequestMoves(r), faults' = faults
  PROVE  OnCourse(r, rank)'
<1>t. /\ request \in [Runs -> RequestLabels] /\ faults \in Nat
      /\ DbTypeOK /\ \A w \in Workers : pc[w] # "idle" => msg[w] \in WorkflowMessage
  BY FaultAssumption DEF TypeOK, WorkerTypeOK
<1>0. request'[r] # "error" /\ RequestCalls(r) /\ UNCHANGED <<pc, result>>
  BY <1>t, RequestFate
<1>1. OneCarrier(r) /\ Submission(r) /\ Carried(r)
  BY DEF OnCourse
<1>2. UNCHANGED <<msg, linked>>
  BY <1>0 DEF RequestCalls, Publish, queueVars
<1>3. CASE request[r] = "started_event"
  <2>1. request'[r] = "done" /\ UNCHANGED <<dbVars, queueVars>>
    BY <1>0, <1>3 DEF RequestCalls
  <2>2. /\ \A w : (Handles(w, r)' <=> Handles(w, r)) /\ Step(w)' = Step(w)
        /\ \A w : NextStep(w)' = NextStep(w) /\ FailureStep(w)' = FailureStep(w)
        /\ \A k : StatusOf(k)' = StatusOf(k) /\ (Claimable(k)' <=> Claimable(k))
        /\ Live(r)' = Live(r) /\ (Decided(r)' <=> Decided(r))
    BY <1>0, <1>2, <2>1
       DEF Handles, Step, NextStep, FailureStep, FirstAttempt, StatusOf, Claimable,
           Exists, Live, Decided, dbVars, queueVars
  <2>3. OneCarrier(r)'
    BY <1>1, <1>2, <2>1, <2>2 DEF OneCarrier, queueVars
  <2>4. Submission(r)' /\ Carried(r)'
    BY <1>1, <1>3, <2>1, <2>2 DEF Submission, Carried, Unsent
  <2>5. Waiting(r)' /\ Ordered(r, rank)'
    BY <1>0, <2>1, <2>2 DEF OnCourse, Waiting, Ordered, dbVars, queueVars
  <2>6. ASSUME NEW w \in Workers, Handles(w, r)' PROVE OnTime(w, r)'
    <3>1. OnTime(w, r)
      BY <2>2, <2>6 DEF OnCourse
    <3>2. /\ StatusOf(NextStep(w))' = StatusOf(NextStep(w))
          /\ StatusOf(FailureStep(w))' = StatusOf(FailureStep(w))
          /\ Claimable(Step(w))' <=> Claimable(Step(w))
      BY <2>1, <2>2 DEF StatusOf, Claimable, Exists, dbVars
    <3> QED
      BY <1>0, <2>2, <3>1, <3>2 DEF OnTime
  <2> QED
    BY <2>3, <2>4, <2>5, <2>6 DEF OnCourse
<1>4. CASE request[r] \in Unsent
  <2>1. (\A m \in queue : m.step.run # r) /\ (\A w \in Workers : ~Handles(w, r))
    BY <1>1, <1>4 DEF Submission, OneCarrier, Handles, Step
  <2>2. \A w \in Workers : ~Handles(w, r)'
    BY <1>0, <1>2, <2>1 DEF Handles, Step
  <2>f. FirstStep(r)' = FirstStep(r) /\ FirstStep(r).run = r
    BY DEF FirstStep, FirstAttempt
  <2>3. CASE request[r] # "publish_first"
    <3>1. /\ request'[r] \in Unsent \ {"create_run"} /\ queue' = queue
          /\ request'[r] = "publish_first" <=> request[r] = "create_step"
      BY <1>0, <1>4, <2>3 DEF RequestCalls, Unsent, queueVars
    <3>2. Live(r)' = {}
      BY <2>1, <3>1 DEF Live
    <3>3. \A k \in DOMAIN steps : k.run # r
      BY <1>1, <1>4, <2>3 DEF Submission
    <3>4. /\ \A k \in DOMAIN steps' : k.run = r => request[r] = "create_step" /\ k = FirstStep(r)
          /\ request[r] = "create_step" => StatusOf(FirstStep(r))' = "pending"
      <4>1. CASE UNCHANGED steps /\ request[r] # "create_step"
        BY <3>3, <4>1
      <4>2. CASE request[r] = "create_step" /\ CreateWorkflowStep(FirstStep(r), Ticket(r))
        <5>1. FirstStep(r) \notin DOMAIN steps
          BY <2>f, <3>3
        <5>2. /\ DOMAIN steps' = DOMAIN steps \cup {FirstStep(r)}
              /\ steps'[FirstStep(r)].status = "pending"
          BY <4>2, <5>1 DEF CreateWorkflowStep, Exists
        <5> QED
          BY <2>f, <3>3, <4>2, <5>2 DEF StatusOf, Exists
      <4> QED
        BY <1>0, <2>3, <4>1, <4>2
           DEF RequestCalls, CreateWorkflowRun, CreateArtifact, dbVars
    <3>5. Submission(r)'
      BY <1>0, <2>1, <2>f, <3>1, <3>4 DEF Submission, StatusOf, Exists
    <3>6. Carried(r)' /\ OneCarrier(r)' /\ Waiting(r)' /\ Ordered(r, rank)'
      BY <2>2, <3>1, <3>2 DEF Carried, OneCarrier, Waiting, Ordered
    <3> QED
      BY <2>2, <3>5, <3>6 DEF OnCourse
  <2>4. CASE request[r] = "publish_first"
    <3> PICK m : m = [tag |-> published + 1, step |-> FirstStep(r), input |-> Ticket(r)]
      OBVIOUS
    <3>1. /\ request'[r] = "started_event" /\ queue' = queue \cup {m}
          /\ UNCHANGED dbVars
      BY <1>0, <2>4 DEF RequestCalls, Publish
    <3>2. \A k \in DOMAIN steps : k.run = r => k = FirstStep(r)
      BY <1>1, <2>4 DEF Submission, Unsent
    <3>3. Live(r)' = {m}
      <4>1. \A w \in Workers : pc'[w] \in SentLabels => msg'[w] # m
        BY <2>2, <2>f DEF Handles, Step, SentLabels
      <4>2. m.step.run = r
        BY <2>f
      <4> QED
        BY <2>1, <3>1, <4>1, <4>2 DEF Live
    <3>4. m.step = FirstStep(r)
      OBVIOUS
    <3>5. Claimable(m.step)'
      BY <1>1, <2>4, <3>1, <3>4 DEF Submission, Claimable, StatusOf, Exists, dbVars
    <3>6. Submission(r)' /\ Carried(r)'
      BY <3>1, <3>3 DEF Submission, Carried, Unsent
    <3>7. OneCarrier(r)' /\ Waiting(r)'
      BY <2>2, <3>3, <3>5 DEF OneCarrier, Waiting
    <3>8. Ordered(r, rank)'
      <4>1. rank[FirstStep(r).type] \in Nat
        BY DEF FirstStep, FirstAttempt, StepType
      <4> QED
        BY <3>1, <3>2, <3>3, <3>4, <4>1 DEF Ordered, dbVars
    <3> QED
      BY <2>2, <3>6, <3>7, <3>8 DEF OnCourse
  <2> QED
    BY <2>3, <2>4
<1> QED
  BY <1>0, <1>3, <1>4 DEF RequestCalls, Unsent
-----------------------------------------------------------------------------
(***************************************************************************)
(* A step of the system casts at most one run adrift, and for a fault.     *)
(***************************************************************************)
LEMMA AdriftGrows ==
  ASSUME ReturnInv, [Next]_vars, NEW rank \in [StepType -> Nat], NEW back,
         Forward(rank, back)
  PROVE  \/ Adrift(rank, back)' \subseteq Adrift(rank, back)
         \/ /\ \E r : Adrift(rank, back)' \subseteq Adrift(rank, back) \cup {r}
            /\ faults' = faults + 1
<1>t. TypeOK
  BY DEF ReturnInv, ExclusiveInv
<1>f. faults' \in {faults, faults + 1}
  BY <1>t, FaultsCount
<1>a. ASSUME NEW q \in Adrift(rank, back)', q \notin Adrift(rank, back)
      PROVE  /\ q \in Runs /\ OnCourse(q, rank) /\ ~OnCourse(q, rank)'
             /\ ~Detoured(q, back) /\ ~Detoured(q, back)'
  <2>1. q \in Runs /\ ~OnCourse(q, rank)' /\ ~Detoured(q, back)'
    BY <1>a DEF Adrift
  <2>2. ~Detoured(q, back)
    BY <1>t, <2>1, RowsRemain DEF Detoured, Exists
  <2> QED
    BY <1>a, <2>1, <2>2 DEF Adrift
<1>1. CASE UNCHANGED vars
  <2>1. \A q : Untouched(q)
    BY <1>1 DEF Untouched, StepsStay, QueueStays, WorkersStay, Exists, StatusOf, vars,
                dbVars, queueVars
  <2> QED
    BY <1>t, <1>a, <2>1, UntouchedKeeps
<1>2. ASSUME NEW w \in Workers, Moves(w)
      PROVE  \/ Adrift(rank, back)' \subseteq Adrift(rank, back)
             \/ /\ \E r : Adrift(rank, back)' \subseteq Adrift(rank, back) \cup {r}
                /\ faults' = faults + 1
  <2>f. Fate(w)
    BY <1>t, <1>2, WorkerFate
  <2>a. ASSUME NEW q \in Adrift(rank, back)', q \notin Adrift(rank, back)
        PROVE  Handles(w, q) \/ Handles(w, q)'
    BY <1>t, <1>2, <1>a, <2>a, UntouchedByWorker, UntouchedKeeps
  <2>1. CASE pc[w] = "idle"
    <3>1. ASSUME NEW q \in Adrift(rank, back)', q \notin Adrift(rank, back)
          PROVE  FALSE
      <4>1. Handles(w, q)'
        BY <2>1, <2>a, <3>1 DEF Handles
      <4>2. Received(w)
        BY <2>1, <2>f, <4>1
           DEF Fate, Processed, Advanced, Onward, Caught, TryLabels, Returned,
               ReturnLabels, Abandoned, Detached, Handles
      <4>3. UNCHANGED dbVars /\ request' = request
        <5>1. (Writes(w) \/ WritesNothing(w)) /\ request' = request
          BY <1>t, <1>2, WorkerWrites
        <5> QED
          BY <2>1, <5>1 DEF Writes, WritesNothing
      <4>4. OtherWorkersStay(w)
        BY <1>t, <1>2, OthersStay DEF OtherWorkersStay, Moves
      <4> QED
        BY <1>t, <1>a, <3>1, <4>1, <4>2, <4>3, <4>4, ReceivesKeeps
    <3> QED
      BY <3>1
  <2>2. CASE pc[w] # "idle"
    <3>1. ASSUME NEW q, Handles(w, q) \/ Handles(w, q)'
          PROVE  Handles(w, q) /\ q = Step(w).run
      BY <2>2, <2>f, <3>1
         DEF Fate, Received, Processed, Advanced, Sends, Publish, Caught, Returned,
             Abandoned, Detached, CloseChannel, queueVars, Handles, Step
    <3>2. Adrift(rank, back)' \subseteq Adrift(rank, back) \cup {Step(w).run}
      BY <2>a, <3>1
    <3>3. CASE faults' = faults
      BY <1>2, <1>a, <2>a, <3>1, <3>3, CarrierKeeps
    <3> QED
      BY <1>f, <3>2, <3>3
  <2> QED
    BY <2>1, <2>2
<1>3. ASSUME NEW r \in Runs, RequestMoves(r)
      PROVE  \/ Adrift(rank, back)' \subseteq Adrift(rank, back)
             \/ /\ \E s : Adrift(rank, back)' \subseteq Adrift(rank, back) \cup {s}
                /\ faults' = faults + 1
  <2>1. Adrift(rank, back)' \subseteq Adrift(rank, back) \cup {r}
    BY <1>t, <1>3, <1>a, UntouchedByRequest, UntouchedKeeps
  <2>2. CASE faults' = faults
    BY <1>t, <1>3, <1>a, <2>1, <2>2, RequestKeeps
  <2> QED
    BY <1>f, <2>1, <2>2
<1> QED
  BY <1>1, <1>2, <1>3, NextCases

\* Without faults no run is ever adrift; with them, no more runs than faults.
AdriftCounted(rank, back) ==
  /\ IsFiniteSet(Adrift(rank, back))
  /\ Cardinality(Adrift(rank, back)) <= faults

LEMMA AdriftInit ==
  ASSUME Init, NEW rank, NEW back
  PROVE  AdriftCounted(rank, back)
<1>1. \A w \in Workers : pc[w] = "idle"
  BY DEF Init
<1>2. queue = {} /\ DOMAIN steps = {} /\ faults = 0
  BY DEF Init, DbInit, QueueInit
<1>3. ASSUME NEW r \in Runs PROVE OnCourse(r, rank)
  <2>1. request[r] = "create_run"
    BY DEF Init
  <2>2. Live(r) = {} /\ \A w \in Workers : ~Handles(w, r)
    BY <1>1, <1>2 DEF Live, Handles
  <2> QED
    BY <1>2, <2>1, <2>2
       DEF OnCourse, OneCarrier, Submission, Carried, Waiting, Ordered, Unsent
<1>4. Adrift(rank, back) = {}
  BY <1>3 DEF Adrift
<1> QED
  BY <1>2, <1>4, FS_EmptySet DEF AdriftCounted

LEMMA AdriftStep ==
  ASSUME ReturnInv, [Next]_vars, NEW rank \in [StepType -> Nat], NEW back,
         Forward(rank, back), AdriftCounted(rank, back)
  PROVE  AdriftCounted(rank, back)'
<1> DEFINE before == Adrift(rank, back)
           after == Adrift(rank, back)'
<1>t. TypeOK /\ faults \in Nat
  BY FaultAssumption DEF ReturnInv, ExclusiveInv, TypeOK
<1>f. faults' \in {faults, faults + 1}
  BY <1>t, FaultsCount
<1>c. IsFiniteSet(before) /\ Cardinality(before) \in Nat /\ Cardinality(before) <= faults
  BY FS_CardinalityType DEF AdriftCounted
<1>g. \/ after \subseteq before
      \/ (\E r : after \subseteq before \cup {r}) /\ faults' = faults + 1
  BY AdriftGrows
<1>d. (IsFiniteSet(after) /\ Cardinality(after) <= faults') => AdriftCounted(rank, back)'
  BY DEF AdriftCounted
<1> HIDE DEF before, after
<1>1. CASE after \subseteq before
  <2>1. IsFiniteSet(after) /\ Cardinality(after) <= Cardinality(before)
    BY <1>1, <1>c, FS_Subset
  <2>2. Cardinality(after) \in Nat
    BY <2>1, FS_CardinalityType
  <2> QED
    BY <1>t, <1>f, <1>c, <1>d, <2>1, <2>2
<1>2. ASSUME NEW r, after \subseteq before \cup {r}, faults' = faults + 1
      PROVE  AdriftCounted(rank, back)'
  <2>1. /\ IsFiniteSet(before \cup {r})
        /\ Cardinality(before \cup {r}) \in {Cardinality(before), Cardinality(before) + 1}
    BY <1>c, FS_AddElement
  <2>2. IsFiniteSet(after) /\ Cardinality(after) <= Cardinality(before \cup {r})
    BY <1>2, <2>1, FS_Subset
  <2>3. Cardinality(after) \in Nat
    BY <2>2, FS_CardinalityType
  <2> QED
    BY <1>t, <1>2, <1>c, <1>d, <2>1, <2>2, <2>3
<1> QED
  BY <1>g, <1>1, <1>2

\* A run that is stranded without a detour is adrift.
LEMMA StrandedIsAdrift ==
  ASSUME TypeOK, NEW rank, NEW back, NEW r \in Stranded, ~Detoured(r, back)
  PROVE  r \in Adrift(rank, back)
<1> SUFFICES ASSUME OnCourse(r, rank) PROVE FALSE
  BY DEF Adrift, Stranded
<1>1. request[r] \notin Unsent /\ ~Decided(r)
  BY DEF Stranded, Unsent, Decided
<1>2. PICK m : m \in Live(r)
  BY <1>1 DEF OnCourse, Carried
<1> QED
  BY <1>2 DEF Live, Stranded, Messages

(***************************************************************************)
(* StrandedRunsNeedFaults, when all hand-offs go forward: a run is left    *)
(* without a message and without a verdict only by a fault of its own, in  *)
(* the request that submits it or in a handler of one of its steps.        *)
(***************************************************************************)
THEOREM StrandedRunsNeedFaultsHolds ==
  ASSUME NEW rank \in [StepType -> Nat], Forward(rank, {})
  PROVE  Spec => []StrandedRunsNeedFaults
<1> DEFINE Counted == AdriftCounted(rank, {})
<1>1. Init => ReturnInv /\ Counted
  BY ReturnInit, AdriftInit
<1>2. ReturnInv /\ Counted /\ [Next]_vars => ReturnInv' /\ Counted'
  BY ReturnStep, AdriftStep
<1>3. ReturnInv /\ Counted => StrandedRunsNeedFaults
  <2> SUFFICES ASSUME ReturnInv, Counted PROVE StrandedRunsNeedFaults
    OBVIOUS
  <2>t. TypeOK /\ faults \in Nat
    BY FaultAssumption DEF ReturnInv, ExclusiveInv, TypeOK
  <2>1. Stranded \subseteq Adrift(rank, {})
    BY <2>t, StrandedIsAdrift DEF Detoured
  <2>2. /\ IsFiniteSet(Stranded)
        /\ Cardinality(Stranded) <= Cardinality(Adrift(rank, {}))
    BY <2>1, FS_Subset DEF AdriftCounted
  <2>3. Cardinality(Stranded) \in Nat /\ Cardinality(Adrift(rank, {})) \in Nat
    BY <2>2, FS_CardinalityType DEF AdriftCounted
  <2> QED
    BY <2>t, <2>2, <2>3 DEF AdriftCounted, StrandedRunsNeedFaults
<1> HIDE DEF Counted
<1> QED
  BY <1>1, <1>2, <1>3, PTL DEF Spec
===========================================================================
