------------------------- MODULE WorkflowDatabase -------------------------
(***************************************************************************)
(* The tables of the workflow schema and the statements of db.py.  Each    *)
(* statement is one autocommitted SQL command, hence one atomic update.    *)
(* Timestamps, the error column and event payloads are left out: nothing   *)
(* reads them back.                                                        *)
(***************************************************************************)
EXTENDS WorkflowContracts

VARIABLES runs,       \* workflow_runs.status, "absent" when there is no row
          artifacts,  \* the rows of workflow.artifacts
          steps,      \* the rows of workflow.workflow_steps: a function on
                      \* the ids of the steps that have a row
          events      \* workflow.service_events, as a set, of the kinds kept

dbVars == <<runs, artifacts, steps, events>>

StepRow == [status : StepStatus,
            input  : Artifact,
            output : Artifact \cup {NoArtifact}]

Event == [step : StepKey, type : EventType]

DbTypeOK == /\ runs \in [Runs -> WorkflowStatus \cup {"absent"}]
            /\ artifacts \in SUBSET Artifact
            /\ DOMAIN steps \subseteq StepKey
            /\ steps \in [DOMAIN steps -> StepRow]
            /\ events \in SUBSET Event

DbInit == /\ runs = [r \in Runs |-> "absent"]
          /\ artifacts = {}
          /\ steps = [k \in {} |-> NoArtifact]
          /\ events = {}

Exists(k) == k \in DOMAIN steps

StatusOf(k) == IF Exists(k) THEN steps[k].status ELSE "absent"

CreateWorkflowRun(r) == /\ runs' = [runs EXCEPT ![r] = "running"]
                        /\ UNCHANGED <<artifacts, steps, events>>

CreateArtifact(a) == /\ artifacts' = artifacts \cup {a}
                     /\ UNCHANGED <<runs, steps, events>>

\* Mutant of CreateWorkflowStep: a step is inserted as running.
CreateRunningStep(k, a) ==
  /\ steps' = IF Exists(k)
                THEN steps
                ELSE [key \in DOMAIN steps \cup {k} |->
                        IF key = k
                          THEN [status |-> "running", input |-> a,
                                output |-> NoArtifact]
                          ELSE steps[key]]
  /\ UNCHANGED <<runs, artifacts, events>>

(***************************************************************************)
(* INSERT ... ON CONFLICT DO NOTHING, then the id of whichever row holds   *)
(* the key: an existing row is left as it is.                              *)
(***************************************************************************)
CreateWorkflowStep(k, a) ==
  /\ steps' = IF Exists(k)
                THEN steps
                ELSE [key \in DOMAIN steps \cup {k} |->
                        IF key = k
                          THEN [status |-> "pending", input |-> a,
                                output |-> NoArtifact]
                          ELSE steps[key]]
  /\ UNCHANGED <<runs, artifacts, events>>

\* Mutants of Claimable: a step found running is taken over; a claim has no
\* condition on the status; a failed step is not claimed again.
ClaimableWhenRunning(k) == StatusOf(k) \in {"pending", "running", "failed"}

ClaimableWhenever(k) == Exists(k)

ClaimableOnce(k) == StatusOf(k) = "pending"

Claimable(k) == StatusOf(k) \in {"pending", "failed"}

ClaimStepForProcessing(k) ==
  /\ steps' = IF Claimable(k)
                THEN [steps EXCEPT ![k].status = "running"]
                ELSE steps
  /\ UNCHANGED <<runs, artifacts, events>>

MarkStepCompleted(k, a) ==
  /\ steps' = [steps EXCEPT ![k].status = "completed", ![k].output = a]
  /\ UNCHANGED <<runs, artifacts, events>>

MarkStepFailed(k) ==
  /\ steps' = [steps EXCEPT ![k].status = "failed"]
  /\ UNCHANGED <<runs, artifacts, events>>

(***************************************************************************)
(* mark_workflow_completed, mark_workflow_failed and mark_workflow_running *)
(* differ in the status they write.                                        *)
(***************************************************************************)
MarkWorkflow(r, status) == /\ runs' = [runs EXCEPT ![r] = status]
                           /\ UNCHANGED <<artifacts, steps, events>>

RecordEvent(k, type) ==
  /\ events' = events \cup {[step |-> k, type |-> type]}
  /\ UNCHANGED <<runs, artifacts, steps>>
==========================================================================
