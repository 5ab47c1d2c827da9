---------------------------- MODULE MCPipeline ----------------------------
(***************************************************************************)
(* Instances of the pipeline for TLC.  Each service runs once and gives    *)
(* its worker its name.                                                    *)
(***************************************************************************)
EXTENDS Pipeline

ServiceOfWorker == [w \in Workers |-> w]

\* The services of the local stack.
LocalStack == StepType \ {"human_review"}

AllLabels == Labels \cup RequestLabels
===========================================================================
