---------------------------- MODULE StageQueues ----------------------------
(***************************************************************************)
(* The durable stage queues of queue.py on the broker behind it.  There is *)
(* one queue per step type; a message stays in its queue until its         *)
(* consumer acknowledges it.  A message that is rejected with requeue, or  *)
(* whose consumer's channel closes, is ready again at its old position.    *)
(* prefetch_count = 1: a consumer has one unacknowledged message at most.  *)
(***************************************************************************)
EXTENDS WorkflowContracts

CONSTANTS Workers,     \* the consumers, over all services and replicas
          Service,     \* Service[w]: the step type worker w consumes
          NoMessage    \* no message

ASSUME ServiceAssumption == Service \in [Workers -> StepType]

VARIABLES queue,       \* the messages of all queues, delivered ones included
          published,   \* how many messages were ever published
          msg,         \* msg[w]: the message worker w is handling
          linked       \* linked[w]: msg[w] is delivered to w, not yet settled

queueVars == <<queue, published, msg, linked>>

QueueTypeOK == /\ queue \in SUBSET WorkflowMessage
               /\ published \in Nat
               /\ msg \in [Workers -> WorkflowMessage \cup {NoMessage}]
               /\ linked \in [Workers -> BOOLEAN]

QueueInit == /\ queue = {}
             /\ published = 0
             /\ msg = [w \in Workers |-> NoMessage]
             /\ linked = [w \in Workers |-> FALSE]

Ready(t) == {m \in queue : /\ m.step.type = t
                           /\ \A w \in Workers : linked[w] => msg[w] # m}

Publish(k, a) ==
  /\ queue' = queue \cup {[tag |-> published + 1, step |-> k, input |-> a]}
  /\ published' = published + 1
  /\ UNCHANGED <<msg, linked>>

Deliver(w) ==
  /\ \E m \in Ready(Service[w]) :
       /\ \A other \in Ready(Service[w]) : m.tag <= other.tag
       /\ msg' = [msg EXCEPT ![w] = m]
  /\ linked' = [linked EXCEPT ![w] = TRUE]
  /\ UNCHANGED <<queue, published>>

(***************************************************************************)
(* The end of raw.process(requeue=True): acknowledge after a normal        *)
(* return, reject with requeue after an exception.  On a channel that has  *)
(* closed neither reaches the message, which was requeued at the close.    *)
(***************************************************************************)
Acknowledge(w) ==
  /\ queue' = IF linked[w] THEN queue \ {msg[w]} ELSE queue
  /\ msg' = [msg EXCEPT ![w] = NoMessage]
  /\ linked' = [linked EXCEPT ![w] = FALSE]
  /\ UNCHANGED published

Requeue(w) ==
  /\ msg' = [msg EXCEPT ![w] = NoMessage]
  /\ linked' = [linked EXCEPT ![w] = FALSE]
  /\ UNCHANGED <<queue, published>>

(***************************************************************************)
(* The channel closes under a handler that goes on running.                *)
(***************************************************************************)
CloseChannel(w) ==
  /\ linked[w]
  /\ linked' = [linked EXCEPT ![w] = FALSE]
  /\ UNCHANGED <<queue, published, msg>>
==========================================================================
