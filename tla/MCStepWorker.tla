--------------------------- MODULE MCStepWorker ---------------------------
(***************************************************************************)
(* The step worker under a handler that may return what the type of        *)
(* StepResult allows and no handler of the repository returns: any status, *)
(* a second attempt without an override, nothing to do next.               *)
(***************************************************************************)
EXTENDS StepWorker, TLC

ServiceOfWorker ==
  [w \in Workers |-> IF w = "ticket_to_prompt_2" THEN "ticket_to_prompt" ELSE w]

AllLabels == Labels \cup RequestLabels

Replicas == {"ticket_to_prompt", "ticket_to_prompt_2"}

AllFaults == {"error", "lost_reply", "crash", "disconnect"}

Plain(c) == [content |-> [c EXCEPT !.type = "prompt"], next |-> None,
             attempt |-> 1, terminal |-> None, event |-> None,
             failure |-> FALSE, override |-> None]

AnyResults(type, c) ==
  IF type # "ticket_to_prompt"
    THEN {Plain(c)}
    ELSE {[Plain(c) EXCEPT !.terminal = status, !.failure = failure] :
            status \in {"pending", "failed"}, failure \in BOOLEAN}
           \cup {[Plain(c) EXCEPT !.override = status] :
                   status \in {"pending", "running", None}}
           \cup {[Plain(c) EXCEPT !.next = "failure_routing",
                                  !.attempt = attempt, !.override = status] :
                   attempt \in Attempt, status \in {"pending", "running", None}}

(***************************************************************************)
(* For two runs at once: a handler that hands its work on, or whose result *)
(* the worker refuses after the step was completed.                        *)
(***************************************************************************)
HandsOnOrFails(type, c) ==
  IF type # "ticket_to_prompt"
    THEN {Plain(c)}
    ELSE {[Plain(c) EXCEPT !.next = "failure_routing"],
          [Plain(c) EXCEPT !.terminal = "pending"]}

RunSymmetry == Permutations(Runs)
===========================================================================
