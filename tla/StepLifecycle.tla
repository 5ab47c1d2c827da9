--------------------------- MODULE StepLifecycle ---------------------------
(***************************************************************************)
(* What the workflow_steps table and the worker promise of a step, without *)
(* messages, artifacts or calls: a step is created once, claimed only when *)
(* it is pending or failed and nobody executes it, and completed or failed *)
(* only by the one worker that claimed it.  A worker that dies, or fails   *)
(* where nothing catches it, lets go of its step and leaves the status as  *)
(* it is.                                                                  *)
(***************************************************************************)
CONSTANTS Steps,      \* the steps that may be created
          Executors   \* the workers that may execute them

VARIABLES status,     \* status[k], for the steps that were created
          executing   \* executing[w], for the workers that execute a step

lifecycleVars == <<status, executing>>

Init == /\ status = [k \in {} |-> "pending"]
        /\ executing = [w \in {} |-> "nothing"]

LetGo(w) == executing' = [v \in DOMAIN executing \ {w} |-> executing[v]]

Become(k, new) == status' = [status EXCEPT ![k] = new]

Create(k) == /\ k \notin DOMAIN status
             /\ UNCHANGED executing
             /\ status' = [j \in DOMAIN status \cup {k} |->
                             IF j = k THEN "pending" ELSE status[j]]

Grantable(k) == /\ status[k] \in {"pending", "failed"}
                /\ \A v \in DOMAIN executing : executing[v] # k

Claim(w, k) == /\ Grantable(k)
               /\ w \notin DOMAIN executing
               /\ Become(k, "running")
               /\ executing' = [v \in DOMAIN executing \cup {w} |->
                                  IF v = w THEN k ELSE executing[v]]

\* The claim is committed, and the worker never hears of it.
ClaimUnheard(k) == /\ Grantable(k)
                   /\ Become(k, "running")
                   /\ UNCHANGED executing

Complete(w) == /\ status[executing[w]] = "running"
               /\ Become(executing[w], "completed")
               /\ UNCHANGED executing

Fail(w) == /\ status[executing[w]] \in {"running", "completed"}
           /\ Become(executing[w], "failed")
           /\ LetGo(w)

\* The worker is done with a completed step, or abandons a running one.
Release(w) == /\ LetGo(w)
              /\ UNCHANGED status

Next == \/ \E w \in DOMAIN executing : Complete(w) \/ Fail(w) \/ Release(w)
        \/ \E k \in DOMAIN status : \/ ClaimUnheard(k)
                                    \/ \E w \in Executors : Claim(w, k)
        \/ \E k \in Steps : Create(k)

Spec == Init /\ [][Next]_lifecycleVars
=============================================================================
