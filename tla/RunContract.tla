---------------------------- MODULE RunContract -----------------------------
(***************************************************************************)
(* What the control plane promises about a run, without requests, leases   *)
(* or budgets: a run is worked on by one attempt at a time, attempts are   *)
(* numbered and limited, only the attempt at work can make the run         *)
(* succeed or fail, and a run that has ended stays as it ended.            *)
(***************************************************************************)
EXTENDS Naturals

CONSTANT MaxAttempts

VARIABLES
    mode,   \* "absent", "waiting", "working", "parked" or an end
    epoch   \* number of the latest attempt

contractVars == <<mode, epoch>>

Ends == {"succeeded", "failed", "cancelled"}

Init == mode = "absent" /\ epoch = 0

Create == mode = "absent" /\ mode' = "waiting" /\ epoch' = epoch

(* A worker is given the next attempt. *)
Grant ==
    /\ mode = "waiting"
    /\ epoch < MaxAttempts
    /\ mode' = "working"
    /\ epoch' = epoch + 1

(* The attempt at work ends; another one is wanted, people are, or none.   *)
Finish ==
    /\ mode = "working"
    /\ mode' \in {"parked", "succeeded", "failed"}
    /\ epoch' = epoch

Retry ==
    /\ mode \in {"working", "parked"}
    /\ epoch < MaxAttempts
    /\ mode' = "waiting"
    /\ epoch' = epoch

Cancel ==
    /\ mode \in {"waiting", "working", "parked"}
    /\ mode' = "cancelled"
    /\ epoch' = epoch

Next == Create \/ Grant \/ Finish \/ Retry \/ Cancel

Spec == Init /\ [][Next]_contractVars
=============================================================================
