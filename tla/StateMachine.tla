---------------------------- MODULE StateMachine ----------------------------
(***************************************************************************)
(* The three transition tables of the control plane                        *)
(* (apps/control-plane/src/state-machine/state-machine.ts).  A pair        *)
(* <<from, to>> is legal when to is in the table's row for from; a status  *)
(* with an empty row is terminal.                                          *)
(***************************************************************************)

TaskStatus ==
    {"CREATED", "QUEUED", "RUNNING", "NEEDS_ATTENTION", "AWAITING_APPROVAL",
     "APPROVED", "PR_FAILED", "PR_CREATED", "RESOLVED", "REJECTED", "FAILED",
     "CANCELLED"}

RunStatus ==
    {"PENDING", "DISPATCHED", "RUNNING", "VERIFYING", "INTERRUPTED",
     "RECOVERING", "SUCCEEDED", "FAILED", "CANCELLED"}

AttemptStatus ==
    {"CLAIMED", "RUNNING", "SUCCEEDED", "FAILED", "CRASHED", "TIMED_OUT",
     "LEASE_EXPIRED"}

TASK_TRANSITIONS ==
    ({"CREATED"} \X {"QUEUED", "CANCELLED"})
    \union ({"QUEUED"} \X {"RUNNING", "CANCELLED"})
    \union ({"RUNNING"} \X {"AWAITING_APPROVAL", "NEEDS_ATTENTION", "FAILED", "CANCELLED"})
    \union ({"NEEDS_ATTENTION"} \X {"QUEUED", "CANCELLED"})
    \union ({"AWAITING_APPROVAL"} \X {"APPROVED", "REJECTED", "CANCELLED"})
    \union ({"APPROVED"} \X {"PR_CREATED", "PR_FAILED", "CANCELLED"})
    \union ({"PR_FAILED"} \X {"APPROVED", "CANCELLED"})
    \union ({"PR_CREATED"} \X {"RESOLVED"})

RUN_TRANSITIONS ==
    ({"PENDING"} \X {"DISPATCHED", "CANCELLED"})
    \union ({"DISPATCHED"} \X {"RUNNING", "INTERRUPTED", "CANCELLED"})
    \union ({"RUNNING"} \X {"VERIFYING", "INTERRUPTED", "CANCELLED"})
    \union ({"VERIFYING"} \X {"SUCCEEDED", "RUNNING", "INTERRUPTED", "CANCELLED"})
    \union ({"INTERRUPTED"} \X {"RECOVERING", "FAILED", "CANCELLED"})
    \union ({"RECOVERING"} \X {"DISPATCHED", "FAILED", "CANCELLED"})

ATTEMPT_TRANSITIONS ==
    ({"CLAIMED"} \X {"RUNNING", "FAILED", "LEASE_EXPIRED"})
    \union ({"RUNNING"} \X {"SUCCEEDED", "FAILED", "CRASHED", "TIMED_OUT", "LEASE_EXPIRED"})

(* isTerminal of the run's state machine: no row leaves the status. *)
RunTerminal(status) == \A to \in RunStatus : <<status, to>> \notin RUN_TRANSITIONS
=============================================================================
