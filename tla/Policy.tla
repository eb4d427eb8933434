------------------------------- MODULE Policy -------------------------------
(***************************************************************************)
(* The recovery decision table (apps/control-plane/src/modules/policy/     *)
(* policy-engine.ts): what to do with an attempt that failed with a given  *)
(* code, below and at the run's attempt limit.                             *)
(***************************************************************************)
EXTENDS Naturals

MODEL_FAILURES == {"MODEL_RATE_LIMIT", "MODEL_API_ERROR"}

ResumableCode ==
    MODEL_FAILURES \union
    {"MODEL_BAD_OUTPUT", "TOOL_EXEC_ERROR", "SANDBOX_CRASHED", "WORKER_LOST",
     "VERIFY_STATIC_FAILED", "VERIFY_TARGET_TESTS_FAILED", "VERIFY_REGRESSION_FAILED"}

RestartableCode == {"SANDBOX_START_FAILED", "PATCH_APPLY_FAILED", "AGENT_STUCK"}

BudgetCode ==
    {"BUDGET_TOKENS_EXCEEDED", "BUDGET_TIME_EXCEEDED", "BUDGET_TURNS_EXCEEDED"}

ForbiddenPatchCode ==
    {"VERIFY_SCOPE_VIOLATION", "VERIFY_TEST_TAMPERING", "VERIFY_PATCH_MALFORMED"}

HumanCode == {"HUMAN_REJECTED", "CANCELLED_BY_USER"}

FailureCode ==
    ResumableCode \union RestartableCode \union BudgetCode
    \union ForbiddenPatchCode \union HumanCode

PolicyAction == {"RESUME", "RESTART_ATTEMPT", "ESCALATE_HUMAN", "ABORT"}

(* The column of TABLE for an attempt number below maxAttempts. *)
BelowMax(code) ==
    CASE code \in ResumableCode -> "RESUME"
      [] code \in RestartableCode \union ForbiddenPatchCode -> "RESTART_ATTEMPT"
      [] code \in BudgetCode -> "ESCALATE_HUMAN"
      [] OTHER -> "ABORT"

(* The column of TABLE once maxAttempts is reached. *)
AtMax(code) ==
    IF code \in ForbiddenPatchCode \union HumanCode THEN "ABORT" ELSE "ESCALATE_HUMAN"

(* Slip: off by one at the attempt limit. *)
decidePolicyOneMore(code, attemptNo, maxAttempts) ==
    IF attemptNo > maxAttempts THEN AtMax(code) ELSE BelowMax(code)

decidePolicy(code, attemptNo, maxAttempts) ==
    IF attemptNo >= maxAttempts THEN AtMax(code) ELSE BelowMax(code)

(* Whether the decision waits (30s * 2^(attemptNo - 1)) before it retries. *)
BacksOff(code, attemptNo, maxAttempts) ==
    /\ decidePolicy(code, attemptNo, maxAttempts) = "RESUME"
    /\ code \in MODEL_FAILURES
=============================================================================
