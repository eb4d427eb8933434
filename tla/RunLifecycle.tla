---------------------------- MODULE RunLifecycle ----------------------------
(***************************************************************************)
(* One run of one task, from its creation to its end: the rows the control *)
(* plane keeps for it and every handler that writes them                   *)
(* (RunLifecycleService, RunControlService, BudgetService, LeaseMonitor    *)
(* and the worker-facing InternalController).                              *)
(*                                                                         *)
(* A handler that reads outside its transaction is two or three actions:   *)
(* what it read is kept in a request variable (claim, beat, req, mon,      *)
(* pauser) and may be stale when the transaction runs.  A transaction that *)
(* locks the Run row is one action.  A refused transaction is rolled back, *)
(* so it only ends the request.                                            *)
(*                                                                         *)
(* Wall-clock time is nondeterministic: a lease may lapse, the execution   *)
(* time run out and the deadline pass whenever time can do that.  Token    *)
(* amounts are abstracted to whether usedTokens reached budgetTokens.      *)
(***************************************************************************)
EXTENDS Naturals, Sequences, StateMachine, Policy

CONSTANTS
    MaxAttempts,       \* run.maxAttempts
    Workers,           \* worker processes that may ask to claim an attempt
    Calls,             \* ids of model calls (BudgetCall rows)
    Codes,             \* failure codes a worker reports
    PauseReasons       \* reasons a worker pauses its task with

ASSUME MaxAttemptsAssumption == MaxAttempts \in Nat \ {0}
ASSUME CodesAssumption == Codes \subseteq FailureCode

VARIABLES
    kind,              \* "fixture" (no task.snapshot), "experiment" (a fixture
                       \* task with run.recoveryDisabled) or "snapshot"
    run, phase,        \* Run.status ("ABSENT" before creation), Run.phase
    task, reason,      \* Task.status, Task.attentionReason ("none": null)
    att,               \* Attempt.status by number ("NONE": no row)
    lease,             \* leaseExpiresAt by attempt: in the future or lapsed
    activeStartedAt,   \* 0 is null, else the attempt whose claim set it
    charges,           \* how often an attempt's active time was added to usedSeconds
    time,              \* "out": usedSeconds plus the active time >= budgetSeconds
    overdue,           \* deadlineAt has passed
    tokens,            \* "out": usedTokens >= budgetTokens
    calls,             \* BudgetCall.status by id ("NONE": no row)
    checkpoint,        \* attempt that wrote the run's latest Checkpoint, 0: none
    outbox,            \* OutboxMessage rows of the run, oldest first
    patch,             \* attempt that wrote the latest PATCH artifact, 0: none
    approval,          \* Approval rows: the attempt whose patch digest each holds
    hops,              \* status changes the last transaction put on the timeline
    claim,             \* claim requests between their reads and their transaction
    beat,              \* heartbeats past the lease check
    req,               \* where the worker's request for its attempt stands
    mon,               \* where the lease monitor stands
    pauser             \* attempt a user's pause request read, 0: none

runVars == <<run, phase, task, reason, hops>>
limitVars == <<kind, overdue>>
timeVars == <<activeStartedAt, charges, time>>
budgetVars == <<tokens, calls>>
resultVars == <<checkpoint, outbox, patch, approval>>
requestVars == <<claim, beat, req, mon, pauser>>
rows == <<limitVars, runVars, att, lease, timeVars, budgetVars, resultVars>>
vars == <<rows, requestVars>>

Attempts == 1..MaxAttempts
Phases == {"QUEUED", "WORKING", "NEEDS_ATTENTION", "AWAITING_APPROVAL",
           "FAILED", "CANCELLED"}
BlockingReasons == {"NOT_REPRODUCED", "EVIDENCE_MISMATCH", "CONTRACT_CHANGED"}
Reasons == {"none", "MODEL_USAGE_UNKNOWN", "BUDGET_EXHAUSTED", "PAUSED_BY_USER",
            "WORKER_LOST"} \union FailureCode \union PauseReasons
Command == [no : Attempts, why : {"START", "RESUME", "RESTART_ATTEMPT", "MANUAL"},
            checkpoint : 0..MaxAttempts]
NoClaim == [no |-> 0, clock |-> 0]
MonitorIdle == [pc |-> "idle", no |-> 0, run |-> "ABSENT"]

RunTypeOK ==
    /\ kind \in {"none", "fixture", "experiment", "snapshot"}
    /\ overdue \in BOOLEAN
    /\ run \in RunStatus \union {"ABSENT"}
    /\ phase \in Phases
    /\ task \in TaskStatus
    /\ reason \in Reasons
    /\ hops \in Seq((RunStatus \union {"ABSENT"}) \X RunStatus)

AttemptTypeOK ==
    /\ att \in [Attempts -> AttemptStatus \union {"NONE"}]
    /\ lease \in [Attempts -> {"none", "live", "lapsed"}]
    /\ activeStartedAt \in 0..MaxAttempts
    /\ charges \in [Attempts -> Nat]
    /\ time \in {"left", "out"}

BudgetTypeOK ==
    /\ tokens \in {"left", "out"}
    /\ calls \in [Calls -> {"NONE", "RESERVED", "UNKNOWN", "SETTLED"}]

ResultTypeOK ==
    /\ checkpoint \in 0..MaxAttempts
    /\ outbox \in Seq(Command)
    /\ patch \in 0..MaxAttempts
    /\ approval \in Seq(0..MaxAttempts)

RequestTypeOK ==
    /\ claim \in [Workers -> [no : 0..MaxAttempts, clock : 0..MaxAttempts]]
    /\ beat \in [Attempts -> BOOLEAN]
    /\ req \in [Attempts -> [pc : {"idle", "checkpoint", "complete", "loaded"},
                             run : RunStatus \union {"ABSENT"}]]
    /\ mon \in [pc : {"idle", "scanned", "loaded"}, no : 0..MaxAttempts,
                run : RunStatus \union {"ABSENT"}]
    /\ pauser \in 0..MaxAttempts

(* TypeOK: every row and request keeps its type; in particular the         *)
(* recovery policy never commands an attempt beyond run.maxAttempts.       *)
TypeOK ==
    RunTypeOK /\ AttemptTypeOK /\ BudgetTypeOK /\ ResultTypeOK /\ RequestTypeOK

Init ==
    /\ kind = "none"
    /\ run = "ABSENT" /\ phase = "QUEUED" /\ task = "CREATED" /\ reason = "none"
    /\ hops = <<>>
    /\ att = [n \in Attempts |-> "NONE"]
    /\ lease = [n \in Attempts |-> "none"]
    /\ activeStartedAt = 0
    /\ charges = [n \in Attempts |-> 0]
    /\ time = "left" /\ overdue = FALSE /\ tokens = "left"
    /\ calls = [c \in Calls |-> "NONE"]
    /\ checkpoint = 0 /\ outbox = <<>> /\ patch = 0 /\ approval = <<>>
    /\ claim = [w \in Workers |-> NoClaim]
    /\ beat = [n \in Attempts |-> FALSE]
    /\ req = [n \in Attempts |-> [pc |-> "idle", run |-> "ABSENT"]]
    /\ mon = MonitorIdle
    /\ pauser = 0

-----------------------------------------------------------------------------
(* Helpers *)

Snapshot == kind = "snapshot"
RecoveryDisabled == kind = "experiment"

(* n is the highest attempt number, 0 when there is no attempt. *)
IsLatest(n) ==
    /\ n # 0 => att[n] # "NONE"
    /\ \A m \in Attempts : m > n => att[m] = "NONE"

Unsettled == {c \in Calls : calls[c] \in {"RESERVED", "UNKNOWN"}}

(* Adds the time since activeStartedAt = clock to usedSeconds. *)
Charge(charged, clock) ==
    [n \in Attempts |-> IF n = clock THEN charged[n] + 1 ELSE charged[n]]

LiveRun == {"RUNNING", "VERIFYING"}

(* Slip: the token and the expiry are looked at, the statuses are not. *)
HoldsLeaseByToken(n) == lease[n] = "live"

(* RunControlService.lease for the worker that holds attempt n's token. *)
HoldsLease(n) == att[n] = "RUNNING" /\ lease[n] = "live" /\ run \in LiveRun

(* Slip: the execution time is not looked at. *)
TimeLeftUntilDeadline == ~overdue

(* The part of lease() that checkTime switches on. *)
TimeLeft == ~overdue /\ (activeStartedAt # 0 => time = "left")

(* Idle worker request of an attempt. *)
IdleReq == [pc |-> "idle", run |-> "ABSENT"]

-----------------------------------------------------------------------------
(* Creation *)

(* RunLifecycleService.createTask: everything in one transaction, up to    *)
(* the DISPATCHED run and its first command.                               *)
CreateTask(k) ==
    /\ run = "ABSENT"
    /\ kind' = k
    /\ run' = "DISPATCHED"
    /\ task' = "QUEUED"
    /\ outbox' = Append(outbox, [no |-> 1, why |-> "START", checkpoint |-> 0])
    /\ hops' = <<<<"PENDING", "DISPATCHED">>>>
    /\ UNCHANGED <<overdue, phase, reason, att, lease, timeVars, budgetVars,
                   checkpoint, patch, approval, requestVars>>

(* The transaction of TaskDraftService.confirm inserts task and run in     *)
(* their final status and puts nothing on the timeline.                    *)
Confirm ==
    /\ run = "ABSENT"
    /\ kind' = "snapshot"
    /\ run' = "DISPATCHED"
    /\ task' = "QUEUED"
    /\ outbox' = Append(outbox, [no |-> 1, why |-> "START", checkpoint |-> 0])
    /\ UNCHANGED <<overdue, phase, reason, hops, att, lease, timeVars, budgetVars,
                   checkpoint, patch, approval, requestVars>>

-----------------------------------------------------------------------------
(* Claiming an attempt *)

(* claimAttempt, the reads before the transaction.  Delivery is at least   *)
(* once and in any order: a worker may ask for any commanded attempt.  An  *)
(* existing attempt is answered as a duplicate, without a lease token.     *)
ClaimLoad(w, n) ==
    /\ claim[w] = NoClaim
    /\ \E i \in DOMAIN outbox : outbox[i].no = n
    /\ att[n] = "NONE"
    /\ run = "DISPATCHED"
    /\ claim' = [claim EXCEPT ![w] = [no |-> n, clock |-> activeStartedAt]]
    /\ UNCHANGED <<rows, beat, req, mon, pauser>>

(* claimAttempt, the transaction.  activeStartedAt comes from the stale    *)
(* read of the run.                                                        *)
ClaimCommit(w, n) ==
    /\ claim[w].no = n
    /\ run = "DISPATCHED"
    /\ IsLatest(n - 1)
    /\ att' = [att EXCEPT ![n] = "RUNNING"]
    /\ lease' = [lease EXCEPT ![n] = "live"]
    /\ run' = "RUNNING"
    /\ hops' = <<<<"DISPATCHED", "RUNNING">>>>
    /\ activeStartedAt' = IF claim[w].clock # 0 THEN claim[w].clock ELSE n
    /\ task' = IF task = "QUEUED" THEN "RUNNING" ELSE task
    /\ claim' = [claim EXCEPT ![w] = NoClaim]
    /\ UNCHANGED <<phase, reason, charges, time, limitVars, budgetVars, resultVars,
                   beat, req, mon, pauser>>

ClaimRefused(w) ==
    /\ claim[w] # NoClaim
    /\ ~(run = "DISPATCHED" /\ IsLatest(claim[w].no - 1))
    /\ claim' = [claim EXCEPT ![w] = NoClaim]
    /\ UNCHANGED <<rows, beat, req, mon, pauser>>

-----------------------------------------------------------------------------
(* Heartbeats: the lease check and the update are two statements *)

HeartbeatLease(n) ==
    /\ ~beat[n]
    /\ HoldsLease(n) /\ TimeLeft
    /\ beat' = [beat EXCEPT ![n] = TRUE]
    /\ UNCHANGED <<rows, claim, req, mon, pauser>>

Heartbeat(n) ==
    /\ beat[n]
    /\ lease' = IF att[n] \in {"CLAIMED", "RUNNING"}
                THEN [lease EXCEPT ![n] = "live"] ELSE lease
    /\ beat' = [beat EXCEPT ![n] = FALSE]
    /\ UNCHANGED <<runVars, att, limitVars, timeVars, budgetVars, resultVars,
                   claim, req, mon, pauser>>

-----------------------------------------------------------------------------
(* Recovery policy: applyPolicy inside the transaction that ended attempt  *)
(* n.  st is the run's status so far in that transaction, log what it put  *)
(* on the timeline, clock and charged the time accounting so far.          *)

(* Slip: calls without a settled usage are not looked at. *)
UnfundedBySums == tokens = "out" \/ time = "out" \/ overdue

(* A snapshot run that may not spend any more. *)
Unfunded == Unsettled # {} \/ tokens = "out" \/ time = "out" \/ overdue

Park(st, log, why) ==
    /\ run' = st
    /\ phase' = "NEEDS_ATTENTION"
    /\ task' = "NEEDS_ATTENTION"
    /\ reason' = why
    /\ hops' = log
    /\ UNCHANGED outbox

ParkUnfunded(st, log) ==
    /\ Park(st, log, IF Unsettled # {} THEN "MODEL_USAGE_UNKNOWN" ELSE "BUDGET_EXHAUSTED")
    /\ activeStartedAt' = 0
    /\ time' = time

(* RESUME with a backoff that uses up the remaining execution time. *)
ParkBackedOff(st, log, clock) ==
    /\ Snapshot
    /\ Park(st, log, "BUDGET_EXHAUSTED")
    /\ time' = "out"
    /\ activeStartedAt' = clock

Redispatch(n, action, st, log, clock) ==
    /\ st = "INTERRUPTED"
    /\ run' = "DISPATCHED"
    /\ hops' = log \o <<<<"INTERRUPTED", "RECOVERING">>, <<"RECOVERING", "DISPATCHED">>>>
    /\ phase' = IF Snapshot THEN "QUEUED" ELSE phase
    /\ outbox' = Append(outbox, [no |-> n + 1, why |-> action,
           checkpoint |-> IF action = "RESUME" THEN checkpoint ELSE 0])
    /\ activeStartedAt' = clock
    /\ UNCHANGED <<task, reason, time>>

Abort(st, log) ==
    /\ st = "INTERRUPTED"
    /\ run' = "FAILED"
    /\ hops' = Append(log, <<"INTERRUPTED", "FAILED">>)
    /\ phase' = "FAILED"
    /\ task' = IF task = "RUNNING" THEN "FAILED" ELSE task
    /\ activeStartedAt' = 0
    /\ UNCHANGED <<reason, outbox, time>>

Escalate(st, log, code) ==
    /\ Park(st, log, code)
    /\ activeStartedAt' = 0
    /\ time' = time

applyPolicy(n, code, st, log, clock, charged) ==
    LET action == IF RecoveryDisabled THEN "ABORT"
                  ELSE decidePolicy(code, n, MaxAttempts)
        clockLeft == IF Snapshot THEN 0 ELSE clock
    IN  /\ charges' = IF Snapshot THEN Charge(charged, clock) ELSE charged
        /\ \/ /\ Snapshot /\ Unfunded
              /\ ParkUnfunded(st, log)
           \/ /\ ~(Snapshot /\ Unfunded)
              /\ \/ /\ ~RecoveryDisabled /\ BacksOff(code, n, MaxAttempts)
                    /\ ParkBackedOff(st, log, clockLeft)
                 \/ /\ action \in {"RESUME", "RESTART_ATTEMPT"}
                    /\ Redispatch(n, action, st, log, clockLeft)
                 \/ action = "ABORT" /\ Abort(st, log)
                 \/ action = "ESCALATE_HUMAN" /\ Escalate(st, log, code)

(* transitionRun(seen, INTERRUPTED) when the status read earlier is live:  *)
(* it fails if the run has moved on since.                                 *)
StaleLive(seen) == seen \in {"RUNNING", "VERIFYING", "DISPATCHED"}
InterruptAllowed(seen) == StaleLive(seen) => run = seen
Interrupted(seen) == IF StaleLive(seen) THEN "INTERRUPTED" ELSE run
(* Slip: the interruption is not recorded. *)
InterruptLogOmitted(seen) == <<>>
InterruptLog(seen) == IF StaleLive(seen) THEN <<<<seen, "INTERRUPTED">>>> ELSE <<>>

-----------------------------------------------------------------------------
(* Completion: the controller's lease check, the read, the transaction *)

CompleteLease(n) ==
    /\ req[n].pc = "idle"
    /\ HoldsLease(n) /\ TimeLeft
    /\ req' = [req EXCEPT ![n] = [pc |-> "complete", run |-> "ABSENT"]]
    /\ UNCHANGED <<rows, claim, beat, mon, pauser>>

(* completeAttempt reads attempt and run; an ended attempt is answered     *)
(* with its status and nothing is written.                                 *)
CompleteLoad(n) ==
    /\ req[n].pc = "complete"
    /\ req' = [req EXCEPT ![n] = IF att[n] = "RUNNING"
                                 THEN [pc |-> "loaded", run |-> run] ELSE IdleReq]
    /\ UNCHANGED <<rows, claim, beat, mon, pauser>>

(* Slip: the clock goes on after its time was charged. *)
ExtrasClockGoesOn == activeStartedAt

(* persistExtras: a snapshot run's active time is charged and its clock    *)
(* stopped; a legacy run is charged what the worker reports and its clock  *)
(* goes on.  A patch becomes the latest PATCH artifact.                    *)
ExtrasClock == IF Snapshot THEN 0 ELSE activeStartedAt
ExtrasCharges(n) == Charge(charges, IF Snapshot THEN activeStartedAt ELSE n)
ExtrasPatch(p) == patch' = IF p = 0 THEN patch ELSE p

(* Slips: the attempt's status, or the usage of its calls, is not looked at. *)
MaySucceedAfterEnd(n) == lease[n] = "live" /\ (Snapshot => Unsettled = {})
MaySucceedUnsettled(n) == att[n] = "RUNNING" /\ lease[n] = "live"

MaySucceed(n) ==
    /\ att[n] = "RUNNING" /\ lease[n] = "live"
    /\ Snapshot => Unsettled = {}

CompleteSucceeded(n) ==
    /\ req[n].pc = "loaded"
    /\ MaySucceed(n)
    /\ run = "RUNNING" /\ task = "RUNNING"
    /\ att' = [att EXCEPT ![n] = "SUCCEEDED"]
    /\ activeStartedAt' = ExtrasClock
    /\ charges' = ExtrasCharges(n)
    /\ run' = "SUCCEEDED"
    /\ hops' = <<<<"RUNNING", "VERIFYING">>, <<"VERIFYING", "SUCCEEDED">>>>
    /\ task' = "AWAITING_APPROVAL"
    /\ phase' = "AWAITING_APPROVAL"
    /\ \E p \in {0, n} : ExtrasPatch(p) /\ approval' = Append(approval, p)
    /\ req' = [req EXCEPT ![n] = IdleReq]
    /\ UNCHANGED <<reason, lease, time, limitVars, budgetVars, checkpoint, outbox,
                   claim, beat, mon, pauser>>

CompleteFailed(n, code) ==
    /\ req[n].pc = "loaded"
    /\ att[n] = "RUNNING"
    /\ InterruptAllowed(req[n].run)
    /\ att' = [att EXCEPT ![n] = "FAILED"]
    /\ \E p \in {0, n} : ExtrasPatch(p)
    /\ applyPolicy(n, code, Interrupted(req[n].run), InterruptLog(req[n].run),
                   ExtrasClock, ExtrasCharges(n))
    /\ req' = [req EXCEPT ![n] = IdleReq]
    /\ UNCHANGED <<lease, limitVars, budgetVars, checkpoint, approval,
                   claim, beat, mon, pauser>>

CompleteRefused(n) ==
    /\ req[n].pc = "loaded"
    /\ \/ ~(MaySucceed(n) /\ run = "RUNNING" /\ task = "RUNNING")
       \/ ~InterruptAllowed(req[n].run)
    /\ req' = [req EXCEPT ![n] = IdleReq]
    /\ UNCHANGED <<rows, claim, beat, mon, pauser>>

-----------------------------------------------------------------------------
(* Checkpoints: the controller's lease check, then the transaction *)

CheckpointLease(n) ==
    /\ req[n].pc = "idle"
    /\ HoldsLease(n) /\ TimeLeft
    /\ req' = [req EXCEPT ![n] = [pc |-> "checkpoint", run |-> "ABSENT"]]
    /\ UNCHANGED <<rows, claim, beat, mon, pauser>>

saveCheckpoint(n) ==
    /\ req[n].pc = "checkpoint"
    /\ checkpoint' = IF HoldsLease(n) THEN n ELSE checkpoint
    /\ req' = [req EXCEPT ![n] = IdleReq]
    /\ UNCHANGED <<runVars, att, lease, limitVars, timeVars, budgetVars, outbox, patch,
                   approval, claim, beat, mon, pauser>>

-----------------------------------------------------------------------------
(* Lease monitor: scan, read, transaction *)

MonitorScan(n) ==
    /\ mon.pc = "idle"
    /\ att[n] \in {"CLAIMED", "RUNNING"} /\ lease[n] = "lapsed"
    /\ mon' = [pc |-> "scanned", no |-> n, run |-> "ABSENT"]
    /\ UNCHANGED <<rows, claim, beat, req, pauser>>

MonitorLoad ==
    /\ mon.pc = "scanned"
    /\ mon' = IF att[mon.no] \in {"RUNNING", "CLAIMED"}
              THEN [pc |-> "loaded", no |-> mon.no, run |-> run] ELSE MonitorIdle
    /\ UNCHANGED <<rows, claim, beat, req, pauser>>

(* Slip: the expiry is looked at again, the attempt's status is not. *)
LeaseLostByClock(n) == lease[n] = "lapsed"

LeaseLost(n) == att[n] \in {"CLAIMED", "RUNNING"} /\ lease[n] = "lapsed"

handleLeaseExpired(n) ==
    /\ mon.pc = "loaded" /\ mon.no = n
    /\ LeaseLost(n)
    /\ InterruptAllowed(mon.run)
    /\ att' = [att EXCEPT ![n] = "LEASE_EXPIRED"]
    /\ applyPolicy(n, "WORKER_LOST", Interrupted(mon.run), InterruptLog(mon.run),
                   activeStartedAt, charges)
    /\ mon' = MonitorIdle
    /\ UNCHANGED <<lease, limitVars, budgetVars, checkpoint, patch, approval,
                   claim, beat, req, pauser>>

(* Renewed or ended by someone else in the meantime. *)
MonitorSkips ==
    /\ mon.pc = "loaded"
    /\ ~(LeaseLost(mon.no) /\ InterruptAllowed(mon.run))
    /\ mon' = MonitorIdle
    /\ UNCHANGED <<rows, claim, beat, req, pauser>>

-----------------------------------------------------------------------------
(* Worker and user control of the run *)

(* RunControlService.phase; the five phases a worker reports are WORKING.  *)
(* runner.py reports phases and pauses for snapshot commands only.  The    *)
(* timeline entry about the phase is not a status change, so not in hops.  *)
Phase(n) ==
    /\ Snapshot
    /\ HoldsLease(n) /\ TimeLeft
    /\ phase' = "WORKING"
    /\ UNCHANGED <<run, task, reason, hops, att, lease, limitVars, timeVars, budgetVars,
                   resultVars, requestVars>>

(* RunControlService.pause in its transaction; it skips the time check.    *)
pause(n, why, p) ==
    /\ HoldsLease(n)
    /\ run' = "INTERRUPTED"
    /\ phase' = "NEEDS_ATTENTION"
    /\ charges' = Charge(charges, activeStartedAt)
    /\ activeStartedAt' = 0
    /\ att' = [att EXCEPT ![n] = "FAILED"]
    /\ task' = "NEEDS_ATTENTION"
    /\ reason' = why
    /\ ExtrasPatch(p)
    /\ hops' = <<<<run, "INTERRUPTED">>>>
    /\ UNCHANGED <<lease, time, limitVars, budgetVars, checkpoint, outbox, approval>>

WorkerPause(n, why) ==
    /\ Snapshot
    /\ \E p \in {0, n} : pause(n, why, p)
    /\ UNCHANGED requestVars

(* RunControlService.pauseRun reads the running attempt, then pauses it.   *)
PauseRunLoad(n) ==
    /\ pauser = 0
    /\ att[n] = "RUNNING"
    /\ \A m \in Attempts : att[m] = "RUNNING" => m <= n
    /\ pauser' = n
    /\ UNCHANGED <<rows, claim, beat, req, mon>>

PauseRun(n) ==
    /\ pauser = n
    /\ pause(n, "PAUSED_BY_USER", 0)
    /\ pauser' = 0
    /\ UNCHANGED <<claim, beat, req, mon>>

PauseRunRefused ==
    /\ pauser # 0
    /\ ~HoldsLease(pauser)
    /\ pauser' = 0
    /\ UNCHANGED <<rows, claim, beat, req, mon>>

Cancel ==
    /\ run \notin {"ABSENT", "CANCELLED", "SUCCEEDED", "FAILED"}
    /\ run' = "CANCELLED"
    /\ phase' = "CANCELLED"
    /\ task' = "CANCELLED"
    /\ charges' = Charge(charges, activeStartedAt)
    /\ activeStartedAt' = 0
    /\ att' = [n \in Attempts |->
                 IF att[n] \in {"RUNNING", "CLAIMED"} THEN "FAILED" ELSE att[n]]
    /\ hops' = <<<<run, "CANCELLED">>>>
    /\ UNCHANGED <<reason, lease, time, limitVars, budgetVars, resultVars, requestVars>>

(* Slip: the reason the run was parked for is not looked at. *)
MayResumeAnyReason ==
    /\ run = "INTERRUPTED" /\ Snapshot
    /\ ~Unfunded
    /\ \E n \in Attempts : att[n] = "NONE"

(* RunControlService.resume: attempts.length >= maxAttempts is that every  *)
(* attempt number is taken.                                                *)
MayResume ==
    /\ run = "INTERRUPTED" /\ Snapshot
    /\ ~Unfunded
    /\ \E n \in Attempts : att[n] = "NONE"
    /\ reason \notin BlockingReasons

Resume(n) ==
    /\ MayResume
    /\ IsLatest(n)
    /\ run' = "DISPATCHED"
    /\ phase' = "QUEUED"
    /\ task' = "QUEUED"
    /\ reason' = "none"
    /\ outbox' = Append(outbox, [no |-> n + 1, why |-> "MANUAL", checkpoint |-> checkpoint])
    /\ hops' = <<<<"INTERRUPTED", "DISPATCHED">>>>
    /\ UNCHANGED <<att, lease, limitVars, timeVars, budgetVars, checkpoint, patch, approval,
                   requestVars>>

-----------------------------------------------------------------------------
(* Token budget: BudgetService *)

Reserve(n, c) ==
    /\ Snapshot
    /\ HoldsLease(n) /\ ~overdue /\ time = "left"
    /\ calls[c] = "NONE"
    /\ tokens = "left"
    /\ calls' = [calls EXCEPT ![c] = "RESERVED"]
    /\ UNCHANGED <<runVars, att, lease, limitVars, timeVars, tokens, resultVars, requestVars>>

(* settle takes no lease: an answer may arrive after the run has ended.    *)
(* usedTokens is recomputed, and may fall as well as rise.                 *)
Settle(c, status) ==
    /\ calls[c] \in {"RESERVED", "UNKNOWN"}
    /\ calls' = [calls EXCEPT ![c] = status]
    /\ tokens' \in {"left", "out"}
    /\ UNCHANGED <<runVars, att, lease, limitVars, timeVars, resultVars, requestVars>>

-----------------------------------------------------------------------------
(* The passage of time *)

LeaseLapse(n) ==
    /\ att[n] = "RUNNING" /\ lease[n] = "live"
    /\ lease' = [lease EXCEPT ![n] = "lapsed"]
    /\ UNCHANGED <<runVars, att, limitVars, timeVars, budgetVars, resultVars, requestVars>>

TimeRunsOut ==
    /\ activeStartedAt # 0 /\ time = "left"
    /\ time' = "out"
    /\ UNCHANGED <<runVars, att, lease, activeStartedAt, charges, limitVars,
                   budgetVars, resultVars, requestVars>>

(* Only a snapshot run has a deadline. *)
DeadlinePasses ==
    /\ Snapshot /\ run # "ABSENT" /\ ~overdue
    /\ overdue' = TRUE
    /\ UNCHANGED <<kind, runVars, att, lease, timeVars, budgetVars, resultVars, requestVars>>

-----------------------------------------------------------------------------
ClaimStep(w) == (\E n \in Attempts : ClaimLoad(w, n) \/ ClaimCommit(w, n)) \/ ClaimRefused(w)

CompleteStep(n) ==
    \/ CompleteLoad(n) \/ CompleteSucceeded(n) \/ CompleteRefused(n)
    \/ \E code \in Codes : CompleteFailed(n, code)

MonitorStep ==
    \/ \E n \in Attempts : MonitorScan(n) \/ handleLeaseExpired(n)
    \/ MonitorLoad \/ MonitorSkips

WorkerStep(n) ==
    \/ HeartbeatLease(n) \/ CompleteLease(n) \/ CheckpointLease(n) \/ Phase(n)
    \/ \E why \in PauseReasons : WorkerPause(n, why)
    \/ \E c \in Calls : Reserve(n, c)

UserStep ==
    \/ Cancel \/ PauseRunRefused
    \/ \E n \in 0..MaxAttempts : Resume(n)
    \/ \E n \in Attempts : PauseRunLoad(n) \/ PauseRun(n)

Next ==
    \/ \E k \in {"fixture", "experiment"} : CreateTask(k)
    \/ Confirm
    \/ \E w \in Workers : ClaimStep(w)
    \/ \E n \in Attempts :
          WorkerStep(n) \/ Heartbeat(n) \/ CompleteStep(n) \/ saveCheckpoint(n)
    \/ MonitorStep
    \/ UserStep
    \/ \E c \in Calls : \E status \in {"SETTLED", "UNKNOWN"} : Settle(c, status)
    \/ \E n \in Attempts : LeaseLapse(n)
    \/ TimeRunsOut \/ DeadlinePasses

Spec == Init /\ [][Next]_vars

(* A request that reached the server is finished, the monitor and the      *)
(* publisher poll, and time goes on.  Nothing is assumed of a worker that  *)
(* holds an attempt: it may hang or die.                                   *)
Fairness ==
    /\ \A w \in Workers : WF_vars(ClaimStep(w))
    /\ \A n \in Attempts : WF_vars(CompleteStep(n)) /\ WF_vars(LeaseLapse(n))
    /\ WF_vars(MonitorStep)
    /\ WF_vars(TimeRunsOut)

FairSpec == Spec /\ Fairness
-----------------------------------------------------------------------------
(* Properties *)

Ended == {"SUCCEEDED", "FAILED", "CANCELLED"}

(* OneOwner: an attempt is RUNNING exactly when the run is, and it is the  *)
(* latest attempt; attempt numbers have no gaps.  This is what makes the   *)
(* statuses read before a lock in completeAttempt and handleLeaseExpired   *)
(* safe to use: while the attempt is still RUNNING the run cannot have     *)
(* moved.                                                                  *)
OneOwner ==
    /\ \A n \in Attempts : att[n] = "RUNNING" => run = "RUNNING" /\ IsLatest(n)
    /\ run = "RUNNING" => \E n \in Attempts : att[n] = "RUNNING"
    /\ \A m, n \in Attempts : m < n /\ att[n] # "NONE" => att[m] # "NONE"

(* StatusAgreement: Task.status, Run.phase and the Approval row always     *)
(* tell the same story as Run.status, although pause, cancel, resume and   *)
(* applyPolicy write the task row unconditionally.                         *)
StatusAgreement ==
    /\ run = "DISPATCHED" => task \in {"QUEUED", "RUNNING"} /\ phase = "QUEUED"
    /\ run = "RUNNING" => task = "RUNNING" /\ phase \in {"QUEUED", "WORKING"}
    /\ run = "INTERRUPTED" => task = "NEEDS_ATTENTION" /\ phase = "NEEDS_ATTENTION"
    /\ run = "SUCCEEDED" => task = "AWAITING_APPROVAL" /\ phase = "AWAITING_APPROVAL"
    /\ run = "FAILED" => task = "FAILED" /\ phase = "FAILED"
    /\ run = "CANCELLED" => task = "CANCELLED" /\ phase = "CANCELLED"
    /\ Len(approval) = (IF run = "SUCCEEDED" THEN 1 ELSE 0)

(* OutboxInOrder: the i-th command of a run asks for attempt i, so no      *)
(* attempt is commanded twice however completion, lease expiry and resume  *)
(* interleave; a DISPATCHED run has the command for its next attempt, and  *)
(* no other run has a command that could still be claimed as the next one. *)
OutboxInOrder ==
    /\ \A i \in DOMAIN outbox : outbox[i].no = i
    /\ run = "DISPATCHED" => Len(outbox) > 0 /\ IsLatest(Len(outbox) - 1)
    /\ run \in {"RUNNING", "INTERRUPTED", "SUCCEEDED", "FAILED"} => IsLatest(Len(outbox))

(* DispatchFunded: a snapshot run waits for a worker only when every model *)
(* call is settled and tokens and execution time are left; the guards of   *)
(* applyPolicy and resume together cover every way to get there.           *)
DispatchFunded ==
    Snapshot /\ run = "DISPATCHED" =>
        Unsettled = {} /\ tokens = "left" /\ time = "left"

(* ChargedOnce: the active time of every attempt of a snapshot run is      *)
(* added to usedSeconds exactly once, when the attempt ends, whichever of  *)
(* complete, pause, cancel and lease expiry ends it; while it runs the     *)
(* clock is its own.                                                       *)
ChargedOnce ==
    Snapshot =>
        /\ \A n \in Attempts : charges[n] = (IF att[n] \in {"NONE", "RUNNING"} THEN 0 ELSE 1)
        /\ \A n \in Attempts : activeStartedAt = n <=> att[n] = "RUNNING"

(* ApprovalBacked: an approval asks for the patch of the latest attempt,   *)
(* which succeeded, and no later PATCH artifact replaced it; a snapshot    *)
(* run has no unsettled model usage at that point or afterwards.           *)
ApprovalBacked ==
    \A i \in DOMAIN approval :
        /\ \E n \in Attempts : /\ IsLatest(n) /\ att[n] = "SUCCEEDED"
                               /\ approval[i] \in {0, n}
        /\ approval[i] # 0 => patch = approval[i]
        /\ Snapshot => Unsettled = {}

(* EndIsFinal: once a run has ended, no request still in flight - a late   *)
(* completion, pause, checkpoint, claim or monitor pass - changes the run, *)
(* its task, its attempts or its results, and no model call is reserved.   *)
EndIsFinal ==
    [][(run \in Ended) =>
         /\ UNCHANGED <<runVars, att, resultVars, activeStartedAt, charges>>
         /\ \A c \in Calls : calls[c] = "NONE" => calls'[c] = "NONE"]_vars

(* CheckpointsAdvance: the run's latest checkpoint never goes back to an   *)
(* older attempt: a worker that lost its lease cannot overwrite the        *)
(* progress of its successor.                                              *)
CheckpointsAdvance == [][checkpoint' >= checkpoint]_vars

(* BlockedStaysParked: a run parked because the evidence contradicts the   *)
(* contract never gets another attempt, and no racing pause or recovery    *)
(* replaces the reason that says so.                                       *)
BlockedStaysParked ==
    [][(reason \in BlockingReasons) =>
         /\ reason' = reason
         /\ run' \in {"INTERRUPTED", "CANCELLED"}
         /\ UNCHANGED <<att, outbox>>]_vars

(* TimelineComplete: whenever the status of a run changes, the transitions *)
(* the transaction recorded lead without a gap from the old status to the  *)
(* new one (completeAttempt adds VERIFYING for that reason), although the  *)
(* recorded source status was read before the lock; every hop is in        *)
(* RUN_TRANSITIONS but the one of a manual resume.                         *)
TimelineComplete ==
    [][run' # run /\ run # "ABSENT" =>
         /\ hops' # <<>>
         /\ hops'[1][1] = run
         /\ hops'[Len(hops')][2] = run'
         /\ \A i \in 1..(Len(hops') - 1) : hops'[i][2] = hops'[i + 1][1]
         /\ \A i \in DOMAIN hops' :
               hops'[i] \in RUN_TRANSITIONS \union {<<"INTERRUPTED", "DISPATCHED">>}]_vars

(* EveryAttemptEnds: an attempt whose worker hangs, dies or heartbeats     *)
(* without ever finishing is ended: the lease check refuses heartbeats     *)
(* once the execution time is out, the lease lapses and the monitor acts.  *)
EveryAttemptEnds == \A n \in Attempts : att[n] = "RUNNING" ~> att[n] # "RUNNING"

(* RunComesToRest: with no user at the keyboard forever, a run ends or     *)
(* waits for people; recovery cannot go on for ever.                       *)
RunComesToRest == <>[](run \in {"ABSENT", "INTERRUPTED"} \union Ended)

(* What the run looks like from outside, for the refinement. *)
Mode ==
    CASE run = "ABSENT" -> "absent"
      [] run = "DISPATCHED" -> "waiting"
      [] run = "RUNNING" -> "working"
      [] run = "INTERRUPTED" -> "parked"
      [] run = "SUCCEEDED" -> "succeeded"
      [] run = "FAILED" -> "failed"
      [] OTHER -> "cancelled"

(* The latest attempt number. *)
Epoch == CHOOSE n \in 0..MaxAttempts : IsLatest(n)

Contract == INSTANCE RunContract WITH mode <- Mode, epoch <- Epoch

(* ImplementsContract: the run, with all its racing requests, implements   *)
(* RunContract.                                                            *)
ImplementsContract == Contract!Spec
=============================================================================
