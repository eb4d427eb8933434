------------------------- MODULE RunLifecycleProofs -------------------------
(***************************************************************************)
(* Proofs about RunLifecycle for every number of attempts, set of workers, *)
(* set of model calls, set of reported codes and set of pause reasons.     *)
(*                                                                         *)
(* The safety invariants are not inductive one by one: that a stale read   *)
(* is harmless (RequestsTracked) needs OneOwner, which needs the outbox to *)
(* be in order, which needs stale reads to be harmless.  IndInv is their   *)
(* conjunction with what is known of requests, reasons and checkpoints.    *)
(***************************************************************************)
EXTENDS RunLifecycle, SequenceTheorems, TLAPS

(* The statuses that are ever committed; VERIFYING and RECOVERING only     *)
(* occur inside a transaction.                                             *)
Reached ==
    /\ run \in {"ABSENT", "DISPATCHED", "RUNNING", "INTERRUPTED"} \union Ended
    /\ \A n \in Attempts :
          att[n] \in {"NONE", "RUNNING", "SUCCEEDED", "FAILED", "LEASE_EXPIRED"}
    /\ ~Snapshot /\ run \in {"DISPATCHED", "RUNNING"} => phase = "QUEUED"

(* Before the task is created nothing has happened. *)
NothingYet ==
    /\ run = "ABSENT" <=> kind = "none"
    /\ run = "ABSENT" =>
          /\ outbox = <<>> /\ phase = "QUEUED"
          /\ \A n \in Attempts : att[n] = "NONE" /\ charges[n] = 0
          /\ activeStartedAt = 0 /\ time = "left" /\ tokens = "left"
          /\ Unsettled = {}
          /\ \A w \in Workers : claim[w] = NoClaim

(* What a request read is still true as long as it matters: while the      *)
(* attempt it is about is RUNNING, the run has the status the request saw. *)
RequestsTracked ==
    /\ \A n \in Attempts : att[n] = "NONE" => req[n].pc = "idle" /\ ~beat[n]
    /\ \A n \in Attempts :
          req[n].pc = "loaded" /\ att[n] = "RUNNING" => req[n].run = "RUNNING"
    /\ mon.pc # "idle" => mon.no \in Attempts /\ att[mon.no] # "NONE"
    /\ mon.pc = "loaded" /\ att[mon.no] = "RUNNING" => mon.run = "RUNNING"
    /\ pauser # 0 => att[pauser] # "NONE"
    /\ Snapshot => \A w \in Workers : claim[w].clock = 0

(* A blocking reason is only ever on a parked or cancelled run, and the    *)
(* latest checkpoint was written by an attempt that exists.                *)
RecordsSound ==
    /\ reason \in BlockingReasons => run \in {"INTERRUPTED", "CANCELLED"}
    /\ checkpoint # 0 => att[checkpoint] # "NONE"

(* The part of the invariant that is about the rows alone. *)
RowInv ==
    /\ Reached /\ RecordsSound /\ OneOwner /\ StatusAgreement /\ OutboxInOrder
    /\ DispatchFunded /\ ChargedOnce /\ ApprovalBacked

IndInv == TypeOK /\ NothingYet /\ RequestsTracked /\ RowInv

-----------------------------------------------------------------------------
(* Facts about the helpers *)

(* The highest attempt number is unique. *)
LEMMA LatestUnique ==
    ASSUME NEW a \in 0..MaxAttempts, NEW b \in 0..MaxAttempts,
           IsLatest(a), IsLatest(b)
    PROVE  a = b
BY MaxAttemptsAssumption DEF IsLatest, Attempts

(* The policy engine retries below the attempt limit only. *)
LEMMA PolicyRetriesBelowMax ==
    ASSUME NEW code \in FailureCode, NEW n \in Attempts
    PROVE  /\ decidePolicy(code, n, MaxAttempts) \in PolicyAction
           /\ decidePolicy(code, n, MaxAttempts) \in {"RESUME", "RESTART_ATTEMPT"}
              => n < MaxAttempts
BY MaxAttemptsAssumption
   DEF decidePolicy, AtMax, BelowMax, PolicyAction, Attempts

(* Charging the clock of attempt c adds one to the charges of c alone. *)
LEMMA ChargeType ==
    ASSUME NEW f \in [Attempts -> Nat], NEW c \in 0..MaxAttempts
    PROVE  Charge(f, c) \in [Attempts -> Nat]
BY DEF Charge

(* The codes and the monitor's own code are failure codes. *)
LEMMA WorkerLostIsCode == "WORKER_LOST" \in FailureCode
BY DEF FailureCode, ResumableCode

(* What applyPolicy leaves behind when the attempt it is called for was    *)
(* the owner of an INTERRUPTED run.                                        *)
PolicyParks(log) ==
    /\ run' = "INTERRUPTED" /\ phase' = "NEEDS_ATTENTION" /\ task' = "NEEDS_ATTENTION"
    /\ reason' \in Reasons
    /\ outbox' = outbox /\ hops' = log
    /\ time' \in {"left", "out"}

PolicyRetries(n, log) ==
    /\ n < MaxAttempts
    /\ run' = "DISPATCHED" /\ phase' = (IF Snapshot THEN "QUEUED" ELSE phase)
    /\ UNCHANGED <<task, reason, time>>
    /\ Snapshot => ~Unfunded
    /\ \E cmd \in Command : cmd.no = n + 1 /\ outbox' = Append(outbox, cmd)
    /\ hops' = log \o <<<<"INTERRUPTED", "RECOVERING">>, <<"RECOVERING", "DISPATCHED">>>>

PolicyAborts(log) ==
    /\ run' = "FAILED" /\ phase' = "FAILED"
    /\ task' = (IF task = "RUNNING" THEN "FAILED" ELSE task)
    /\ UNCHANGED <<reason, outbox, time>>
    /\ hops' = Append(log, <<"INTERRUPTED", "FAILED">>)

LEMMA PolicyEffect ==
    ASSUME TypeOK, NEW n \in Attempts, NEW code \in FailureCode, NEW log,
           NEW clock \in 0..MaxAttempts, NEW charged,
           applyPolicy(n, code, "INTERRUPTED", log, clock, charged)
    PROVE  /\ charges' = (IF Snapshot THEN Charge(charged, clock) ELSE charged)
           /\ activeStartedAt' \in {0, clock}
           /\ Snapshot => activeStartedAt' = 0
           /\ PolicyParks(log) \/ PolicyRetries(n, log) \/ PolicyAborts(log)
<1> DEFINE action == IF RecoveryDisabled THEN "ABORT"
                     ELSE decidePolicy(code, n, MaxAttempts)
           clockLeft == IF Snapshot THEN 0 ELSE clock
<1>1. charges' = (IF Snapshot THEN Charge(charged, clock) ELSE charged)
  BY DEF applyPolicy
<1>2. CASE Snapshot /\ Unfunded /\ ParkUnfunded("INTERRUPTED", log)
  BY <1>1, <1>2 DEF ParkUnfunded, Park, PolicyParks, Reasons, TypeOK, AttemptTypeOK
<1>3. CASE ParkBackedOff("INTERRUPTED", log, clockLeft)
  BY <1>1, <1>3 DEF ParkBackedOff, Park, PolicyParks, Reasons, TypeOK, AttemptTypeOK
<1>4. CASE /\ ~(Snapshot /\ Unfunded)
           /\ action \in {"RESUME", "RESTART_ATTEMPT"}
           /\ Redispatch(n, action, "INTERRUPTED", log, clockLeft)
  <2>1. n < MaxAttempts
    BY <1>4, PolicyRetriesBelowMax
  <2> DEFINE cmd == [no |-> n + 1, why |-> action,
                     checkpoint |-> IF action = "RESUME" THEN checkpoint ELSE 0]
  <2>2. cmd \in Command /\ cmd.no = n + 1
    BY <1>4, <2>1, MaxAttemptsAssumption DEF Command, Attempts, TypeOK, ResultTypeOK
  <2>3. outbox' = Append(outbox, cmd)
    BY <1>4 DEF Redispatch
  <2>4. PolicyRetries(n, log)
    BY <1>4, <2>1, <2>2, <2>3 DEF Redispatch, PolicyRetries
  <2> QED
    BY <1>1, <1>4, <2>4 DEF Redispatch
<1>5. CASE Abort("INTERRUPTED", log)
  BY <1>1, <1>5 DEF Abort, PolicyAborts
<1>6. CASE Escalate("INTERRUPTED", log, code)
  BY <1>1, <1>6 DEF Escalate, Park, PolicyParks, Reasons, TypeOK, AttemptTypeOK
<1> QED
  BY <1>2, <1>3, <1>4, <1>5, <1>6 DEF applyPolicy

-----------------------------------------------------------------------------
(* What an action must leave alone for a conjunct to stay true *)

(* A conjunct of RowInv stays true when the variables it reads stay. *)
LEMMA Frame ==
    ASSUME RowInv
    PROVE  /\ UNCHANGED <<kind, run, phase, att>> => Reached'
           /\ UNCHANGED <<run, reason, att, checkpoint>> => RecordsSound'
           /\ UNCHANGED <<run, att>> => OneOwner'
           /\ UNCHANGED <<run, phase, task, approval>> => StatusAgreement'
           /\ UNCHANGED <<run, att, outbox>> => OutboxInOrder'
           /\ UNCHANGED <<kind, run, calls, tokens, time>> => DispatchFunded'
           /\ UNCHANGED <<kind, att, charges, activeStartedAt>> => ChargedOnce'
           /\ UNCHANGED <<kind, att, approval, patch, calls>> => ApprovalBacked'
<1>1. UNCHANGED <<kind, run, phase, att>> => Reached'
  BY DEF RowInv, Reached, Snapshot
<1>2. UNCHANGED <<run, reason, att, checkpoint>> => RecordsSound'
  BY DEF RowInv, RecordsSound
<1>3. UNCHANGED <<run, att>> => OneOwner'
  BY DEF RowInv, OneOwner, IsLatest
<1>4. UNCHANGED <<run, phase, task, approval>> => StatusAgreement'
  BY DEF RowInv, StatusAgreement
<1>5. UNCHANGED <<run, att, outbox>> => OutboxInOrder'
  BY DEF RowInv, OutboxInOrder, IsLatest
<1>6. UNCHANGED <<kind, run, calls, tokens, time>> => DispatchFunded'
  BY DEF RowInv, DispatchFunded, Snapshot, Unsettled
<1>7. UNCHANGED <<kind, att, charges, activeStartedAt>> => ChargedOnce'
  BY DEF RowInv, ChargedOnce, Snapshot
<1>8. UNCHANGED <<kind, att, approval, patch, calls>> => ApprovalBacked'
  BY DEF RowInv, ApprovalBacked, IsLatest, Unsettled, Snapshot
<1> QED
  BY <1>1, <1>2, <1>3, <1>4, <1>5, <1>6, <1>7, <1>8

(* A step that writes no row keeps the invariant if it keeps what is known *)
(* of the requests.                                                        *)
LEMMA RequestStep ==
    ASSUME IndInv, UNCHANGED rows, RequestTypeOK', RequestsTracked',
           run = "ABSENT" => claim' = claim
    PROVE  IndInv'
<1> USE DEF rows, limitVars, runVars, timeVars, budgetVars, resultVars
<1>1. TypeOK'
  BY DEF IndInv, TypeOK, RunTypeOK, AttemptTypeOK, BudgetTypeOK, ResultTypeOK
<1>2. NothingYet'
  BY DEF IndInv, NothingYet, Unsettled
<1>3. RowInv'
  BY Frame DEF IndInv, RowInv
<1> QED
  BY <1>1, <1>2, <1>3 DEF IndInv

(* The clock of a snapshot run stands still while no attempt runs. *)
LEMMA ClockStopped ==
    ASSUME IndInv, Snapshot, run # "RUNNING"
    PROVE  activeStartedAt = 0
<1>1. activeStartedAt \in 0..MaxAttempts
  BY DEF IndInv, TypeOK, AttemptTypeOK
<1>2. \A n \in Attempts : att[n] # "RUNNING"
  BY DEF IndInv, RowInv, OneOwner
<1>3. \A n \in Attempts : activeStartedAt # n
  BY <1>2 DEF IndInv, RowInv, ChargedOnce
<1> QED
  BY <1>1, <1>3, MaxAttemptsAssumption DEF Attempts

(* The invariant holds before the task is created. *)
LEMMA InitInv == Init => IndInv
<1> SUFFICES ASSUME Init PROVE IndInv
  OBVIOUS
<1>1. RunTypeOK
  <2>1. hops \in Seq((RunStatus \union {"ABSENT"}) \X RunStatus)
    BY DEF Init
  <2> QED
    BY <2>1 DEF Init, RunTypeOK, Phases, TaskStatus, Reasons
<1>5. AttemptTypeOK /\ BudgetTypeOK
  BY MaxAttemptsAssumption DEF Init, AttemptTypeOK, BudgetTypeOK
<1>2. ResultTypeOK /\ RequestTypeOK
  BY MaxAttemptsAssumption
     DEF Init, ResultTypeOK, RequestTypeOK, NoClaim, MonitorIdle
<1>3. NothingYet /\ RequestsTracked
  BY DEF Init, NothingYet, RequestsTracked, Unsettled, Snapshot, MonitorIdle, NoClaim
<1>4. RowInv
  BY MaxAttemptsAssumption
     DEF Init, RowInv, Reached, RecordsSound, OneOwner, StatusAgreement, OutboxInOrder,
         DispatchFunded, ChargedOnce, ApprovalBacked, IsLatest, Snapshot, Ended,
         BlockingReasons
<1> QED
  BY <1>1, <1>2, <1>3, <1>4, <1>5 DEF IndInv, TypeOK

-----------------------------------------------------------------------------
(* Requests before their transaction, and refused ones *)

(* Claims: what is read before the transaction, and a refused transaction. *)
LEMMA ClaimRequestInv ==
    ASSUME IndInv, NEW w \in Workers, NEW n \in Attempts, ClaimLoad(w, n) \/ ClaimRefused(w)
    PROVE  IndInv'
<1>1. UNCHANGED rows /\ UNCHANGED <<kind, att, beat, req, mon, pauser>>
  BY DEF ClaimLoad, ClaimRefused, rows, limitVars
<1>2. PICK c \in [no : 0..MaxAttempts, clock : 0..MaxAttempts] :
        /\ claim' = [claim EXCEPT ![w] = c]
        /\ c.clock \in {0, activeStartedAt}
        /\ c.clock # 0 => run = "DISPATCHED"
  <2>1. CASE ClaimLoad(w, n)
    <3> DEFINE c == [no |-> n, clock |-> activeStartedAt]
    <3>1. c \in [no : 0..MaxAttempts, clock : 0..MaxAttempts] /\ c.clock = activeStartedAt
      BY MaxAttemptsAssumption DEF IndInv, TypeOK, AttemptTypeOK, Attempts
    <3> QED
      BY <2>1, <3>1 DEF ClaimLoad
  <2>2. CASE ClaimRefused(w)
    <3>1. NoClaim \in [no : 0..MaxAttempts, clock : 0..MaxAttempts] /\ NoClaim.clock = 0
      BY MaxAttemptsAssumption DEF NoClaim
    <3> QED
      BY <2>2, <3>1 DEF ClaimRefused
  <2> QED
    BY <2>1, <2>2
<1>3. claim \in [Workers -> [no : 0..MaxAttempts, clock : 0..MaxAttempts]]
  BY DEF IndInv, TypeOK, RequestTypeOK
<1>4. RequestTypeOK'
  <2>1. claim' \in [Workers -> [no : 0..MaxAttempts, clock : 0..MaxAttempts]]
    BY <1>2, <1>3
  <2> QED
    BY <1>1, <2>1 DEF IndInv, TypeOK, RequestTypeOK
<1>5. run = "DISPATCHED" /\ Snapshot => activeStartedAt = 0
  BY ClockStopped
<1>6. RequestsTracked'
  <2>1. Snapshot => \A v \in Workers : claim'[v].clock = 0
    BY <1>2, <1>3, <1>5 DEF IndInv, RequestsTracked
  <2> QED
    BY <1>1, <2>1 DEF IndInv, RequestsTracked, Snapshot
<1>7. run = "ABSENT" => claim' = claim
  BY DEF IndInv, NothingYet, ClaimLoad, ClaimRefused
<1> QED
  BY <1>1, <1>4, <1>6, <1>7, RequestStep

(* Requests of the worker for its attempt: lease checks, the read before a *)
(* completion, and a refused completion.                                   *)
LEMMA WorkerRequestInv ==
    ASSUME IndInv, NEW n \in Attempts,
           HeartbeatLease(n) \/ CompleteLease(n) \/ CompleteLoad(n) \/ CompleteRefused(n)
           \/ CheckpointLease(n)
    PROVE  IndInv'
<1>1. UNCHANGED rows /\ UNCHANGED <<kind, run, att, claim, mon, pauser>>
  BY DEF HeartbeatLease, CompleteLease, CompleteLoad, CompleteRefused, CheckpointLease,
         rows, limitVars, runVars
<1>2. beat \in [Attempts -> BOOLEAN]
      /\ req \in [Attempts -> [pc : {"idle", "checkpoint", "complete", "loaded"},
                               run : RunStatus \union {"ABSENT"}]]
      /\ run \in RunStatus \union {"ABSENT"}
  BY DEF IndInv, TypeOK, RequestTypeOK, RunTypeOK
<1>3. beat' \in [Attempts -> BOOLEAN] /\ \A m \in Attempts : beat'[m] => beat[m] \/ att[m] # "NONE"
  BY <1>2 DEF HeartbeatLease, CompleteLease, CompleteLoad, CompleteRefused, CheckpointLease,
              HoldsLease
<1>4. \E r \in [pc : {"idle", "checkpoint", "complete", "loaded"},
               run : RunStatus \union {"ABSENT"}] :
        /\ req' = [req EXCEPT ![n] = r]
        /\ att[n] = "NONE" => r.pc = "idle"
        /\ r.pc = "loaded" /\ att[n] = "RUNNING" => r.run = "RUNNING"
  <2> DEFINE Answer(pc, status) == [pc |-> pc, run |-> status]
  <2>1. att[n] = "RUNNING" => run = "RUNNING"
    BY DEF IndInv, RowInv, OneOwner
  <2>2. CASE HeartbeatLease(n)
    <3>1. req' = [req EXCEPT ![n] = req[n]]
      BY <1>2, <2>2 DEF HeartbeatLease
    <3> QED
      BY <1>2, <3>1 DEF IndInv, RequestsTracked
  <2>3. CASE CompleteLease(n) \/ CheckpointLease(n)
    <3>1. PICK pc \in {"checkpoint", "complete"} : req' = [req EXCEPT ![n] = Answer(pc, "ABSENT")]
      BY <2>3 DEF CompleteLease, CheckpointLease
    <3>2. /\ Answer(pc, "ABSENT") \in [pc : {"idle", "checkpoint", "complete", "loaded"},
                                      run : RunStatus \union {"ABSENT"}]
          /\ Answer(pc, "ABSENT").pc # "loaded"
      OBVIOUS
    <3>3. att[n] # "NONE"
      BY <2>3 DEF CompleteLease, CheckpointLease, HoldsLease
    <3> QED
      BY <3>1, <3>2, <3>3
  <2>4. CASE CompleteLoad(n) \/ CompleteRefused(n)
    <3>1. CASE req' = [req EXCEPT ![n] = IdleReq]
      <4>1. /\ IdleReq \in [pc : {"idle", "checkpoint", "complete", "loaded"},
                            run : RunStatus \union {"ABSENT"}]
            /\ IdleReq.pc = "idle"
        BY DEF IdleReq
      <4> QED
        BY <3>1, <4>1
    <3>2. CASE att[n] = "RUNNING" /\ req' = [req EXCEPT ![n] = Answer("loaded", run)]
      <4>1. /\ Answer("loaded", run) \in [pc : {"idle", "checkpoint", "complete", "loaded"},
                                         run : RunStatus \union {"ABSENT"}]
            /\ Answer("loaded", run).run = run
        BY <1>2
      <4> QED
        BY <2>1, <3>2, <4>1
    <3> QED
      BY <2>4, <3>1, <3>2 DEF CompleteLoad, CompleteRefused
  <2> QED
    BY <2>2, <2>3, <2>4
<1>5. RequestTypeOK'
  BY <1>1, <1>2, <1>3, <1>4 DEF IndInv, TypeOK, RequestTypeOK
<1>6. RequestsTracked'
  BY <1>1, <1>2, <1>3, <1>4 DEF IndInv, RequestsTracked, Snapshot
<1> QED
  BY <1>1, <1>5, <1>6, RequestStep

(* The lease monitor's scan, its read, and a pass that finds nothing to do. *)
LEMMA MonitorRequestInv ==
    ASSUME IndInv, NEW n \in Attempts, MonitorScan(n) \/ MonitorLoad \/ MonitorSkips
    PROVE  IndInv'
<1>1. UNCHANGED rows /\ UNCHANGED <<kind, run, att, claim, beat, req, pauser>>
  BY DEF MonitorScan, MonitorLoad, MonitorSkips, rows, limitVars, runVars
<1> DEFINE MonType == [pc : {"idle", "scanned", "loaded"}, no : 0..MaxAttempts,
                       run : RunStatus \union {"ABSENT"}]
<1>2. /\ mon \in MonType
      /\ run \in RunStatus \union {"ABSENT"}
      /\ mon.pc # "idle" => mon.no \in Attempts /\ att[mon.no] # "NONE"
  BY DEF IndInv, TypeOK, RequestTypeOK, RunTypeOK, RequestsTracked
<1>3. \A m \in Attempts : att[m] = "RUNNING" => run = "RUNNING"
  BY DEF IndInv, RowInv, OneOwner
<1>4. /\ mon' \in MonType
      /\ mon'.pc # "idle" => mon'.no \in Attempts /\ att[mon'.no] # "NONE"
      /\ mon'.pc = "loaded" /\ att[mon'.no] = "RUNNING" => mon'.run = "RUNNING"
  <2>1. CASE mon' = MonitorIdle
    BY <2>1, MaxAttemptsAssumption DEF MonitorIdle
  <2>2. CASE MonitorScan(n)
    BY <2>2, MaxAttemptsAssumption DEF MonitorScan, Attempts
  <2>3. CASE MonitorLoad /\ mon' = [pc |-> "loaded", no |-> mon.no, run |-> run]
    BY <1>2, <1>3, <2>3 DEF MonitorLoad
  <2> QED
    BY <2>1, <2>2, <2>3 DEF MonitorLoad, MonitorSkips
<1>5. RequestTypeOK'
  BY <1>1, <1>4 DEF IndInv, TypeOK, RequestTypeOK
<1>6. RequestsTracked'
  BY <1>1, <1>4 DEF IndInv, RequestsTracked, Snapshot
<1> QED
  BY <1>1, <1>5, <1>6, RequestStep

(* The read of a user's pause, and a refused pause. *)
LEMMA PauseRequestInv ==
    ASSUME IndInv, NEW n \in Attempts, PauseRunLoad(n) \/ PauseRunRefused
    PROVE  IndInv'
<1>1. UNCHANGED rows /\ UNCHANGED <<kind, att, claim, beat, req, mon>>
  BY DEF PauseRunLoad, PauseRunRefused, rows, limitVars
<1>2. pauser' \in 0..MaxAttempts /\ (pauser' # 0 => att[pauser'] # "NONE")
  BY MaxAttemptsAssumption DEF PauseRunLoad, PauseRunRefused, Attempts
<1>3. RequestTypeOK'
  BY <1>1, <1>2 DEF IndInv, TypeOK, RequestTypeOK
<1>4. RequestsTracked'
  BY <1>1, <1>2 DEF IndInv, RequestsTracked, Snapshot
<1> QED
  BY <1>1, <1>3, <1>4, RequestStep

-----------------------------------------------------------------------------
(* Creation *)

(* Creating the task makes a DISPATCHED run with one command. *)
LEMMA CreateInv ==
    ASSUME IndInv, Confirm \/ \E k \in {"fixture", "experiment"} : CreateTask(k)
    PROVE  IndInv'
<1> DEFINE first == [no |-> 1, why |-> "START", checkpoint |-> 0]
<1>1. /\ run = "ABSENT" /\ kind' \in {"fixture", "experiment", "snapshot"}
      /\ run' = "DISPATCHED" /\ task' = "QUEUED"
      /\ outbox' = Append(outbox, first)
      /\ UNCHANGED <<overdue, phase, reason, att, lease, activeStartedAt, charges, time,
                     tokens, calls, checkpoint, patch, approval>>
      /\ UNCHANGED <<claim, beat, req, mon, pauser>>
  BY DEF Confirm, CreateTask, timeVars, budgetVars, requestVars
<1>2. /\ outbox = <<>> /\ phase = "QUEUED"
      /\ \A n \in Attempts : att[n] = "NONE" /\ charges[n] = 0
      /\ activeStartedAt = 0 /\ time = "left" /\ tokens = "left"
      /\ Unsettled = {}
      /\ \A w \in Workers : claim[w] = NoClaim
  BY <1>1 DEF IndInv, NothingYet
<1>3. first \in Command /\ first.no = 1
  BY MaxAttemptsAssumption DEF Command, Attempts
<1>4. outbox' = <<first>>
  BY <1>1, <1>2
<1>5. RunTypeOK'
  <2>1. hops' \in Seq((RunStatus \union {"ABSENT"}) \X RunStatus)
    <3>1. CASE Confirm
      BY <3>1 DEF Confirm, IndInv, TypeOK, RunTypeOK
    <3>2. CASE \E k \in {"fixture", "experiment"} : CreateTask(k)
      <4>1. <<"PENDING", "DISPATCHED">> \in (RunStatus \union {"ABSENT"}) \X RunStatus
        BY DEF RunStatus
      <4> QED
        BY <3>2, <4>1 DEF CreateTask
    <3> QED
      BY <3>1, <3>2
  <2> QED
    BY <1>1, <2>1 DEF IndInv, TypeOK, RunTypeOK, RunStatus, TaskStatus
<1>6. ResultTypeOK'
  BY <1>1, <1>3, <1>4 DEF IndInv, TypeOK, ResultTypeOK
<1>7. AttemptTypeOK' /\ BudgetTypeOK' /\ RequestTypeOK'
  BY <1>1 DEF IndInv, TypeOK, AttemptTypeOK, BudgetTypeOK, RequestTypeOK
<1>8. NothingYet'
  BY <1>1 DEF NothingYet
<1>9. RequestsTracked'
  BY <1>1, <1>2 DEF IndInv, RequestsTracked, NoClaim
<1>10. Reached' /\ RecordsSound' /\ StatusAgreement'
  BY <1>1, <1>2 DEF IndInv, RowInv, Reached, RecordsSound, StatusAgreement, Ended
<1>11. OneOwner' /\ ChargedOnce'
  BY <1>1, <1>2, MaxAttemptsAssumption DEF OneOwner, ChargedOnce, Attempts
<1>12. OutboxInOrder'
  BY <1>1, <1>2, <1>3, <1>4 DEF OutboxInOrder, IsLatest
<1>13. DispatchFunded'
  BY <1>1, <1>2 DEF DispatchFunded, Unsettled
<1>14. ApprovalBacked'
  BY <1>1 DEF IndInv, RowInv, StatusAgreement, ApprovalBacked, TypeOK, ResultTypeOK
<1> QED
  BY <1>5, <1>6, <1>7, <1>8, <1>9, <1>10, <1>11, <1>12, <1>13, <1>14
     DEF IndInv, TypeOK, RowInv

-----------------------------------------------------------------------------
(* The transaction of a claim *)

(* A run never has more commands than attempts. *)
LEMMA OutboxBounded ==
    ASSUME IndInv
    PROVE  Len(outbox) \in 0..MaxAttempts
<1>1. outbox \in Seq(Command) /\ \A i \in DOMAIN outbox : outbox[i].no = i
  BY DEF IndInv, TypeOK, ResultTypeOK, RowInv, OutboxInOrder
<1>2. Len(outbox) > 0 => Len(outbox) \in Attempts
  <2> SUFFICES ASSUME Len(outbox) > 0 PROVE Len(outbox) \in Attempts
    OBVIOUS
  <2>1. outbox[Len(outbox)] \in Command /\ outbox[Len(outbox)].no = Len(outbox)
    BY <1>1
  <2>2. outbox[Len(outbox)].no \in Attempts
    BY <2>1 DEF Command
  <2> QED
    BY <2>1, <2>2
<1> QED
  BY <1>1, <1>2, MaxAttemptsAssumption DEF Attempts

(* A claim makes the commanded attempt the only running one. *)
LEMMA ClaimCommitInv ==
    ASSUME IndInv, NEW w \in Workers, NEW n \in Attempts, ClaimCommit(w, n)
    PROVE  IndInv'
<1>1. /\ run = "DISPATCHED" /\ run' = "RUNNING"
      /\ att' = [att EXCEPT ![n] = "RUNNING"]
      /\ lease' = [lease EXCEPT ![n] = "live"]
      /\ task' = (IF task = "QUEUED" THEN "RUNNING" ELSE task)
      /\ claim' = [claim EXCEPT ![w] = NoClaim]
      /\ activeStartedAt' = (IF claim[w].clock # 0 THEN claim[w].clock ELSE n)
      /\ UNCHANGED <<kind, overdue, phase, reason, charges, time, tokens, calls>>
      /\ UNCHANGED <<checkpoint, outbox, patch, approval, beat, req, mon, pauser>>
  BY DEF ClaimCommit, limitVars, budgetVars, resultVars
<1>2. /\ n \in Nat /\ n - 1 \in 0..MaxAttempts /\ MaxAttempts \in Nat
      /\ IsLatest(n - 1)
  BY MaxAttemptsAssumption DEF Attempts, ClaimCommit
<1>3. Len(outbox) = n
  <2>1. Len(outbox) > 0 /\ IsLatest(Len(outbox) - 1)
    BY <1>1 DEF IndInv, RowInv, OutboxInOrder
  <2>2. Len(outbox) - 1 \in 0..MaxAttempts /\ Len(outbox) \in Nat
    BY <2>1, OutboxBounded, MaxAttemptsAssumption
  <2>3. Len(outbox) - 1 = n - 1
    BY <1>2, <2>1, <2>2, LatestUnique
  <2> QED
    BY <1>2, <2>2, <2>3
<1>4. att \in [Attempts -> AttemptStatus \union {"NONE"}]
  BY DEF IndInv, TypeOK, AttemptTypeOK
<1>5. /\ \A m \in Attempts : m >= n => att[m] = "NONE"
      /\ \A m \in Attempts : m < n => att[m] # "NONE" /\ att[m] # "RUNNING"
  <2>1. \A m \in Attempts : m >= n => att[m] = "NONE"
    BY <1>2 DEF IsLatest, Attempts
  <2>2. n - 1 # 0 => n - 1 \in Attempts /\ att[n - 1] # "NONE"
    BY <1>2 DEF IsLatest, Attempts
  <2>3. \A m \in Attempts : m < n => att[m] # "NONE"
    BY <1>2, <2>2 DEF IndInv, RowInv, OneOwner, Attempts
  <2>4. \A m \in Attempts : att[m] # "RUNNING"
    BY <1>1 DEF IndInv, RowInv, OneOwner
  <2> QED
    BY <2>1, <2>3, <2>4
<1>6. TypeOK'
  <2>1. hops' \in Seq((RunStatus \union {"ABSENT"}) \X RunStatus)
    <3>1. <<"DISPATCHED", "RUNNING">> \in (RunStatus \union {"ABSENT"}) \X RunStatus
      BY DEF RunStatus
    <3> QED
      BY <3>1 DEF ClaimCommit
  <2>2. RunTypeOK'
    BY <1>1, <2>1 DEF IndInv, TypeOK, RunTypeOK, RunStatus, TaskStatus
  <2>3. claim[w].clock \in 0..MaxAttempts
    BY DEF IndInv, TypeOK, RequestTypeOK
  <2>4. AttemptTypeOK'
    BY <1>1, <2>3 DEF IndInv, TypeOK, AttemptTypeOK, AttemptStatus, Attempts
  <2>5. NoClaim \in [no : 0..MaxAttempts, clock : 0..MaxAttempts]
    BY <1>2 DEF NoClaim
  <2>6. RequestTypeOK'
    BY <1>1, <2>5 DEF IndInv, TypeOK, RequestTypeOK
  <2> QED
    BY <1>1, <2>2, <2>4, <2>6 DEF IndInv, TypeOK, BudgetTypeOK, ResultTypeOK
<1>7. NothingYet'
  BY <1>1 DEF IndInv, NothingYet
<1>8. RequestsTracked'
  <2>1. \A m \in Attempts : att'[m] = "NONE" => att[m] = "NONE"
    BY <1>1, <1>4
  <2>2. req[n].pc = "idle" /\ (mon.pc # "idle" => mon.no \in Attempts /\ mon.no # n)
    BY <1>2, <1>5 DEF IndInv, RequestsTracked
  <2>3. \A m \in Attempts : att'[m] = "RUNNING" => m = n
    BY <1>1, <1>4, <1>5 DEF Attempts
  <2>4. \A m \in Attempts : m # n => att'[m] = att[m]
    BY <1>1, <1>4
  <2>5. Snapshot' => \A v \in Workers : claim'[v].clock = 0
    <3>1. claim \in [Workers -> [no : 0..MaxAttempts, clock : 0..MaxAttempts]]
      BY DEF IndInv, TypeOK, RequestTypeOK
    <3>2. NoClaim.clock = 0
      BY DEF NoClaim
    <3> QED
      BY <1>1, <3>1, <3>2 DEF IndInv, RequestsTracked, Snapshot
  <2>6. pauser' # 0 => att'[pauser'] # "NONE"
    <3>1. pauser # 0 => pauser \in Attempts
      BY <1>2 DEF IndInv, TypeOK, RequestTypeOK, Attempts
    <3> QED
      BY <1>1, <2>1, <3>1 DEF IndInv, RequestsTracked
  <2> QED
    BY <1>1, <2>1, <2>2, <2>3, <2>4, <2>5, <2>6 DEF IndInv, RequestsTracked
<1>9. OneOwner'
  <2>1. IsLatest(n)'
    BY <1>1, <1>2, <1>4, <1>5 DEF IsLatest
  <2> QED
    BY <1>1, <1>2, <1>4, <1>5, <2>1 DEF OneOwner, Attempts
<1>10. OutboxInOrder'
  <2>1. IsLatest(Len(outbox))'
    BY <1>1, <1>2, <1>3, <1>4, <1>5 DEF IsLatest
  <2> QED
    BY <1>1, <2>1 DEF IndInv, RowInv, OutboxInOrder
<1>11. Reached' /\ StatusAgreement'
  BY <1>1, <1>4 DEF IndInv, RowInv, Reached, StatusAgreement, Snapshot
<1>12. RecordsSound'
  <2>1. checkpoint # 0 => checkpoint \in Attempts
    BY <1>2 DEF IndInv, TypeOK, ResultTypeOK, Attempts
  <2> QED
    BY <1>1, <1>4, <2>1 DEF IndInv, RowInv, RecordsSound
<1>13. DispatchFunded'
  BY <1>1 DEF DispatchFunded
<1>14. ChargedOnce'
  <2>1. Snapshot => claim[w].clock = 0
    BY DEF IndInv, RequestsTracked
  <2>2. Snapshot => activeStartedAt' = n
    BY <1>1, <2>1
  <2>3. \A m \in Attempts : att'[m] = "RUNNING" <=> m = n
    BY <1>1, <1>2, <1>4, <1>5 DEF Attempts
  <2>4. \A m \in Attempts : m # n => att'[m] = att[m]
    BY <1>1, <1>4
  <2>5. att[n] = "NONE" /\ att'[n] = "RUNNING"
    BY <1>1, <1>2, <1>4, <1>5
  <2>6. \A m \in Attempts : charges'[m] = charges[m]
    BY <1>1
  <2>7. Snapshot' => Snapshot
    BY <1>1 DEF Snapshot
  <2> QED
    BY <2>2, <2>3, <2>4, <2>5, <2>6, <2>7 DEF IndInv, RowInv, ChargedOnce
<1>15. ApprovalBacked'
  BY <1>1 DEF IndInv, RowInv, StatusAgreement, ApprovalBacked, TypeOK, ResultTypeOK
<1> QED
  BY <1>6, <1>7, <1>8, <1>9, <1>10, <1>11, <1>12, <1>13, <1>14, <1>15 DEF IndInv, RowInv

-----------------------------------------------------------------------------
(* The end of an attempt *)

(* What is known when the running attempt n ends with status e, whoever    *)
(* ends it: it is the run's latest attempt and the only one running.       *)
LEMMA EndAttempt ==
    ASSUME IndInv, NEW n \in Attempts, att[n] = "RUNNING",
           NEW e \in {"SUCCEEDED", "FAILED", "LEASE_EXPIRED"},
           att' = [att EXCEPT ![n] = e]
    PROVE  /\ run = "RUNNING" /\ task = "RUNNING" /\ phase \in {"QUEUED", "WORKING"}
           /\ approval = <<>>
           /\ IsLatest(n) /\ IsLatest(n)' /\ Len(outbox) = n
           /\ \A m \in Attempts :
                /\ att'[m] \in {"NONE", "SUCCEEDED", "FAILED", "LEASE_EXPIRED"}
                /\ att'[m] = "NONE" <=> att[m] = "NONE"
           /\ run' # "RUNNING" => OneOwner'
           /\ checkpoint' = checkpoint => (checkpoint' # 0 => att'[checkpoint'] # "NONE")
           /\ UNCHANGED kind
              /\ (Snapshot => /\ activeStartedAt' = 0
                              /\ charges' = Charge(charges, activeStartedAt))
              => ChargedOnce'
<1>1. /\ n \in Nat /\ MaxAttempts \in Nat /\ n \in 0..MaxAttempts
      /\ att \in [Attempts -> AttemptStatus \union {"NONE"}]
  BY MaxAttemptsAssumption DEF Attempts, IndInv, TypeOK, AttemptTypeOK
<1>2. run = "RUNNING" /\ IsLatest(n)
  BY DEF IndInv, RowInv, OneOwner
<1>3. task = "RUNNING" /\ phase \in {"QUEUED", "WORKING"} /\ approval = <<>>
  BY <1>2 DEF IndInv, RowInv, StatusAgreement, TypeOK, ResultTypeOK
<1>4. Len(outbox) = n
  <2>1. IsLatest(Len(outbox))
    BY <1>2 DEF IndInv, RowInv, OutboxInOrder
  <2> QED
    BY <1>1, <1>2, <2>1, OutboxBounded, LatestUnique
<1>5. \A m \in Attempts : att[m] = "RUNNING" => m = n
  <2> SUFFICES ASSUME NEW m \in Attempts, att[m] = "RUNNING" PROVE m = n
    OBVIOUS
  <2>1. IsLatest(m) /\ m \in 0..MaxAttempts
    BY <1>1 DEF IndInv, RowInv, OneOwner, Attempts
  <2> QED
    BY <1>1, <1>2, <2>1, LatestUnique
<1>6. \A m \in Attempts : /\ att'[m] = (IF m = n THEN e ELSE att[m])
                          /\ att'[m] \in {"NONE", "SUCCEEDED", "FAILED", "LEASE_EXPIRED"}
                          /\ att'[m] = "NONE" <=> att[m] = "NONE"
  BY <1>1, <1>5 DEF IndInv, RowInv, Reached
<1>7. IsLatest(n)'
  BY <1>1, <1>2, <1>6 DEF IsLatest
<1>8. run' # "RUNNING" => OneOwner'
  BY <1>6 DEF IndInv, RowInv, OneOwner
<1>9. checkpoint' = checkpoint => (checkpoint' # 0 => att'[checkpoint'] # "NONE")
  <2>1. checkpoint # 0 => checkpoint \in Attempts /\ att[checkpoint] # "NONE"
    BY <1>1 DEF IndInv, TypeOK, ResultTypeOK, Attempts, RowInv, RecordsSound
  <2> QED
    BY <1>6, <2>1
<1>10. ASSUME UNCHANGED kind,
              Snapshot => /\ activeStartedAt' = 0
                          /\ charges' = Charge(charges, activeStartedAt)
       PROVE  ChargedOnce'
  <2> SUFFICES ASSUME Snapshot' PROVE ChargedOnce'
    BY DEF ChargedOnce
  <2>1. Snapshot
    BY <1>10 DEF Snapshot
  <2>2. activeStartedAt = n
    BY <2>1 DEF IndInv, RowInv, ChargedOnce
  <2>3. \A m \in Attempts : charges'[m] = (IF m = n THEN charges[m] + 1 ELSE charges[m])
    BY <1>10, <2>1, <2>2 DEF Charge
  <2>4. \A m \in Attempts : charges[m] = (IF att[m] \in {"NONE", "RUNNING"} THEN 0 ELSE 1)
    BY <2>1 DEF IndInv, RowInv, ChargedOnce
  <2>5. \A m \in Attempts : charges'[m] = (IF att'[m] \in {"NONE", "RUNNING"} THEN 0 ELSE 1)
    BY <1>5, <1>6, <2>3, <2>4
  <2>6. \A m \in Attempts : activeStartedAt' = m <=> att'[m] = "RUNNING"
    BY <1>1, <1>6, <1>10, <2>1 DEF Attempts
  <2> QED
    BY <2>5, <2>6 DEF ChargedOnce
<1> QED
  BY <1>2, <1>3, <1>4, <1>6, <1>7, <1>8, <1>9, <1>10

(* Requests of an attempt that ends stay known; the one that ended it is   *)
(* answered.                                                               *)
LEMMA EndAttemptRequests ==
    ASSUME IndInv, NEW n \in Attempts, att[n] = "RUNNING",
           NEW e \in {"SUCCEEDED", "FAILED", "LEASE_EXPIRED"},
           att' = [att EXCEPT ![n] = e], UNCHANGED <<kind, claim, beat>>,
           req' \in {req, [req EXCEPT ![n] = IdleReq]},
           mon' \in {mon, MonitorIdle}, pauser' \in {pauser, 0}
    PROVE  RequestTypeOK' /\ RequestsTracked'
<1>1. \A m \in Attempts : /\ att'[m] # "RUNNING"
                          /\ att'[m] = "NONE" <=> att[m] = "NONE"
  BY EndAttempt
<1>2. MaxAttempts \in Nat
  BY MaxAttemptsAssumption
<1>3. RequestTypeOK
  BY DEF IndInv, TypeOK
<1>4. req' \in [Attempts -> [pc : {"idle", "checkpoint", "complete", "loaded"},
                            run : RunStatus \union {"ABSENT"}]]
      /\ \A m \in Attempts : req'[m] = req[m] \/ req'[m].pc = "idle"
  BY <1>3 DEF RequestTypeOK, IdleReq
<1>5. mon' \in [pc : {"idle", "scanned", "loaded"}, no : 0..MaxAttempts,
               run : RunStatus \union {"ABSENT"}]
      /\ (mon' = mon \/ mon'.pc = "idle")
  BY <1>2, <1>3 DEF RequestTypeOK, MonitorIdle
<1>6. RequestTypeOK'
  BY <1>2, <1>3, <1>4, <1>5 DEF RequestTypeOK
<1>7. pauser' # 0 => att'[pauser'] # "NONE"
  <2>1. pauser # 0 => pauser \in Attempts
    BY <1>2, <1>3 DEF RequestTypeOK, Attempts
  <2> QED
    BY <1>1, <2>1 DEF IndInv, RequestsTracked
<1>8. RequestsTracked'
  BY <1>1, <1>4, <1>5, <1>7 DEF IndInv, RequestsTracked, Snapshot
<1> QED
  BY <1>6, <1>8

(* An attempt that succeeds hands its patch over for approval. *)
LEMMA CompleteSucceededInv ==
    ASSUME IndInv, NEW n \in Attempts, CompleteSucceeded(n)
    PROVE  IndInv'
<1>1. PICK p \in {0, n} : patch' = (IF p = 0 THEN patch ELSE p) /\ approval' = Append(approval, p)
  BY DEF CompleteSucceeded, ExtrasPatch
<1>2. /\ att[n] = "RUNNING" /\ (Snapshot => Unsettled = {})
      /\ att' = [att EXCEPT ![n] = "SUCCEEDED"]
      /\ run' = "SUCCEEDED" /\ task' = "AWAITING_APPROVAL" /\ phase' = "AWAITING_APPROVAL"
      /\ UNCHANGED <<kind, overdue, reason, lease, time, tokens, calls, checkpoint, outbox>>
      /\ UNCHANGED <<claim, beat, mon, pauser>>
      /\ req' = [req EXCEPT ![n] = IdleReq]
  BY DEF CompleteSucceeded, MaySucceed, limitVars, budgetVars
<1>3. activeStartedAt' = ExtrasClock /\ charges' = ExtrasCharges(n)
  BY DEF CompleteSucceeded
<1>4. /\ run = "RUNNING" /\ approval = <<>> /\ IsLatest(n)' /\ Len(outbox) = n /\ OneOwner'
      /\ \A m \in Attempts : att'[m] \in {"NONE", "SUCCEEDED", "FAILED", "LEASE_EXPIRED"}
      /\ checkpoint' # 0 => att'[checkpoint'] # "NONE"
  BY <1>2, EndAttempt
<1>5. /\ n \in Nat /\ n \in 0..MaxAttempts /\ MaxAttempts \in Nat
      /\ att'[n] = "SUCCEEDED"
      /\ activeStartedAt \in 0..MaxAttempts /\ charges \in [Attempts -> Nat]
  BY <1>2, MaxAttemptsAssumption DEF Attempts, IndInv, TypeOK, AttemptTypeOK
<1>6. TypeOK'
  <2>1. hops' \in Seq((RunStatus \union {"ABSENT"}) \X RunStatus)
    <3>1. {<<"RUNNING", "VERIFYING">>, <<"VERIFYING", "SUCCEEDED">>}
            \subseteq (RunStatus \union {"ABSENT"}) \X RunStatus
      BY DEF RunStatus
    <3> QED
      BY <3>1 DEF CompleteSucceeded
  <2>2. RunTypeOK'
    BY <1>2, <2>1 DEF IndInv, TypeOK, RunTypeOK, RunStatus, TaskStatus, Phases
  <2>3. activeStartedAt' \in 0..MaxAttempts /\ charges' \in [Attempts -> Nat]
    BY <1>3, <1>5, ChargeType DEF ExtrasClock, ExtrasCharges
  <2>4. AttemptTypeOK'
    BY <1>2, <2>3 DEF IndInv, TypeOK, AttemptTypeOK, AttemptStatus
  <2>5. ResultTypeOK'
    BY <1>1, <1>2, <1>5 DEF IndInv, TypeOK, ResultTypeOK
  <2>6. RequestTypeOK'
    BY <1>2, EndAttemptRequests
  <2> QED
    BY <1>2, <2>2, <2>4, <2>5, <2>6 DEF IndInv, TypeOK, BudgetTypeOK
<1>7. NothingYet'
  BY <1>2, <1>4 DEF IndInv, NothingYet
<1>8. RequestsTracked'
  BY <1>2, EndAttemptRequests
<1>9. approval' = <<p>>
  BY <1>1, <1>4
<1>10. Reached' /\ RecordsSound'
  BY <1>2, <1>4 DEF IndInv, RowInv, Reached, RecordsSound, Ended
<1>11. StatusAgreement'
  BY <1>2, <1>9 DEF StatusAgreement
<1>12. OutboxInOrder'
  BY <1>2, <1>4 DEF IndInv, RowInv, OutboxInOrder
<1>13. ApprovalBacked'
  <2>1. Snapshot' => Unsettled' = {}
    BY <1>2 DEF Snapshot, Unsettled
  <2>2. p # 0 => patch' = p
    BY <1>1
  <2> QED
    BY <1>4, <1>5, <1>9, <2>1, <2>2 DEF ApprovalBacked
<1>14. ChargedOnce'
  <2>1. Snapshot => activeStartedAt' = 0 /\ charges' = Charge(charges, activeStartedAt)
    BY <1>3 DEF ExtrasClock, ExtrasCharges
  <2> QED
    BY <1>2, <2>1, EndAttempt
<1>15. DispatchFunded'
  BY <1>2 DEF DispatchFunded
<1> QED
  BY <1>4, <1>6, <1>7, <1>8, <1>10, <1>11, <1>12, <1>13, <1>14, <1>15 DEF IndInv, RowInv

(* Whatever the recovery policy decides for the attempt that just ended,   *)
(* the rows agree afterwards.                                              *)
LEMMA PolicyEndInv ==
    ASSUME IndInv, NEW n \in Attempts, att[n] = "RUNNING",
           NEW e \in {"FAILED", "LEASE_EXPIRED"}, att' = [att EXCEPT ![n] = e],
           NEW code \in FailureCode, NEW clock \in 0..MaxAttempts,
           NEW charged \in [Attempts -> Nat],
           Snapshot => Charge(charged, clock) = Charge(charges, activeStartedAt),
           applyPolicy(n, code, "INTERRUPTED", <<<<"RUNNING", "INTERRUPTED">>>>, clock, charged),
           UNCHANGED <<kind, overdue, lease, tokens, calls, checkpoint, approval, claim, beat>>,
           patch' \in 0..MaxAttempts,
           req' \in {req, [req EXCEPT ![n] = IdleReq]}, mon' \in {mon, MonitorIdle},
           UNCHANGED pauser
    PROVE  IndInv'
<1> DEFINE log == <<<<"RUNNING", "INTERRUPTED">>>>
<1>1. /\ charges' = (IF Snapshot THEN Charge(charged, clock) ELSE charged)
      /\ activeStartedAt' \in {0, clock}
      /\ Snapshot => activeStartedAt' = 0
      /\ PolicyParks(log) \/ PolicyRetries(n, log) \/ PolicyAborts(log)
  BY PolicyEffect DEF IndInv
<1>2. /\ run = "RUNNING" /\ task = "RUNNING" /\ approval = <<>>
      /\ IsLatest(n)' /\ Len(outbox) = n /\ (run' # "RUNNING" => OneOwner')
      /\ \A m \in Attempts : att'[m] \in {"NONE", "SUCCEEDED", "FAILED", "LEASE_EXPIRED"}
      /\ checkpoint' # 0 => att'[checkpoint'] # "NONE"
  BY EndAttempt
<1>3. n \in Nat /\ MaxAttempts \in Nat /\ outbox \in Seq(Command)
      /\ \A i \in DOMAIN outbox : outbox[i].no = i
  BY MaxAttemptsAssumption
     DEF Attempts, IndInv, TypeOK, ResultTypeOK, RowInv, OutboxInOrder
<1>4. run' \in {"INTERRUPTED", "DISPATCHED", "FAILED"} /\ phase' \in Phases
      /\ task' \in TaskStatus /\ reason' \in Reasons /\ time' \in {"left", "out"}
  BY <1>1 DEF PolicyParks, PolicyRetries, PolicyAborts, IndInv, TypeOK, RunTypeOK,
              AttemptTypeOK, Phases, TaskStatus
<1>5. /\ outbox' \in Seq(Command)
      /\ \A i \in DOMAIN outbox' : outbox'[i].no = i
      /\ Len(outbox') = (IF run' = "DISPATCHED" THEN n + 1 ELSE n)
  <2>1. CASE outbox' = outbox /\ run' # "DISPATCHED"
    BY <1>2, <1>3, <2>1
  <2>2. CASE PolicyRetries(n, log)
    <3>1. PICK cmd \in Command : cmd.no = n + 1 /\ outbox' = Append(outbox, cmd)
      BY <2>2 DEF PolicyRetries
    <3> QED
      BY <1>2, <1>3, <2>2, <3>1 DEF PolicyRetries
  <2> QED
    BY <1>1, <2>1, <2>2 DEF PolicyParks, PolicyAborts
<1>6. TypeOK'
  <2>1. hops' \in Seq((RunStatus \union {"ABSENT"}) \X RunStatus)
    <3> DEFINE Hop == (RunStatus \union {"ABSENT"}) \X RunStatus
    <3>1. /\ <<"RUNNING", "INTERRUPTED">> \in Hop /\ <<"INTERRUPTED", "FAILED">> \in Hop
          /\ <<"INTERRUPTED", "RECOVERING">> \in Hop /\ <<"RECOVERING", "DISPATCHED">> \in Hop
      BY DEF RunStatus
    <3> DEFINE again == <<<<"INTERRUPTED", "RECOVERING">>, <<"RECOVERING", "DISPATCHED">>>>
               fail == <<"INTERRUPTED", "FAILED">>
    <3>2. hops' = log \/ hops' = log \o again \/ hops' = Append(log, fail)
      BY <1>1 DEF PolicyParks, PolicyRetries, PolicyAborts
    <3> HIDE DEF Hop
    <3>3. log \in Seq(Hop) /\ again \in Seq(Hop) /\ fail \in Hop
      BY <3>1
    <3> HIDE DEF log, again, fail
    <3>4. log \o again \in Seq(Hop)
      BY <3>3, ConcatProperties
    <3>5. Append(log, fail) \in Seq(Hop)
      BY <3>3, AppendProperties
    <3>6. hops' \in Seq(Hop)
      BY <3>2, <3>3, <3>4, <3>5
    <3> QED
      BY <3>6 DEF Hop
  <2>2. RunTypeOK'
    BY <1>4, <2>1 DEF IndInv, TypeOK, RunTypeOK, RunStatus
  <2>3. activeStartedAt' \in 0..MaxAttempts /\ charges' \in [Attempts -> Nat]
    BY <1>1, <1>3, ChargeType
  <2>4. AttemptTypeOK'
    BY <1>4, <2>3 DEF IndInv, TypeOK, AttemptTypeOK, AttemptStatus
  <2>5. ResultTypeOK'
    BY <1>5 DEF IndInv, TypeOK, ResultTypeOK
  <2>6. RequestTypeOK'
    BY EndAttemptRequests
  <2> QED
    BY <2>2, <2>4, <2>5, <2>6 DEF IndInv, TypeOK, BudgetTypeOK
<1>7. NothingYet'
  BY <1>2, <1>4 DEF IndInv, NothingYet
<1>8. RequestsTracked'
  BY EndAttemptRequests
<1>9. Reached'
  BY <1>1, <1>2, <1>4
     DEF IndInv, RowInv, Reached, Ended, Snapshot, PolicyParks, PolicyRetries, PolicyAborts
<1>10. RecordsSound'
  BY <1>1, <1>2
     DEF IndInv, RowInv, RecordsSound, PolicyParks, PolicyRetries, PolicyAborts
<1>11. StatusAgreement'
  BY <1>1, <1>2
     DEF IndInv, RowInv, Reached, StatusAgreement, PolicyParks, PolicyRetries, PolicyAborts
<1>12. OutboxInOrder'
  BY <1>2, <1>3, <1>4, <1>5 DEF OutboxInOrder
<1>13. DispatchFunded'
  <2> SUFFICES ASSUME Snapshot', run' = "DISPATCHED"
               PROVE  Unsettled' = {} /\ tokens' = "left" /\ time' = "left"
    BY DEF DispatchFunded
  <2>1. ~Unfunded /\ time' = time
    BY <1>1 DEF PolicyParks, PolicyRetries, PolicyAborts, Snapshot
  <2> QED
    BY <2>1 DEF Unfunded, Unsettled, IndInv, TypeOK, AttemptTypeOK, BudgetTypeOK
<1>14. ChargedOnce'
  BY <1>1, EndAttempt
<1>15. ApprovalBacked'
  BY <1>2 DEF ApprovalBacked
<1> QED
  BY <1>2, <1>4, <1>6, <1>7, <1>8, <1>9, <1>10, <1>11, <1>12, <1>13, <1>14, <1>15
     DEF IndInv, RowInv

(* A reported failure ends the attempt and asks the policy. *)
LEMMA CompleteFailedInv ==
    ASSUME IndInv, NEW n \in Attempts, NEW code \in Codes, CompleteFailed(n, code)
    PROVE  IndInv'
<1>1. att[n] = "RUNNING" /\ req[n].run = "RUNNING"
  BY DEF CompleteFailed, IndInv, RequestsTracked
<1>2. applyPolicy(n, code, "INTERRUPTED", <<<<"RUNNING", "INTERRUPTED">>>>,
                  ExtrasClock, ExtrasCharges(n))
  BY <1>1 DEF CompleteFailed, Interrupted, InterruptLog, StaleLive
<1>3. /\ n \in 0..MaxAttempts /\ 0 \in 0..MaxAttempts /\ 0 \notin Attempts
      /\ activeStartedAt \in 0..MaxAttempts /\ patch \in 0..MaxAttempts
      /\ charges \in [Attempts -> Nat]
  BY MaxAttemptsAssumption
     DEF Attempts, IndInv, TypeOK, AttemptTypeOK, ResultTypeOK
<1>4. ExtrasClock \in 0..MaxAttempts /\ ExtrasCharges(n) \in [Attempts -> Nat]
  BY <1>3, ChargeType DEF ExtrasClock, ExtrasCharges
<1>5. Snapshot => Charge(ExtrasCharges(n), ExtrasClock) = Charge(charges, activeStartedAt)
  BY <1>3 DEF ExtrasClock, ExtrasCharges, Charge
<1>6. patch' \in 0..MaxAttempts
  BY <1>3 DEF CompleteFailed, ExtrasPatch
<1>7. /\ att' = [att EXCEPT ![n] = "FAILED"] /\ req' = [req EXCEPT ![n] = IdleReq]
      /\ UNCHANGED <<kind, overdue, lease, tokens, calls, checkpoint, approval, claim, beat>>
      /\ UNCHANGED <<mon, pauser>>
  BY DEF CompleteFailed, limitVars, budgetVars
<1> QED
  BY <1>1, <1>2, <1>4, <1>5, <1>6, <1>7, PolicyEndInv, CodesAssumption

(* A lapsed lease ends the attempt and asks the policy. *)
LEMMA LeaseExpiredInv ==
    ASSUME IndInv, NEW n \in Attempts, handleLeaseExpired(n)
    PROVE  IndInv'
<1>1. att[n] = "RUNNING" /\ mon.run = "RUNNING"
  <2>1. att[n] = "RUNNING"
    BY DEF handleLeaseExpired, LeaseLost, IndInv, RowInv, Reached
  <2> QED
    BY <2>1 DEF handleLeaseExpired, IndInv, RequestsTracked
<1>2. applyPolicy(n, "WORKER_LOST", "INTERRUPTED", <<<<"RUNNING", "INTERRUPTED">>>>,
                  activeStartedAt, charges)
  BY <1>1 DEF handleLeaseExpired, Interrupted, InterruptLog, StaleLive
<1>3. /\ activeStartedAt \in 0..MaxAttempts /\ patch \in 0..MaxAttempts
      /\ charges \in [Attempts -> Nat]
  BY DEF IndInv, TypeOK, AttemptTypeOK, ResultTypeOK
<1>4. /\ att' = [att EXCEPT ![n] = "LEASE_EXPIRED"] /\ mon' = MonitorIdle
      /\ UNCHANGED <<kind, overdue, lease, tokens, calls, checkpoint, approval, claim, beat>>
      /\ UNCHANGED <<patch, req, pauser>>
  BY DEF handleLeaseExpired, limitVars, budgetVars
<1> QED
  BY <1>1, <1>2, <1>3, <1>4, PolicyEndInv, WorkerLostIsCode

(* A pause parks the run and ends its attempt. *)
LEMMA PauseInv ==
    ASSUME IndInv, NEW n \in Attempts, NEW why \in Reasons, NEW p \in {0, n},
           pause(n, why, p), UNCHANGED <<claim, beat, req, mon>>, pauser' \in {pauser, 0}
    PROVE  IndInv'
<1>1. /\ att[n] = "RUNNING" /\ att' = [att EXCEPT ![n] = "FAILED"]
      /\ run' = "INTERRUPTED" /\ phase' = "NEEDS_ATTENTION" /\ task' = "NEEDS_ATTENTION"
      /\ reason' = why /\ hops' = <<<<run, "INTERRUPTED">>>>
      /\ charges' = Charge(charges, activeStartedAt) /\ activeStartedAt' = 0
      /\ patch' = (IF p = 0 THEN patch ELSE p)
      /\ UNCHANGED <<kind, overdue, lease, time, tokens, calls, checkpoint, outbox, approval>>
  BY DEF pause, HoldsLease, ExtrasPatch, limitVars, budgetVars
<1>2. /\ run = "RUNNING" /\ approval = <<>> /\ IsLatest(n)' /\ Len(outbox) = n /\ OneOwner'
      /\ \A m \in Attempts : att'[m] \in {"NONE", "SUCCEEDED", "FAILED", "LEASE_EXPIRED"}
      /\ checkpoint' # 0 => att'[checkpoint'] # "NONE"
      /\ ChargedOnce'
  BY <1>1, EndAttempt
<1>3. n \in 0..MaxAttempts /\ 0 \in 0..MaxAttempts
      /\ activeStartedAt \in 0..MaxAttempts /\ charges \in [Attempts -> Nat]
  BY MaxAttemptsAssumption DEF Attempts, IndInv, TypeOK, AttemptTypeOK
<1>4. RequestTypeOK' /\ RequestsTracked'
  BY <1>1, EndAttemptRequests
<1>5. TypeOK'
  <2>1. hops' \in Seq((RunStatus \union {"ABSENT"}) \X RunStatus)
    <3>1. <<run, "INTERRUPTED">> \in (RunStatus \union {"ABSENT"}) \X RunStatus
      BY <1>2 DEF RunStatus
    <3> QED
      BY <1>1, <3>1
  <2>2. RunTypeOK'
    BY <1>1, <2>1 DEF IndInv, TypeOK, RunTypeOK, RunStatus, TaskStatus, Phases
  <2>3. AttemptTypeOK'
    BY <1>1, <1>3, ChargeType DEF IndInv, TypeOK, AttemptTypeOK, AttemptStatus
  <2>4. ResultTypeOK'
    BY <1>1, <1>3 DEF IndInv, TypeOK, ResultTypeOK
  <2> QED
    BY <1>1, <1>4, <2>2, <2>3, <2>4 DEF IndInv, TypeOK, BudgetTypeOK
<1>6. NothingYet'
  BY <1>1, <1>2 DEF IndInv, NothingYet
<1>7. Reached' /\ RecordsSound' /\ StatusAgreement'
  BY <1>1, <1>2 DEF Reached, RecordsSound, StatusAgreement
<1>8. OutboxInOrder'
  BY <1>1, <1>2 DEF IndInv, RowInv, OutboxInOrder
<1>9. DispatchFunded' /\ ApprovalBacked'
  BY <1>1, <1>2 DEF DispatchFunded, ApprovalBacked
<1> QED
  BY <1>2, <1>4, <1>5, <1>6, <1>7, <1>8, <1>9 DEF IndInv, RowInv

(* A cancellation ends the run and the attempt that runs, if any. *)
LEMMA CancelInv ==
    ASSUME IndInv, Cancel
    PROVE  IndInv'
<1>1. /\ run' = "CANCELLED" /\ phase' = "CANCELLED" /\ task' = "CANCELLED"
      /\ charges' = Charge(charges, activeStartedAt) /\ activeStartedAt' = 0
      /\ att' = [n \in Attempts |->
                  IF att[n] \in {"RUNNING", "CLAIMED"} THEN "FAILED" ELSE att[n]]
      /\ hops' = <<<<run, "CANCELLED">>>>
      /\ UNCHANGED <<kind, overdue, reason, lease, time, tokens, calls>>
      /\ UNCHANGED <<checkpoint, outbox, patch, approval, claim, beat, req, mon, pauser>>
  BY DEF Cancel, limitVars, budgetVars, resultVars, requestVars
<1>2. run \in {"DISPATCHED", "RUNNING", "INTERRUPTED"}
  BY DEF Cancel, IndInv, RowInv, Reached, Ended
<1>3. /\ att \in [Attempts -> AttemptStatus \union {"NONE"}]
      /\ charges \in [Attempts -> Nat] /\ activeStartedAt \in 0..MaxAttempts
      /\ 0 \in 0..MaxAttempts /\ MaxAttempts \in Nat
      /\ \A m \in Attempts : att[m] # "CLAIMED"
  BY MaxAttemptsAssumption DEF IndInv, TypeOK, AttemptTypeOK, RowInv, Reached
<1>4. approval = <<>>
  BY <1>2 DEF IndInv, RowInv, StatusAgreement, TypeOK, ResultTypeOK
<1>5. /\ RequestsTracked' /\ OneOwner' /\ ChargedOnce'
      /\ \A m \in Attempts : att'[m] \in {"NONE", "SUCCEEDED", "FAILED", "LEASE_EXPIRED"}
      /\ checkpoint' # 0 => att'[checkpoint'] # "NONE"
  <2>1. CASE \E n \in Attempts : att[n] = "RUNNING"
    <3>1. PICK n \in Attempts : att[n] = "RUNNING"
      BY <2>1
    <3>2. \A m \in Attempts : att[m] = "RUNNING" => m = n
      <4> SUFFICES ASSUME NEW m \in Attempts, att[m] = "RUNNING" PROVE m = n
        OBVIOUS
      <4>1. IsLatest(m) /\ IsLatest(n)
        BY <3>1 DEF IndInv, RowInv, OneOwner
      <4> QED
        BY <1>3, <4>1, LatestUnique DEF Attempts
    <3>3. att' = [att EXCEPT ![n] = "FAILED"]
      BY <1>1, <1>3, <3>1, <3>2
    <3> QED
      BY <1>1, <3>1, <3>3, EndAttempt, EndAttemptRequests
  <2>2. CASE \A n \in Attempts : att[n] # "RUNNING"
    <3>1. att' = att
      BY <1>1, <1>3, <2>2
    <3>2. Snapshot => activeStartedAt = 0
      <4>1. run # "RUNNING"
        BY <2>2 DEF IndInv, RowInv, OneOwner
      <4> QED
        BY <4>1, ClockStopped
    <3>3. Snapshot => charges' = charges
      <4>1. 0 \notin Attempts
        BY DEF Attempts
      <4> QED
        BY <1>1, <1>3, <3>2, <4>1 DEF Charge
    <3>4. ChargedOnce'
      BY <1>1, <3>1, <3>2, <3>3 DEF IndInv, RowInv, ChargedOnce, Snapshot
    <3>5. OneOwner'
      BY <1>1, <2>2, <3>1 DEF IndInv, RowInv, OneOwner
    <3>6. RequestsTracked'
      BY <1>1, <3>1 DEF IndInv, RequestsTracked, Snapshot
    <3>7. \A m \in Attempts : att'[m] \in {"NONE", "SUCCEEDED", "FAILED", "LEASE_EXPIRED"}
      BY <2>2, <3>1 DEF IndInv, RowInv, Reached
    <3> QED
      BY <1>1, <3>1, <3>4, <3>5, <3>6, <3>7 DEF IndInv, RowInv, RecordsSound
  <2> QED
    BY <2>1, <2>2
<1>6. TypeOK'
  <2>1. hops' \in Seq((RunStatus \union {"ABSENT"}) \X RunStatus)
    <3>1. <<run, "CANCELLED">> \in (RunStatus \union {"ABSENT"}) \X RunStatus
      BY <1>2 DEF RunStatus
    <3> QED
      BY <1>1, <3>1
  <2>2. RunTypeOK'
    BY <1>1, <2>1 DEF IndInv, TypeOK, RunTypeOK, RunStatus, TaskStatus, Phases
  <2>3. AttemptTypeOK'
    BY <1>1, <1>3, ChargeType DEF IndInv, TypeOK, AttemptTypeOK, AttemptStatus
  <2> QED
    BY <1>1, <2>2, <2>3 DEF IndInv, TypeOK, BudgetTypeOK, ResultTypeOK, RequestTypeOK
<1>7. NothingYet'
  BY <1>1, <1>2 DEF IndInv, NothingYet
<1>8. Reached' /\ RecordsSound' /\ StatusAgreement'
  BY <1>1, <1>4, <1>5 DEF Reached, RecordsSound, StatusAgreement, Ended
<1>9. OutboxInOrder'
  BY <1>1 DEF IndInv, RowInv, OutboxInOrder
<1>10. DispatchFunded' /\ ApprovalBacked'
  BY <1>1, <1>4 DEF DispatchFunded, ApprovalBacked
<1> QED
  BY <1>5, <1>6, <1>7, <1>8, <1>9, <1>10 DEF IndInv, RowInv

-----------------------------------------------------------------------------
(* Resume, the budget and the passage of time *)

(* A manual resume commands the next attempt of a parked, funded run. *)
LEMMA ResumeInv ==
    ASSUME IndInv, NEW n \in 0..MaxAttempts, Resume(n)
    PROVE  IndInv'
<1> DEFINE cmd == [no |-> n + 1, why |-> "MANUAL", checkpoint |-> checkpoint]
<1>1. /\ run = "INTERRUPTED" /\ ~Unfunded /\ IsLatest(n)
      /\ run' = "DISPATCHED" /\ phase' = "QUEUED" /\ task' = "QUEUED" /\ reason' = "none"
      /\ outbox' = Append(outbox, cmd)
      /\ hops' = <<<<"INTERRUPTED", "DISPATCHED">>>>
      /\ UNCHANGED <<kind, overdue, att, lease, activeStartedAt, charges, time, tokens, calls>>
      /\ UNCHANGED <<checkpoint, patch, approval, claim, beat, req, mon, pauser>>
  BY DEF Resume, MayResume, limitVars, timeVars, budgetVars, requestVars
<1>2. n < MaxAttempts /\ n \in Nat /\ MaxAttempts \in Nat
  <2>1. PICK m \in Attempts : att[m] = "NONE"
    BY DEF Resume, MayResume
  <2>2. \A k, l \in Attempts : k < l /\ att[l] # "NONE" => att[k] # "NONE"
    BY DEF IndInv, RowInv, OneOwner
  <2>3. n # 0 => n \in Attempts /\ att[n] # "NONE"
    BY <1>1, MaxAttemptsAssumption DEF IsLatest, Attempts
  <2> QED
    BY <2>1, <2>2, <2>3, MaxAttemptsAssumption DEF Attempts
<1>3. cmd \in Command /\ cmd.no = n + 1
  BY <1>2 DEF Command, Attempts, IndInv, TypeOK, ResultTypeOK
<1>4. Len(outbox) = n
  <2>1. IsLatest(Len(outbox))
    BY <1>1 DEF IndInv, RowInv, OutboxInOrder
  <2> QED
    BY <1>1, <2>1, OutboxBounded, LatestUnique
<1>5. outbox \in Seq(Command) /\ \A i \in DOMAIN outbox : outbox[i].no = i
  BY DEF IndInv, TypeOK, ResultTypeOK, RowInv, OutboxInOrder
<1>6. /\ outbox' \in Seq(Command)
      /\ \A i \in DOMAIN outbox' : outbox'[i].no = i
      /\ Len(outbox') = n + 1
  <2> HIDE DEF cmd
  <2> QED
    BY <1>1, <1>2, <1>3, <1>4, <1>5
<1>7. TypeOK'
  <2>1. hops' \in Seq((RunStatus \union {"ABSENT"}) \X RunStatus)
    <3>1. <<"INTERRUPTED", "DISPATCHED">> \in (RunStatus \union {"ABSENT"}) \X RunStatus
      BY DEF RunStatus
    <3> QED
      BY <1>1, <3>1
  <2>2. RunTypeOK'
    BY <1>1, <2>1 DEF IndInv, TypeOK, RunTypeOK, RunStatus, TaskStatus, Phases, Reasons
  <2>3. ResultTypeOK'
    BY <1>1, <1>6 DEF IndInv, TypeOK, ResultTypeOK
  <2> QED
    BY <1>1, <2>2, <2>3 DEF IndInv, TypeOK, AttemptTypeOK, BudgetTypeOK, RequestTypeOK
<1>8. NothingYet'
  BY <1>1 DEF IndInv, NothingYet
<1>9. RequestsTracked'
  BY <1>1 DEF IndInv, RequestsTracked, Snapshot
<1>10. IsLatest(n)'
  BY <1>1 DEF IsLatest
<1>11. OutboxInOrder'
  BY <1>1, <1>2, <1>6, <1>10 DEF OutboxInOrder
<1>12. OneOwner'
  BY <1>1 DEF IndInv, RowInv, OneOwner
<1>13. Reached' /\ RecordsSound'
  BY <1>1 DEF IndInv, RowInv, Reached, RecordsSound, BlockingReasons
<1>14. StatusAgreement'
  BY <1>1 DEF IndInv, RowInv, StatusAgreement
<1>15. DispatchFunded'
  BY <1>1 DEF DispatchFunded, Unfunded, Unsettled, IndInv, TypeOK, AttemptTypeOK, BudgetTypeOK
<1>16. ChargedOnce' /\ ApprovalBacked'
  BY <1>1, Frame DEF IndInv
<1> QED
  BY <1>7, <1>8, <1>9, <1>11, <1>12, <1>13, <1>14, <1>15, <1>16 DEF IndInv, RowInv

(* Leases and the deadline are read by requests only. *)
LEMMA LeaseInv ==
    ASSUME IndInv, NEW n \in Attempts, Heartbeat(n) \/ LeaseLapse(n) \/ DeadlinePasses
    PROVE  IndInv'
<1>1. /\ UNCHANGED <<kind, run, phase, task, reason, hops, att, activeStartedAt, charges, time>>
      /\ UNCHANGED <<tokens, calls, checkpoint, outbox, patch, approval, claim, req, mon, pauser>>
  BY DEF Heartbeat, LeaseLapse, DeadlinePasses, limitVars, runVars, timeVars, budgetVars,
         resultVars, requestVars
<1>2. /\ lease' \in [Attempts -> {"none", "live", "lapsed"}]
      /\ overdue' \in BOOLEAN
      /\ beat' \in [Attempts -> BOOLEAN] /\ \A m \in Attempts : beat'[m] => beat[m]
  BY DEF Heartbeat, LeaseLapse, DeadlinePasses, IndInv, TypeOK, RunTypeOK, AttemptTypeOK,
         RequestTypeOK, limitVars, requestVars
<1>3. TypeOK'
  BY <1>1, <1>2 DEF IndInv, TypeOK, RunTypeOK, AttemptTypeOK, BudgetTypeOK, ResultTypeOK,
                    RequestTypeOK
<1>4. NothingYet'
  BY <1>1 DEF IndInv, NothingYet, Unsettled
<1>5. RequestsTracked'
  BY <1>1, <1>2 DEF IndInv, RequestsTracked, Snapshot
<1>6. RowInv'
  BY <1>1, Frame DEF IndInv, RowInv
<1> QED
  BY <1>3, <1>4, <1>5, <1>6 DEF IndInv

(* A phase report and a saved checkpoint need the lease, so the run runs. *)
LEMMA ReportInv ==
    ASSUME IndInv, NEW n \in Attempts, Phase(n) \/ saveCheckpoint(n)
    PROVE  IndInv'
<1>1. /\ UNCHANGED <<kind, overdue, run, task, reason, hops, att, lease>>
      /\ UNCHANGED <<activeStartedAt, charges, time, tokens, calls>>
      /\ UNCHANGED <<outbox, patch, approval, claim, beat, mon, pauser>>
  BY DEF Phase, saveCheckpoint, limitVars, runVars, timeVars, budgetVars, resultVars,
         requestVars
<1>2. phase' = phase \/ (phase' = "WORKING" /\ att[n] = "RUNNING" /\ Snapshot)
  BY DEF Phase, saveCheckpoint, HoldsLease, runVars
<1>3. checkpoint' = checkpoint \/ (checkpoint' = n /\ att[n] = "RUNNING")
  BY DEF Phase, saveCheckpoint, HoldsLease, resultVars
<1>4. req' = req \/ req' = [req EXCEPT ![n] = IdleReq]
  BY DEF Phase, saveCheckpoint, requestVars
<1>5. att[n] = "RUNNING" => run = "RUNNING"
  BY DEF IndInv, RowInv, OneOwner
<1>6. req' \in [Attempts -> [pc : {"idle", "checkpoint", "complete", "loaded"},
                            run : RunStatus \union {"ABSENT"}]]
      /\ \A m \in Attempts : req'[m] = req[m] \/ req'[m].pc = "idle"
  BY <1>4 DEF IndInv, TypeOK, RequestTypeOK, IdleReq
<1>7. TypeOK'
  <2>1. n \in 0..MaxAttempts
    BY MaxAttemptsAssumption DEF Attempts
  <2>2. RunTypeOK' /\ ResultTypeOK'
    BY <1>1, <1>2, <1>3, <2>1 DEF IndInv, TypeOK, RunTypeOK, ResultTypeOK, Phases
  <2> QED
    BY <1>1, <1>6, <2>2 DEF IndInv, TypeOK, AttemptTypeOK, BudgetTypeOK, RequestTypeOK
<1>8. NothingYet'
  BY <1>1, <1>2, <1>5 DEF IndInv, NothingYet, Unsettled
<1>9. RequestsTracked'
  BY <1>1, <1>6 DEF IndInv, RequestsTracked, Snapshot
<1>10. Reached' /\ StatusAgreement'
  BY <1>1, <1>2, <1>5 DEF IndInv, RowInv, Reached, StatusAgreement, Snapshot
<1>11. RecordsSound'
  BY <1>1, <1>3 DEF IndInv, RowInv, RecordsSound
<1>12. /\ OneOwner' /\ OutboxInOrder' /\ DispatchFunded' /\ ChargedOnce' /\ ApprovalBacked'
  BY <1>1, Frame DEF IndInv
<1> QED
  BY <1>7, <1>8, <1>9, <1>10, <1>11, <1>12 DEF IndInv, RowInv

(* Reservations need a running attempt; only a call that is not settled is *)
(* settled, so a waiting or approved run has none.                         *)
LEMMA BudgetInv ==
    ASSUME IndInv, NEW c \in Calls,
           \/ \E n \in Attempts : Reserve(n, c)
           \/ \E status \in {"SETTLED", "UNKNOWN"} : Settle(c, status)
    PROVE  IndInv'
<1>1. /\ UNCHANGED <<kind, overdue, run, phase, task, reason, hops, att, lease>>
      /\ UNCHANGED <<activeStartedAt, charges, time, checkpoint, outbox, patch, approval>>
      /\ UNCHANGED <<claim, beat, req, mon, pauser>>
  BY DEF Reserve, Settle, limitVars, runVars, timeVars, resultVars, requestVars
<1>2. \E status \in {"RESERVED", "SETTLED", "UNKNOWN"} : calls' = [calls EXCEPT ![c] = status]
  BY DEF Reserve, Settle
<1>3. run = "RUNNING" \/ Unsettled # {}
  BY DEF Reserve, Settle, HoldsLease, Unsettled, IndInv, RowInv, OneOwner
<1>4. tokens' \in {"left", "out"}
  BY DEF Reserve, Settle, IndInv, TypeOK, BudgetTypeOK
<1>5. TypeOK'
  <2>1. BudgetTypeOK'
    BY <1>2, <1>4 DEF IndInv, TypeOK, BudgetTypeOK
  <2> QED
    BY <1>1, <2>1 DEF IndInv, TypeOK, RunTypeOK, AttemptTypeOK, ResultTypeOK, RequestTypeOK
<1>6. NothingYet'
  BY <1>1, <1>3 DEF IndInv, NothingYet
<1>7. RequestsTracked'
  BY <1>1 DEF IndInv, RequestsTracked, Snapshot
<1>8. DispatchFunded'
  BY <1>1, <1>3 DEF IndInv, RowInv, DispatchFunded, Snapshot
<1>9. ApprovalBacked'
  <2>1. run = "RUNNING" => approval = <<>>
    BY DEF IndInv, RowInv, StatusAgreement, TypeOK, ResultTypeOK
  <2>2. Snapshot /\ Unsettled # {} => DOMAIN approval = {}
    BY DEF IndInv, RowInv, ApprovalBacked
  <2>3. Snapshot => DOMAIN approval = {}
    BY <1>3, <2>1, <2>2
  <2>4. UNCHANGED <<kind, att, approval, patch>>
    BY <1>1
  <2> QED
    BY <2>3, <2>4 DEF IndInv, RowInv, ApprovalBacked, IsLatest, Snapshot
<1>10. /\ Reached' /\ RecordsSound' /\ OneOwner' /\ StatusAgreement' /\ OutboxInOrder'
       /\ ChargedOnce'
  BY <1>1, Frame DEF IndInv
<1> QED
  BY <1>5, <1>6, <1>7, <1>8, <1>9, <1>10 DEF IndInv, RowInv

(* The execution time only runs while an attempt of a snapshot run does. *)
LEMMA TimeRunsOutInv ==
    ASSUME IndInv, TimeRunsOut
    PROVE  IndInv'
<1>1. /\ activeStartedAt # 0 /\ time' = "out"
      /\ UNCHANGED <<kind, overdue, run, phase, task, reason, hops, att, lease>>
      /\ UNCHANGED <<activeStartedAt, charges, tokens, calls>>
      /\ UNCHANGED <<checkpoint, outbox, patch, approval, claim, beat, req, mon, pauser>>
  BY DEF TimeRunsOut, limitVars, runVars, budgetVars, resultVars, requestVars
<1>2. Snapshot => run = "RUNNING"
  BY <1>1, ClockStopped
<1>3. TypeOK'
  BY <1>1 DEF IndInv, TypeOK, RunTypeOK, AttemptTypeOK, BudgetTypeOK, ResultTypeOK,
              RequestTypeOK
<1>4. NothingYet' /\ RequestsTracked'
  BY <1>1 DEF IndInv, NothingYet, RequestsTracked, Snapshot
<1>5. DispatchFunded'
  BY <1>1, <1>2 DEF DispatchFunded, Snapshot
<1>6. /\ Reached' /\ RecordsSound' /\ OneOwner' /\ StatusAgreement' /\ OutboxInOrder'
      /\ ChargedOnce' /\ ApprovalBacked'
  BY <1>1, Frame DEF IndInv
<1> QED
  BY <1>3, <1>4, <1>5, <1>6 DEF IndInv, RowInv

-----------------------------------------------------------------------------
(* Every step *)

(* Every step keeps the invariant. *)
LEMMA NextInv == IndInv /\ [Next]_vars => IndInv'
<1> SUFFICES ASSUME IndInv, [Next]_vars PROVE IndInv'
  OBVIOUS
<1>1. CASE UNCHANGED vars
  <2>1. UNCHANGED rows /\ UNCHANGED <<kind, att, claim, beat, req, mon, pauser>>
    BY <1>1 DEF vars, rows, limitVars, requestVars
  <2>2. RequestTypeOK'
    BY <2>1 DEF IndInv, TypeOK, RequestTypeOK
  <2>3. RequestsTracked'
    BY <2>1 DEF IndInv, RequestsTracked, Snapshot
  <2> QED
    BY <2>1, <2>2, <2>3, RequestStep
<1>2. CASE Confirm \/ \E k \in {"fixture", "experiment"} : CreateTask(k)
  BY <1>2, CreateInv
<1>3. CASE \E w \in Workers : ClaimStep(w)
  <2>1. 1 \in Attempts
    BY MaxAttemptsAssumption DEF Attempts
  <2> QED
    BY <1>3, <2>1, ClaimRequestInv, ClaimCommitInv DEF ClaimStep
<1>4. ASSUME NEW n \in Attempts,
             WorkerStep(n) \/ Heartbeat(n) \/ CompleteStep(n) \/ saveCheckpoint(n)
      PROVE  IndInv'
  <2>1. CASE HeartbeatLease(n) \/ CompleteLease(n) \/ CheckpointLease(n)
             \/ CompleteLoad(n) \/ CompleteRefused(n)
    BY <2>1, WorkerRequestInv
  <2>2. CASE Phase(n) \/ saveCheckpoint(n)
    BY <2>2, ReportInv
  <2>3. CASE \E why \in PauseReasons : WorkerPause(n, why)
    <3>1. PICK why \in PauseReasons, p \in {0, n} : pause(n, why, p) /\ UNCHANGED requestVars
      BY <2>3 DEF WorkerPause
    <3>2. why \in Reasons
      BY DEF Reasons
    <3> QED
      BY <3>1, <3>2, PauseInv DEF requestVars
  <2>4. CASE \E c \in Calls : Reserve(n, c)
    BY <2>4, BudgetInv
  <2>5. CASE Heartbeat(n)
    BY <2>5, LeaseInv
  <2>6. CASE CompleteSucceeded(n)
    BY <2>6, CompleteSucceededInv
  <2>7. CASE \E code \in Codes : CompleteFailed(n, code)
    BY <2>7, CompleteFailedInv
  <2> QED
    BY <1>4, <2>1, <2>2, <2>3, <2>4, <2>5, <2>6, <2>7 DEF WorkerStep, CompleteStep
<1>5. CASE MonitorStep
  <2>1. 1 \in Attempts
    BY MaxAttemptsAssumption DEF Attempts
  <2> QED
    BY <1>5, <2>1, MonitorRequestInv, LeaseExpiredInv DEF MonitorStep
<1>6. CASE UserStep
  <2>1. CASE Cancel
    BY <2>1, CancelInv
  <2>2. CASE \E n \in 0..MaxAttempts : Resume(n)
    BY <2>2, ResumeInv
  <2>3. CASE PauseRunRefused \/ \E n \in Attempts : PauseRunLoad(n)
    <3>1. 1 \in Attempts
      BY MaxAttemptsAssumption DEF Attempts
    <3> QED
      BY <2>3, <3>1, PauseRequestInv
  <2>4. CASE \E n \in Attempts : PauseRun(n)
    <3>1. PICK n \in Attempts : PauseRun(n)
      BY <2>4
    <3>2. "PAUSED_BY_USER" \in Reasons
      BY DEF Reasons
    <3> QED
      BY <3>1, <3>2, PauseInv DEF PauseRun
  <2> QED
    BY <1>6, <2>1, <2>2, <2>3, <2>4 DEF UserStep
<1>7. CASE \E c \in Calls : \E status \in {"SETTLED", "UNKNOWN"} : Settle(c, status)
  BY <1>7, BudgetInv
<1>8. CASE DeadlinePasses \/ \E n \in Attempts : LeaseLapse(n)
  <2>1. 1 \in Attempts
    BY MaxAttemptsAssumption DEF Attempts
  <2> QED
    BY <1>8, <2>1, LeaseInv
<1>9. CASE TimeRunsOut
  BY <1>9, TimeRunsOutInv
<1> QED
  BY <1>1, <1>2, <1>3, <1>4, <1>5, <1>6, <1>7, <1>8, <1>9 DEF Next

-----------------------------------------------------------------------------
(* Theorems *)

(* IndInv holds of every reachable state, whatever requests are in flight. *)
THEOREM Invariance == Spec => []IndInv
BY InitInv, NextInv, PTL DEF Spec

(* Every row keeps its type: no attempt beyond maxAttempts is commanded. *)
THEOREM TypeCorrect == Spec => []TypeOK
<1>1. IndInv => TypeOK
  BY DEF IndInv
<1> QED
  BY <1>1, Invariance, PTL

(* At most one attempt of a run is RUNNING, it is the latest, and it is    *)
(* exactly while the run is.                                               *)
THEOREM SingleOwner == Spec => []OneOwner
<1>1. IndInv => OneOwner
  BY DEF IndInv, RowInv
<1> QED
  BY <1>1, Invariance, PTL

(* Task, phase and approval always agree with the run's status. *)
THEOREM StatusesAgree == Spec => []StatusAgreement
<1>1. IndInv => StatusAgreement
  BY DEF IndInv, RowInv
<1> QED
  BY <1>1, Invariance, PTL

(* No attempt is commanded twice, and only the next one can be claimed. *)
THEOREM CommandsInOrder == Spec => []OutboxInOrder
<1>1. IndInv => OutboxInOrder
  BY DEF IndInv, RowInv
<1> QED
  BY <1>1, Invariance, PTL

(* A snapshot run waits for a worker only while it is funded. *)
THEOREM WaitingIsFunded == Spec => []DispatchFunded
<1>1. IndInv => DispatchFunded
  BY DEF IndInv, RowInv
<1> QED
  BY <1>1, Invariance, PTL

(* The active time of an attempt of a snapshot run is charged once. *)
THEOREM TimeChargedOnce == Spec => []ChargedOnce
<1>1. IndInv => ChargedOnce
  BY DEF IndInv, RowInv
<1> QED
  BY <1>1, Invariance, PTL

(* What is up for approval is the patch of the attempt that succeeded. *)
THEOREM ApprovalsBacked == Spec => []ApprovalBacked
<1>1. IndInv => ApprovalBacked
  BY DEF IndInv, RowInv
<1> QED
  BY <1>1, Invariance, PTL

=============================================================================
