------------------------- MODULE RunLifecycleSteps --------------------------
(***************************************************************************)
(* What a step of RunLifecycle may do, and that RunLifecycle implements    *)
(* RunContract, for every value of the constants.                          *)
(*                                                                         *)
(* The invariant of RunLifecycleProofs says which stale reads are still    *)
(* true when they are used.  With it every step has one of six shapes      *)
(* (StepShape); the action properties and the refinement are read off      *)
(* the shapes.                                                             *)
(***************************************************************************)
EXTENDS RunLifecycleProofs, WellFoundedInduction

(* No status changes; results and reservations only while an attempt runs. *)
Quiet ==
    /\ UNCHANGED <<run, task, reason, hops, att, outbox, patch, approval>>
    /\ UNCHANGED <<activeStartedAt, charges>>
    /\ checkpoint' = checkpoint \/ \E n \in Attempts : att[n] = "RUNNING" /\ checkpoint' = n
    /\ phase' = phase \/ run = "RUNNING"
    /\ run = "RUNNING" \/ \A c \in Calls : calls[c] = "NONE" => calls'[c] = "NONE"

Created ==
    /\ run = "ABSENT" /\ run' = "DISPATCHED"
    /\ UNCHANGED <<att, reason, checkpoint>>

Claimed(n) ==
    /\ run = "DISPATCHED" /\ run' = "RUNNING"
    /\ IsLatest(n - 1)
    /\ att' = [att EXCEPT ![n] = "RUNNING"]
    /\ hops' = <<<<"DISPATCHED", "RUNNING">>>>
    /\ UNCHANGED <<reason, checkpoint>>

(* The statuses a run passes through when its attempt ends. *)
EndHops(to) ==
    CASE to = "SUCCEEDED" -> <<<<"RUNNING", "VERIFYING">>, <<"VERIFYING", "SUCCEEDED">>>>
      [] to = "INTERRUPTED" -> <<<<"RUNNING", "INTERRUPTED">>>>
      [] to = "FAILED" -> <<<<"RUNNING", "INTERRUPTED">>, <<"INTERRUPTED", "FAILED">>>>
      [] OTHER -> <<<<"RUNNING", "INTERRUPTED">>, <<"INTERRUPTED", "RECOVERING">>,
                    <<"RECOVERING", "DISPATCHED">>>>

AttemptEnded(n) ==
    /\ run = "RUNNING" /\ att[n] = "RUNNING"
    /\ run' \in {"SUCCEEDED", "INTERRUPTED", "FAILED", "DISPATCHED"}
    /\ run' = "DISPATCHED" => n < MaxAttempts
    /\ \E e \in {"SUCCEEDED", "FAILED", "LEASE_EXPIRED"} : att' = [att EXCEPT ![n] = e]
    /\ hops' = EndHops(run')
    /\ UNCHANGED checkpoint

Cancelled ==
    /\ run \in {"DISPATCHED", "RUNNING", "INTERRUPTED"} /\ run' = "CANCELLED"
    /\ att' = [n \in Attempts |-> IF att[n] = "RUNNING" THEN "FAILED" ELSE att[n]]
    /\ hops' = <<<<run, "CANCELLED">>>>
    /\ UNCHANGED <<reason, outbox, checkpoint>>

Resumed(n) ==
    /\ run = "INTERRUPTED" /\ run' = "DISPATCHED"
    /\ IsLatest(n) /\ n < MaxAttempts
    /\ reason \notin BlockingReasons
    /\ hops' = <<<<"INTERRUPTED", "DISPATCHED">>>>
    /\ UNCHANGED <<att, checkpoint>>

Shape ==
    \/ Quiet \/ Created \/ Cancelled
    \/ \E n \in Attempts : Claimed(n) \/ AttemptEnded(n)
    \/ \E n \in 0..MaxAttempts : Resumed(n)

-----------------------------------------------------------------------------
(* The steps that change a status *)

(* One more entry after the first one of a timeline. *)
LEMMA TwoHops == ASSUME NEW a, NEW b PROVE Append(<<a>>, b) = <<a, b>>
<1> DEFINE S == {a, b}
<1>1. <<a>> \in Seq(S) /\ <<a, b>> \in Seq(S)
  OBVIOUS
<1>2. /\ Append(<<a>>, b) \in Seq(S) /\ Len(Append(<<a>>, b)) = 2
      /\ \A i \in 1..2 : Append(<<a>>, b)[i] = <<a, b>>[i]
  BY <1>1
<1> QED
  BY <1>1, <1>2, SeqEqual

(* Likewise for two more entries. *)
LEMMA ThreeHops == ASSUME NEW a, NEW b, NEW c PROVE <<a>> \o <<b, c>> = <<a, b, c>>
<1> DEFINE S == {a, b, c}
<1>1. <<a>> \in Seq(S) /\ <<b, c>> \in Seq(S) /\ <<a, b, c>> \in Seq(S)
  OBVIOUS
<1>2. /\ <<a>> \o <<b, c>> \in Seq(S) /\ Len(<<a>> \o <<b, c>>) = 3
      /\ \A i \in 1..3 : (<<a>> \o <<b, c>>)[i] = <<a, b, c>>[i]
  BY <1>1
<1> QED
  BY <1>1, <1>2, SeqEqual

(* The policy, asked for the attempt that runs, parks the run, retries     *)
(* below the attempt limit or fails the run, and records every status.     *)
LEMMA PolicyShape ==
    ASSUME IndInv, NEW n \in Attempts, NEW code \in FailureCode, att[n] = "RUNNING",
           NEW e \in {"SUCCEEDED", "FAILED", "LEASE_EXPIRED"}, att' = [att EXCEPT ![n] = e],
           NEW clock \in 0..MaxAttempts, NEW charged,
           applyPolicy(n, code, "INTERRUPTED", <<<<"RUNNING", "INTERRUPTED">>>>, clock, charged),
           UNCHANGED checkpoint
    PROVE  AttemptEnded(n)
<1> DEFINE log == <<<<"RUNNING", "INTERRUPTED">>>>
<1>1. TypeOK
  BY DEF IndInv
<1>2. run = "RUNNING"
  BY DEF IndInv, RowInv, OneOwner
<1>3. PolicyParks(log) \/ PolicyRetries(n, log) \/ PolicyAborts(log)
  BY <1>1, PolicyEffect
<1>4. CASE PolicyParks(log)
  BY <1>2, <1>4 DEF PolicyParks, AttemptEnded, EndHops
<1>5. CASE PolicyRetries(n, log)
  <2>1. /\ run' = "DISPATCHED" /\ n < MaxAttempts
        /\ hops' = log \o <<<<"INTERRUPTED", "RECOVERING">>, <<"RECOVERING", "DISPATCHED">>>>
    BY <1>5 DEF PolicyRetries
  <2>2. hops' = EndHops("DISPATCHED")
    <3>1. EndHops("DISPATCHED") = <<<<"RUNNING", "INTERRUPTED">>, <<"INTERRUPTED", "RECOVERING">>,
                                    <<"RECOVERING", "DISPATCHED">>>>
      BY DEF EndHops
    <3> QED
      BY <2>1, <3>1, ThreeHops, Zenon
  <2> QED
    BY <1>2, <2>1, <2>2 DEF AttemptEnded
<1>6. CASE PolicyAborts(log)
  <2>1. run' = "FAILED" /\ hops' = Append(log, <<"INTERRUPTED", "FAILED">>)
    BY <1>6 DEF PolicyAborts
  <2>2. hops' = EndHops("FAILED")
    <3>1. EndHops("FAILED") = <<<<"RUNNING", "INTERRUPTED">>, <<"INTERRUPTED", "FAILED">>>>
      BY DEF EndHops
    <3> QED
      BY <2>1, <3>1, TwoHops, Zenon
  <2> QED
    BY <1>2, <2>1, <2>2 DEF AttemptEnded
<1> QED
  BY <1>3, <1>4, <1>5, <1>6

(* A completion, and a lapsed lease, end the attempt that runs: what they  *)
(* read of the run before their transaction is still so.                   *)
LEMMA EndShape ==
    ASSUME IndInv, NEW n \in Attempts,
           \/ CompleteSucceeded(n) \/ handleLeaseExpired(n)
           \/ \E code \in Codes : CompleteFailed(n, code)
    PROVE  AttemptEnded(n)
<1>1. CASE CompleteSucceeded(n)
  BY <1>1 DEF CompleteSucceeded, MaySucceed, AttemptEnded, EndHops
<1>2. CASE handleLeaseExpired(n)
  <2>1. att[n] = "RUNNING"
    BY <1>2 DEF handleLeaseExpired, LeaseLost, IndInv, RowInv, Reached
  <2>2. mon.run = "RUNNING"
    BY <1>2, <2>1 DEF handleLeaseExpired, IndInv, RequestsTracked
  <2>3. applyPolicy(n, "WORKER_LOST", "INTERRUPTED", <<<<"RUNNING", "INTERRUPTED">>>>,
                    activeStartedAt, charges)
    BY <1>2, <2>2 DEF handleLeaseExpired, Interrupted, InterruptLog, StaleLive
  <2>4. activeStartedAt \in 0..MaxAttempts
    BY DEF IndInv, TypeOK, AttemptTypeOK
  <2>5. att' = [att EXCEPT ![n] = "LEASE_EXPIRED"] /\ UNCHANGED checkpoint
    BY <1>2 DEF handleLeaseExpired
  <2> QED
    BY <2>1, <2>3, <2>4, <2>5, WorkerLostIsCode, PolicyShape
<1>3. ASSUME NEW code \in Codes, CompleteFailed(n, code)
      PROVE  AttemptEnded(n)
  <2>1. att[n] = "RUNNING" /\ req[n].run = "RUNNING"
    BY <1>3 DEF CompleteFailed, IndInv, RequestsTracked
  <2>2. applyPolicy(n, code, "INTERRUPTED", <<<<"RUNNING", "INTERRUPTED">>>>,
                    ExtrasClock, ExtrasCharges(n))
    BY <1>3, <2>1 DEF CompleteFailed, Interrupted, InterruptLog, StaleLive
  <2>3. ExtrasClock \in 0..MaxAttempts
    BY MaxAttemptsAssumption DEF IndInv, TypeOK, AttemptTypeOK, ExtrasClock
  <2>4. att' = [att EXCEPT ![n] = "FAILED"] /\ UNCHANGED checkpoint
    BY <1>3 DEF CompleteFailed
  <2>5. code \in FailureCode
    BY CodesAssumption
  <2> QED
    BY <2>1, <2>2, <2>3, <2>4, <2>5, PolicyShape
<1> QED
  BY <1>1, <1>2, <1>3

(* A pause needs the lease, hence a running attempt. *)
LEMMA PauseShape ==
    ASSUME IndInv, NEW n \in Attempts, NEW why, NEW p, pause(n, why, p)
    PROVE  AttemptEnded(n)
<1>1. att[n] = "RUNNING"
  BY DEF pause, HoldsLease
<1>2. run = "RUNNING"
  BY <1>1 DEF IndInv, RowInv, OneOwner
<1> QED
  BY <1>1, <1>2 DEF pause, AttemptEnded, EndHops

(* A cancelled run had not ended, and none of its attempts is CLAIMED. *)
LEMMA CancelShape ==
    ASSUME IndInv, Cancel
    PROVE  Cancelled
<1>1. run \in {"DISPATCHED", "RUNNING", "INTERRUPTED"}
  BY DEF Cancel, IndInv, RowInv, Reached, Ended
<1>2. \A n \in Attempts : att[n] # "CLAIMED"
  BY DEF IndInv, RowInv, Reached
<1> QED
  BY <1>1, <1>2 DEF Cancel, Cancelled, resultVars

(* A resume is for a number that is not taken yet. *)
LEMMA ResumeShape ==
    ASSUME IndInv, NEW n \in 0..MaxAttempts, Resume(n)
    PROVE  Resumed(n)
<1>1. n < MaxAttempts
  <2>1. PICK m \in Attempts : att[m] = "NONE"
    BY DEF Resume, MayResume
  <2>2. n # 0 => n \in Attempts /\ att[n] # "NONE"
    BY MaxAttemptsAssumption DEF Resume, IsLatest, Attempts
  <2>3. m < n => n = 0
    BY <2>1, <2>2, MaxAttemptsAssumption DEF IndInv, RowInv, OneOwner
  <2> QED
    BY <2>1, <2>2, <2>3, MaxAttemptsAssumption DEF Attempts
<1> QED
  BY <1>1 DEF Resume, MayResume, Resumed

-----------------------------------------------------------------------------
(* Every step *)

(* Requests that only read, leases, budget and the clock. *)
LEMMA QuietSteps ==
    ASSUME IndInv, NEW n \in Attempts,
           \/ UNCHANGED vars
           \/ \E w \in Workers : \E m \in Attempts : ClaimLoad(w, m)
           \/ \E w \in Workers : ClaimRefused(w)
           \/ HeartbeatLease(n) \/ Heartbeat(n) \/ CompleteLease(n) \/ CompleteLoad(n)
           \/ CompleteRefused(n) \/ CheckpointLease(n) \/ saveCheckpoint(n) \/ Phase(n)
           \/ MonitorScan(n) \/ MonitorLoad \/ MonitorSkips
           \/ PauseRunLoad(n) \/ PauseRunRefused
           \/ \E c \in Calls : Reserve(n, c)
           \/ \E c \in Calls : \E status \in {"SETTLED", "UNKNOWN"} : Settle(c, status)
           \/ LeaseLapse(n) \/ TimeRunsOut \/ DeadlinePasses
    PROVE  Quiet
<1>1. CASE UNCHANGED rows
  BY <1>1 DEF rows, runVars, timeVars, budgetVars, resultVars, Quiet
<1>2. CASE Heartbeat(n) \/ LeaseLapse(n) \/ TimeRunsOut \/ DeadlinePasses
  BY <1>2 DEF Heartbeat, LeaseLapse, TimeRunsOut, DeadlinePasses, runVars, timeVars, budgetVars,
              resultVars, Quiet
<1>3. HoldsLease(n) => att[n] = "RUNNING" /\ run = "RUNNING"
  BY DEF HoldsLease, IndInv, RowInv, OneOwner
<1>4. CASE saveCheckpoint(n)
  BY <1>3, <1>4 DEF saveCheckpoint, runVars, timeVars, budgetVars, Quiet
<1>5. CASE Phase(n)
  BY <1>3, <1>5 DEF Phase, timeVars, budgetVars, resultVars, Quiet
<1>6. CASE \E c \in Calls : Reserve(n, c)
  BY <1>3, <1>6 DEF Reserve, runVars, timeVars, resultVars, Quiet
<1>7. ASSUME NEW c \in Calls, NEW status \in {"SETTLED", "UNKNOWN"}, Settle(c, status)
      PROVE  Quiet
  <2>1. calls \in [Calls -> {"NONE", "RESERVED", "UNKNOWN", "SETTLED"}]
    BY DEF IndInv, TypeOK, BudgetTypeOK
  <2>2. \A d \in Calls : calls[d] = "NONE" => calls'[d] = "NONE"
    BY <1>7, <2>1 DEF Settle
  <2> QED
    BY <1>7, <2>2 DEF Settle, runVars, timeVars, resultVars, Quiet
<1> QED
  BY <1>1, <1>2, <1>4, <1>5, <1>6, <1>7
     DEF vars, ClaimLoad, ClaimRefused, HeartbeatLease, CompleteLease, CompleteLoad,
         CompleteRefused, CheckpointLease, MonitorScan, MonitorLoad, MonitorSkips,
         PauseRunLoad, PauseRunRefused

(* Every step from a state of the invariant has one of the shapes. *)
LEMMA StepShape == IndInv /\ [Next]_vars => Shape
<1> SUFFICES ASSUME IndInv, [Next]_vars PROVE Shape
  OBVIOUS
<1>0. 1 \in Attempts
  BY MaxAttemptsAssumption DEF Attempts
<1>1. CASE Confirm \/ \E k \in {"fixture", "experiment"} : CreateTask(k)
  BY <1>1 DEF Confirm, CreateTask, Created, Shape
<1>2. CASE \E w \in Workers : ClaimStep(w)
  <2>1. CASE \E w \in Workers, n \in Attempts : ClaimCommit(w, n)
    BY <2>1 DEF ClaimCommit, Claimed, Shape, resultVars
  <2> QED
    BY <1>0, <1>2, <2>1, QuietSteps DEF ClaimStep, Shape
<1>3. ASSUME NEW n \in Attempts,
             WorkerStep(n) \/ Heartbeat(n) \/ CompleteStep(n) \/ saveCheckpoint(n)
      PROVE  Shape
  <2>1. CASE \E why \in PauseReasons : WorkerPause(n, why)
    BY <2>1, PauseShape DEF WorkerPause, Shape
  <2>2. CASE CompleteSucceeded(n) \/ \E code \in Codes : CompleteFailed(n, code)
    BY <2>2, EndShape DEF Shape
  <2> QED
    BY <1>3, <2>1, <2>2, QuietSteps DEF WorkerStep, CompleteStep, Shape
<1>4. CASE MonitorStep
  BY <1>0, <1>4, EndShape, QuietSteps DEF MonitorStep, Shape
<1>5. CASE UserStep
  <2>1. CASE \E n \in Attempts : PauseRun(n)
    BY <2>1, PauseShape DEF PauseRun, Shape
  <2> QED
    BY <1>0, <1>5, <2>1, CancelShape, ResumeShape, QuietSteps DEF UserStep, Shape
<1>6. CASE \/ \E c \in Calls : \E status \in {"SETTLED", "UNKNOWN"} : Settle(c, status)
           \/ \E n \in Attempts : LeaseLapse(n)
           \/ TimeRunsOut \/ DeadlinePasses \/ UNCHANGED vars
  BY <1>0, <1>6, QuietSteps DEF Shape
<1> QED
  BY <1>1, <1>2, <1>3, <1>4, <1>5, <1>6 DEF Next

-----------------------------------------------------------------------------
(* Action properties *)

(* A run that has ended stays as it ended: late completions, pauses,       *)
(* checkpoints, claims and monitor passes change nothing.                  *)
THEOREM EndsAreFinal == Spec => EndIsFinal
<1> DEFINE Keeps ==
      (run \in Ended) =>
         /\ UNCHANGED <<runVars, att, resultVars, activeStartedAt, charges>>
         /\ \A c \in Calls : calls[c] = "NONE" => calls'[c] = "NONE"
<1>1. IndInv /\ [Next]_vars => Keeps
  <2> SUFFICES ASSUME IndInv, Shape, run \in Ended PROVE Keeps
    BY StepShape
  <2>1. run \notin {"ABSENT", "DISPATCHED", "RUNNING", "INTERRUPTED"}
    BY DEF Ended
  <2>2. Quiet
    BY <2>1 DEF Shape, Created, Cancelled, Claimed, AttemptEnded, Resumed
  <2>3. \A n \in Attempts : att[n] # "RUNNING"
    BY <2>1 DEF IndInv, RowInv, OneOwner
  <2> QED
    BY <2>1, <2>2, <2>3 DEF Quiet, runVars, resultVars
<1> QED
  BY <1>1, Invariance, PTL DEF Spec, EndIsFinal

(* The latest checkpoint never goes back to an older attempt. *)
THEOREM CheckpointsOnlyAdvance == Spec => CheckpointsAdvance
<1>1. IndInv /\ [Next]_vars => checkpoint' >= checkpoint
  <2> SUFFICES ASSUME IndInv, Shape PROVE checkpoint' >= checkpoint
    BY StepShape
  <2>1. MaxAttempts \in Nat /\ checkpoint \in 0..MaxAttempts
    BY MaxAttemptsAssumption DEF IndInv, TypeOK, ResultTypeOK
  <2>2. CASE checkpoint' = checkpoint
    BY <2>1, <2>2
  <2>3. ASSUME NEW n \in Attempts, att[n] = "RUNNING", checkpoint' = n
        PROVE  checkpoint' >= checkpoint
    <3>1. IsLatest(n)
      BY <2>3 DEF IndInv, RowInv, OneOwner
    <3>2. checkpoint # 0 => checkpoint \in Attempts /\ att[checkpoint] # "NONE"
      BY <2>1 DEF IndInv, RowInv, RecordsSound, Attempts
    <3> QED
      BY <2>1, <2>3, <3>1, <3>2 DEF IsLatest, Attempts
  <2> QED
    BY <2>2, <2>3 DEF Shape, Quiet, Created, Cancelled, Claimed, AttemptEnded, Resumed
<1> QED
  BY <1>1, Invariance, PTL DEF Spec, CheckpointsAdvance

(* A run that is blocked by its evidence is never attempted again and      *)
(* keeps the reason, whatever pause or recovery races with it.             *)
THEOREM BlockedRunsStay == Spec => BlockedStaysParked
<1> DEFINE Stays ==
      (reason \in BlockingReasons) =>
         /\ reason' = reason
         /\ run' \in {"INTERRUPTED", "CANCELLED"}
         /\ UNCHANGED <<att, outbox>>
<1>1. IndInv /\ [Next]_vars => Stays
  <2> SUFFICES ASSUME IndInv, Shape, reason \in BlockingReasons PROVE Stays
    BY StepShape
  <2>1. run \in {"INTERRUPTED", "CANCELLED"}
    BY DEF IndInv, RowInv, RecordsSound
  <2>2. Quiet \/ Cancelled
    BY <2>1 DEF Shape, Created, Claimed, AttemptEnded, Resumed
  <2>3. \A n \in Attempts : att[n] # "RUNNING"
    BY <2>1 DEF IndInv, RowInv, OneOwner
  <2>4. att \in [Attempts -> AttemptStatus \union {"NONE"}]
    BY DEF IndInv, TypeOK, AttemptTypeOK
  <2>5. CASE Quiet
    BY <2>1, <2>5 DEF Quiet
  <2>6. CASE Cancelled
    BY <2>3, <2>4, <2>6 DEF Cancelled
  <2> QED
    BY <2>2, <2>5, <2>6
<1> QED
  BY <1>1, Invariance, PTL DEF Spec, BlockedStaysParked

(* log leads from one status to another without a gap, in legal hops or    *)
(* the hop of a manual resume.                                             *)
Leads(log, from, to) ==
    /\ log # <<>>
    /\ log[1][1] = from
    /\ log[Len(log)][2] = to
    /\ \A i \in 1..(Len(log) - 1) : log[i][2] = log[i + 1][1]
    /\ \A i \in DOMAIN log :
          log[i] \in RUN_TRANSITIONS \union {<<"INTERRUPTED", "DISPATCHED">>}

(* A timeline of one hop. *)
LEMMA OneHopLeads ==
    ASSUME NEW from, NEW to,
           <<from, to>> \in RUN_TRANSITIONS \union {<<"INTERRUPTED", "DISPATCHED">>}
    PROVE  Leads(<<<<from, to>>>>, from, to)
BY DEF Leads

(* A timeline of two hops. *)
LEMMA TwoHopsLead ==
    ASSUME NEW from, NEW mid, NEW to,
           <<from, mid>> \in RUN_TRANSITIONS, <<mid, to>> \in RUN_TRANSITIONS
    PROVE  Leads(<<<<from, mid>>, <<mid, to>>>>, from, to)
BY DEF Leads

(* A timeline of three hops. *)
LEMMA ThreeHopsLead ==
    ASSUME NEW from, NEW mid, NEW next, NEW to,
           <<from, mid>> \in RUN_TRANSITIONS, <<mid, next>> \in RUN_TRANSITIONS,
           <<next, to>> \in RUN_TRANSITIONS
    PROVE  Leads(<<<<from, mid>>, <<mid, next>>, <<next, to>>>>, from, to)
BY DEF Leads

(* Every way an attempt ends leaves a timeline without gaps. *)
LEMMA EndHopsLead ==
    ASSUME NEW to \in {"SUCCEEDED", "INTERRUPTED", "FAILED", "DISPATCHED"}
    PROVE  Leads(EndHops(to), "RUNNING", to)
<1>1. /\ <<"RUNNING", "VERIFYING">> \in RUN_TRANSITIONS
      /\ <<"VERIFYING", "SUCCEEDED">> \in RUN_TRANSITIONS
      /\ <<"RUNNING", "INTERRUPTED">> \in RUN_TRANSITIONS
      /\ <<"INTERRUPTED", "FAILED">> \in RUN_TRANSITIONS
      /\ <<"INTERRUPTED", "RECOVERING">> \in RUN_TRANSITIONS
      /\ <<"RECOVERING", "DISPATCHED">> \in RUN_TRANSITIONS
  BY DEF RUN_TRANSITIONS
<1>2. CASE to = "SUCCEEDED"
  <2>1. EndHops(to) = <<<<"RUNNING", "VERIFYING">>, <<"VERIFYING", "SUCCEEDED">>>>
    BY <1>2 DEF EndHops
  <2> QED
    BY <1>1, <1>2, <2>1, TwoHopsLead, Zenon
<1>3. CASE to = "INTERRUPTED"
  <2>1. EndHops(to) = <<<<"RUNNING", "INTERRUPTED">>>>
    BY <1>3 DEF EndHops
  <2> QED
    BY <1>1, <1>3, <2>1, OneHopLeads, Zenon
<1>4. CASE to = "FAILED"
  <2>1. EndHops(to) = <<<<"RUNNING", "INTERRUPTED">>, <<"INTERRUPTED", "FAILED">>>>
    BY <1>4 DEF EndHops
  <2> QED
    BY <1>1, <1>4, <2>1, TwoHopsLead, Zenon
<1>5. CASE to = "DISPATCHED"
  <2>1. EndHops(to) = <<<<"RUNNING", "INTERRUPTED">>, <<"INTERRUPTED", "RECOVERING">>,
                        <<"RECOVERING", "DISPATCHED">>>>
    BY <1>5 DEF EndHops
  <2> QED
    BY <1>1, <1>5, <2>1, ThreeHopsLead, Zenon
<1> QED
  BY <1>2, <1>3, <1>4, <1>5

(* Whenever the status of a run changes, the recorded hops lead from the   *)
(* old status to the new one, although the source was read before the lock. *)
THEOREM TimelinesComplete == Spec => TimelineComplete
<1>1. IndInv /\ [Next]_vars => (run' # run /\ run # "ABSENT" => Leads(hops', run, run'))
  <2> SUFFICES ASSUME IndInv, Shape, run' # run, run # "ABSENT" PROVE Leads(hops', run, run')
    BY StepShape
  <2>1. CASE \E n \in Attempts : Claimed(n)
    <3>1. <<"DISPATCHED", "RUNNING">> \in RUN_TRANSITIONS
      BY DEF RUN_TRANSITIONS
    <3> QED
      BY <2>1, <3>1, OneHopLeads DEF Claimed
  <2>2. CASE \E n \in Attempts : AttemptEnded(n)
    BY <2>2, EndHopsLead DEF AttemptEnded
  <2>3. CASE Cancelled
    <3>1. <<run, "CANCELLED">> \in RUN_TRANSITIONS
      BY <2>3 DEF Cancelled, RUN_TRANSITIONS
    <3> QED
      BY <2>3, <3>1, OneHopLeads DEF Cancelled
  <2>4. CASE \E n \in 0..MaxAttempts : Resumed(n)
    BY <2>4, OneHopLeads DEF Resumed
  <2> QED
    BY <2>1, <2>2, <2>3, <2>4 DEF Shape, Quiet, Created
<1>2. TimelineComplete <=> [][run' # run /\ run # "ABSENT" => Leads(hops', run, run')]_vars
  BY DEF TimelineComplete, Leads
<1> QED
  BY <1>1, <1>2, Invariance, PTL DEF Spec

-----------------------------------------------------------------------------
(* The refinement *)

(* Every run has a latest attempt number: the least one above which there  *)
(* is no attempt.                                                          *)
LEMMA LatestExists ==
    ASSUME TypeOK
    PROVE  \E n \in 0..MaxAttempts : IsLatest(n)
<1> DEFINE T == {n \in 0..MaxAttempts : \A m \in Attempts : m > n => att[m] = "NONE"}
<1>1. MaxAttempts \in Nat /\ MaxAttempts \in T /\ T \subseteq Nat
  BY MaxAttemptsAssumption DEF Attempts
<1>2. PICK n \in T : \A m \in T : <<m, n>> \notin OpToRel(<, Nat)
  <2> HIDE DEF T
  <2> QED
    BY <1>1, WFMin, NatLessThanWellFounded
<1>3. \A m \in T : ~(m < n)
  BY <1>1, <1>2 DEF OpToRel
<1>4. n # 0 => att[n] # "NONE"
  <2> SUFFICES ASSUME n # 0, att[n] = "NONE" PROVE FALSE
    OBVIOUS
  <2>1. n - 1 \in T
    BY <1>1 DEF Attempts
  <2> QED
    BY <1>1, <1>3, <2>1
<1> QED
  BY <1>4 DEF IsLatest

(* Epoch is the latest attempt number, and the only one. *)
EpochSound ==
    /\ Epoch \in 0..MaxAttempts /\ IsLatest(Epoch)
    /\ \A n \in 0..MaxAttempts : IsLatest(n) => Epoch = n

(* A run of the right type has a latest attempt, so Epoch is it. *)
LEMMA EpochIsLatest == TypeOK => EpochSound
<1> SUFFICES ASSUME TypeOK PROVE EpochSound
  OBVIOUS
<1>1. Epoch \in 0..MaxAttempts /\ IsLatest(Epoch)
  BY LatestExists, Zenon DEF Epoch
<1> QED
  BY <1>1, LatestUnique DEF EpochSound

(* The epoch stays when no attempt is added, and is the number of the      *)
(* attempt that is added otherwise.                                        *)
LEMMA EpochSteps ==
    ASSUME EpochSound, EpochSound'
    PROVE  /\ (\A m \in Attempts : att'[m] = "NONE" <=> att[m] = "NONE") => Epoch' = Epoch
           /\ \A n \in Attempts :
                 IsLatest(n - 1) /\ att' = [att EXCEPT ![n] = "RUNNING"]
                 /\ att \in [Attempts -> AttemptStatus \union {"NONE"}]
                 => Epoch = n - 1 /\ Epoch' = n
<1>1. MaxAttempts \in Nat
  BY MaxAttemptsAssumption
<1>2. ASSUME \A m \in Attempts : att'[m] = "NONE" <=> att[m] = "NONE"
      PROVE  Epoch' = Epoch
  <2>1. PICK e \in 0..MaxAttempts : e = Epoch
    BY DEF EpochSound
  <2>2. IsLatest(e)'
    BY <1>1, <1>2, <2>1 DEF EpochSound, IsLatest, Attempts
  <2> QED
    BY <2>1, <2>2 DEF EpochSound
<1>3. ASSUME NEW n \in Attempts, IsLatest(n - 1), att' = [att EXCEPT ![n] = "RUNNING"],
             att \in [Attempts -> AttemptStatus \union {"NONE"}]
      PROVE  Epoch = n - 1 /\ Epoch' = n
  <2>1. n \in 0..MaxAttempts /\ n - 1 \in 0..MaxAttempts
    BY <1>1 DEF Attempts
  <2>2. \A m \in Attempts : m > n => att'[m] = "NONE"
    BY <1>1, <1>3 DEF IsLatest, Attempts
  <2>3. n # 0 /\ att'[n] # "NONE"
    BY <1>1, <1>3 DEF Attempts
  <2>4. IsLatest(n)'
    BY <2>2, <2>3 DEF IsLatest
  <2> QED
    BY <1>3, <2>1, <2>4 DEF EpochSound
<1> QED
  BY <1>2, <1>3

(* Every shape is a step of the contract or leaves mode and epoch alone. *)
LEMMA ShapeRefines ==
    ASSUME IndInv, IndInv', EpochSound, EpochSound', Shape
    PROVE  Contract!Next \/ UNCHANGED <<Mode, Epoch>>
<1>1. MaxAttempts \in Nat /\ Epoch \in 0..MaxAttempts
      /\ att \in [Attempts -> AttemptStatus \union {"NONE"}]
  BY MaxAttemptsAssumption DEF EpochSound, IndInv, TypeOK, AttemptTypeOK
<1>2. CASE Quiet
  BY <1>2, EpochSteps DEF Quiet, Mode
<1>3. CASE Created
  <2>1. Epoch' = Epoch /\ Mode = "absent" /\ Mode' = "waiting"
    BY <1>3, EpochSteps DEF Created, Mode
  <2> QED
    BY <2>1 DEF Contract!Next, Contract!Create
<1>4. CASE Cancelled
  <2>1. Epoch' = Epoch
    BY <1>1, <1>4, EpochSteps DEF Cancelled
  <2>2. Mode \in {"waiting", "working", "parked"} /\ Mode' = "cancelled"
    BY <1>4 DEF Cancelled, Mode
  <2> QED
    BY <2>1, <2>2 DEF Contract!Next, Contract!Cancel
<1>5. ASSUME NEW n \in Attempts, Claimed(n) PROVE Contract!Next
  <2>1. Epoch = n - 1 /\ Epoch' = n
    BY <1>1, <1>5, EpochSteps DEF Claimed
  <2>2. Mode = "waiting" /\ Mode' = "working"
    BY <1>5 DEF Claimed, Mode
  <2>3. Epoch < MaxAttempts /\ Epoch' = Epoch + 1
    BY <1>1, <2>1 DEF Attempts
  <2> QED
    BY <2>2, <2>3 DEF Contract!Next, Contract!Grant
<1>6. ASSUME NEW n \in Attempts, AttemptEnded(n) PROVE Contract!Next
  <2>1. Epoch' = Epoch
    BY <1>1, <1>6, EpochSteps DEF AttemptEnded
  <2>2. Epoch = n
    <3>1. IsLatest(n) /\ n \in 0..MaxAttempts
      BY <1>1, <1>6 DEF AttemptEnded, IndInv, RowInv, OneOwner, Attempts
    <3> QED
      BY <3>1 DEF EpochSound
  <2>3. CASE run' = "DISPATCHED"
    <3>1. Mode = "working" /\ Mode' = "waiting" /\ Epoch < MaxAttempts
      BY <1>6, <2>2, <2>3 DEF AttemptEnded, Mode
    <3> QED
      BY <2>1, <3>1 DEF Contract!Next, Contract!Retry
  <2>4. CASE run' # "DISPATCHED"
    <3>1. Mode = "working" /\ Mode' \in {"parked", "succeeded", "failed"}
      BY <1>6, <2>4 DEF AttemptEnded, Mode
    <3> QED
      BY <2>1, <3>1 DEF Contract!Next, Contract!Finish
  <2> QED
    BY <2>3, <2>4
<1>7. ASSUME NEW n \in 0..MaxAttempts, Resumed(n) PROVE Contract!Next
  <2>1. Epoch' = Epoch /\ Epoch = n
    BY <1>7, EpochSteps DEF Resumed, EpochSound
  <2>2. Mode = "parked" /\ Mode' = "waiting" /\ Epoch < MaxAttempts
    BY <1>7, <2>1 DEF Resumed, Mode
  <2> QED
    BY <2>1, <2>2 DEF Contract!Next, Contract!Retry
<1> QED
  BY <1>2, <1>3, <1>4, <1>5, <1>6, <1>7 DEF Shape

(* The run with all its racing requests implements RunContract: attempts   *)
(* are granted one at a time and in order, only the attempt at work ends   *)
(* the run, and a run that has ended stays so.                             *)
THEOREM Refinement == Spec => ImplementsContract
<1>1. Init => Contract!Init
  <2> SUFFICES ASSUME Init PROVE Contract!Init
    OBVIOUS
  <2>1. TypeOK
    BY InitInv DEF IndInv
  <2>2. EpochSound
    BY <2>1, EpochIsLatest
  <2>3. IsLatest(0) /\ 0 \in 0..MaxAttempts
    BY MaxAttemptsAssumption DEF Init, IsLatest
  <2> QED
    BY <2>2, <2>3 DEF EpochSound, Init, Mode, Contract!Init
<1>2. IndInv => EpochSound
  BY EpochIsLatest DEF IndInv
<1>3. ASSUME IndInv, IndInv', EpochSound, EpochSound', [Next]_vars
      PROVE  [Contract!Next]_(Contract!contractVars)
  BY <1>3, StepShape, ShapeRefines DEF Contract!contractVars
<1> QED
  BY <1>1, <1>2, <1>3, Invariance, PTL DEF Spec, ImplementsContract, Contract!Spec

=============================================================================
