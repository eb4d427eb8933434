------------------------------ MODULE Delivery ------------------------------
(***************************************************************************)
(* What happens to a verified patch: the decision on its approval and, for *)
(* a pull-request task, the delivery job, which the control-plane          *)
(* processes claim under a lease and carry out on GitHub                   *)
(* (ApprovalService, DeliveryService; GitHub is external).  RunLifecycle   *)
(* ends where this module starts, with a PENDING Approval row.             *)
(*                                                                         *)
(* The approved patch cannot change any more (RunLifecycle's EndIsFinal    *)
(* and ApprovalBacked), so the digest comparisons are left out.  The       *)
(* commit is a function of patch and run (fixed author, dates, message),   *)
(* so every process pushes the same one: the branch is absent, "ours", or  *)
(* "foreign" once someone else pushed to it.                               *)
(***************************************************************************)
EXTENDS Naturals, FiniteSets

CONSTANTS
    Processes,      \* control-plane processes, each with its delivery timer
    Reviewers,      \* concurrent decide and retry requests
    Kinds,          \* kinds of task considered, a subset of AllKinds
    MaxTries,       \* 5 in the code: how often a job may be claimed
    MaxPrs,         \* bound on the pull requests created for the job
    MaxFaults       \* bound on crashes, lost answers and missed renewals

AllKinds == {"patch", "pull-request", "fixture", "fixture-github"}

ASSUME DeliveryAssumption ==
    /\ Kinds \subseteq AllKinds
    /\ MaxTries \in Nat \ {0} /\ MaxPrs \in Nat \ {0} /\ MaxFaults \in Nat
    /\ IsFiniteSet(Processes)

VARIABLES
    kind,           \* snapshot.delivery.kind, or a fixture task (without a
                    \* snapshot) with GITHUB_ENABLED off or on
    approval,       \* Approval.status
    task,           \* Task.status
    job,            \* DeliveryJob: status, attempts, leaseToken, lease alive
    deliverer,      \* where tick is in each process
    decision,       \* requests about a fixture task's approval
    branch,         \* GitHub: the repair branch
    target,         \* GitHub: the target branch is where it was verified
    open,           \* GitHub: whose pull request is open for the branch
    other,          \* GitHub: a pull request without the job's marker exists
    prs,            \* GitHub: pull requests with the job's marker, open or not
    faults

db == <<approval, task, job>>
github == <<branch, target, open, other, prs>>
vars == <<kind, db, deliverer, decision, github, faults>>

NoJob == [status |-> "NONE", tries |-> 0, token |-> 0, live |-> FALSE]
Resting == [pc |-> "idle", token |-> 0, ref |-> "none", seen |-> 0]
Delivering == {"search", "prepare", "check", "push", "recheck", "post"}

(* TypeOK: rows, processes and GitHub keep their types. *)
TypeOK ==
    /\ kind \in Kinds
    /\ approval \in {"PENDING", "APPROVED", "REJECTED"}
    /\ task \in {"AWAITING_APPROVAL", "REJECTED", "RESOLVED", "APPROVED", "PR_CREATED", "PR_FAILED"}
    /\ job \in [status : {"NONE", "QUEUED", "RUNNING", "SUCCEEDED", "FAILED", "NEEDS_ATTENTION"},
                tries : Nat, token : Nat, live : BOOLEAN]
    /\ deliverer \in [Processes ->
          [pc : {"idle", "QUEUED", "RUNNING", "succeeded", "failed", "conflict"} \union Delivering,
           token : Nat, ref : {"none", "ours"}, seen : 0..MaxPrs]]
    /\ decision \in [Reviewers -> {"idle", "APPROVED", "REJECTED", "retry", "create"}]
    /\ branch \in {"none", "ours", "foreign"}
    /\ target \in {"expected", "moved"}
    /\ open \in {"none", "ours", "other"}
    /\ other \in BOOLEAN /\ prs \in 0..MaxPrs
    /\ faults \in 0..MaxFaults

Init ==
    /\ kind \in Kinds
    /\ approval = "PENDING" /\ task = "AWAITING_APPROVAL" /\ job = NoJob
    /\ deliverer = [p \in Processes |-> Resting]
    /\ decision = [r \in Reviewers |-> "idle"]
    /\ branch = "none" /\ target = "expected" /\ open = "none" /\ other = FALSE /\ prs = 0
    /\ faults = 0

Fault == faults < MaxFaults /\ faults' = faults + 1
NoFault == UNCHANGED faults
Snapshot == kind \in {"patch", "pull-request"}

-----------------------------------------------------------------------------
(* Decisions on a snapshot task; each is one transaction on the locked row. *)

reject ==
    /\ Snapshot /\ approval = "PENDING"
    /\ approval' = "REJECTED" /\ task' = "REJECTED"
    /\ NoFault /\ UNCHANGED <<kind, job, deliverer, decision, github>>

approve ==
    /\ Snapshot /\ approval = "PENDING"
    /\ approval' = "APPROVED"
    /\ IF kind = "patch"
       THEN task' = "RESOLVED" /\ job' = job
       ELSE task' = "APPROVED" /\ job' = [NoJob EXCEPT !.status = "QUEUED"]
    /\ NoFault /\ UNCHANGED <<kind, deliverer, decision, github>>

(* retry's update repeats the conditions of its earlier read. *)
retry ==
    /\ job.status = "FAILED" /\ job.tries < MaxTries
    /\ job' = [job EXCEPT !.status = "QUEUED"]
    /\ task' = "APPROVED"
    /\ NoFault /\ UNCHANGED <<kind, approval, deliverer, decision, github>>

-----------------------------------------------------------------------------
(* Decisions on a fixture task: what decide and retryPr read is not read   *)
(* again when they write.                                                  *)

FixtureVars == <<kind, job, deliverer, github>>

DecideLoad(r) ==
    /\ ~Snapshot /\ decision[r] = "idle"
    /\ approval = "PENDING" /\ task = "AWAITING_APPROVAL"
    /\ \E d \in {"APPROVED", "REJECTED"} : decision' = [decision EXCEPT ![r] = d]
    /\ NoFault /\ UNCHANGED <<FixtureVars, approval, task>>

DecideCommit(r) ==
    /\ decision[r] \in {"APPROVED", "REJECTED"}
    /\ approval' = decision[r] /\ task' = decision[r]
    /\ decision' = [decision EXCEPT ![r] = IF @ = "APPROVED" THEN "create" ELSE "idle"]
    /\ NoFault /\ UNCHANGED FixtureVars

RetryPrLoad(r) ==
    /\ ~Snapshot /\ decision[r] = "idle" /\ task = "PR_FAILED"
    /\ decision' = [decision EXCEPT ![r] = "retry"]
    /\ NoFault /\ UNCHANGED <<FixtureVars, approval, task>>

RetryPrCommit(r) ==
    /\ decision[r] = "retry"
    /\ task' = "APPROVED"
    /\ decision' = [decision EXCEPT ![r] = "create"]
    /\ NoFault /\ UNCHANGED <<FixtureVars, approval>>

(* createFixPr makes up a pull request while GITHUB_ENABLED is off and     *)
(* throws when it is on.                                                   *)
createPr(r) ==
    /\ decision[r] = "create"
    /\ task' = IF kind = "fixture" THEN "PR_CREATED" ELSE "PR_FAILED"
    /\ decision' = [decision EXCEPT ![r] = "idle"]
    /\ NoFault /\ UNCHANGED <<FixtureVars, approval>>

-----------------------------------------------------------------------------
(* tick: give up a job whose tries are used up, else look for one to claim. *)

GiveUpUnchecked ==
    /\ \E p \in Processes : deliverer[p].pc = "idle"
    /\ job.tries >= MaxTries /\ ~job.live
    /\ job' = IF job.status = "RUNNING" THEN [job EXCEPT !.status = "FAILED"] ELSE job
    /\ task' = "PR_FAILED"
    /\ NoFault /\ UNCHANGED <<kind, approval, deliverer, decision, github>>
GiveUpNever == FALSE /\ UNCHANGED vars
GiveUp ==
    /\ \E p \in Processes : deliverer[p].pc = "idle"
    /\ job.status = "RUNNING" /\ job.tries >= MaxTries /\ ~job.live
    /\ job' = [job EXCEPT !.status = "FAILED"]
    /\ task' = "PR_FAILED"
    /\ NoFault /\ UNCHANGED <<kind, approval, deliverer, decision, github>>

FindCandidateToTheLimit(p) ==
    /\ deliverer[p].pc = "idle" /\ job.tries <= MaxTries
    /\ job.status = "QUEUED" \/ (job.status = "RUNNING" /\ ~job.live)
    /\ deliverer' = [deliverer EXCEPT ![p].pc = job.status]
    /\ NoFault /\ UNCHANGED <<kind, db, decision, github>>
FindCandidateAnyStatus(p) ==
    /\ deliverer[p].pc = "idle" /\ job.status # "NONE" /\ job.tries < MaxTries
    /\ deliverer' = [deliverer EXCEPT ![p].pc = job.status]
    /\ NoFault /\ UNCHANGED <<kind, db, decision, github>>
FindCandidate(p) ==
    /\ deliverer[p].pc = "idle" /\ job.tries < MaxTries
    /\ job.status = "QUEUED" \/ (job.status = "RUNNING" /\ ~job.live)
    /\ deliverer' = [deliverer EXCEPT ![p].pc = job.status]
    /\ NoFault /\ UNCHANGED <<kind, db, decision, github>>

(* The row must still be as the candidate was; its attempts are not        *)
(* compared again.  The new token is the number of the claim.              *)
Claimable(p) == job.status = deliverer[p].pc /\ (job.status = "RUNNING" => ~job.live)

Claim(p) ==
    /\ deliverer[p].pc \in {"QUEUED", "RUNNING"} /\ Claimable(p)
    /\ job' = [status |-> "RUNNING", tries |-> job.tries + 1, token |-> job.tries + 1, live |-> TRUE]
    /\ deliverer' = [deliverer EXCEPT ![p] =
          [pc |-> "search", token |-> job.tries + 1, ref |-> "none", seen |-> prs]]
    /\ NoFault /\ UNCHANGED <<kind, approval, task, decision, github>>

ClaimMissed(p) ==
    /\ deliverer[p].pc \in {"QUEUED", "RUNNING"} /\ ~Claimable(p)
    /\ deliverer' = [deliverer EXCEPT ![p] = Resting]
    /\ NoFault /\ UNCHANGED <<kind, db, decision, github>>

(* The lease: renewed by a timer while deliver runs, even when it has      *)
(* already lapsed; without the holder it lapses, with it only by a fault.  *)
Holder(p) ==
    deliverer[p].pc \in Delivering /\ job.status = "RUNNING" /\ job.token = deliverer[p].token

Renew(p) ==
    /\ Holder(p) /\ ~job.live
    /\ job' = [job EXCEPT !.live = TRUE]
    /\ NoFault /\ UNCHANGED <<kind, approval, task, deliverer, decision, github>>

LeaseLapses ==
    /\ job.status = "RUNNING" /\ job.live
    /\ job' = [job EXCEPT !.live = FALSE]
    /\ IF \E p \in Processes : Holder(p) THEN Fault ELSE NoFault
    /\ UNCHANGED <<kind, approval, task, deliverer, decision, github>>

-----------------------------------------------------------------------------
(* deliver: one step per read or write that others can see. *)

Goto(p, pc) == deliverer' = [deliverer EXCEPT ![p].pc = pc]
assertLease(p) == job.token = deliverer[p].token /\ job.status = "RUNNING" /\ job.live
TargetAsVerified == target = "expected"

(* All pull requests of the branch, closed ones included. *)
SearchOpenOnly(p) ==
    /\ deliverer[p].pc = "search"
    /\ Goto(p, IF open = "ours" THEN "succeeded" ELSE IF open = "other" THEN "conflict" ELSE "prepare")
    /\ NoFault /\ UNCHANGED <<kind, db, decision, github>>
Search(p) ==
    /\ deliverer[p].pc = "search"
    /\ Goto(p, IF prs > 0 THEN "succeeded" ELSE IF other THEN "conflict" ELSE "prepare")
    /\ NoFault /\ UNCHANGED <<kind, db, decision, github>>

(* First comparison of the target, the commit, and the branch as it is.    *)
Prepare(p) ==
    /\ deliverer[p].pc = "prepare"
    /\ IF TargetAsVerified /\ branch # "foreign"
       THEN deliverer' = [deliverer EXCEPT ![p].pc = "check", ![p].ref = branch]
       ELSE Goto(p, "conflict")
    /\ NoFault /\ UNCHANGED <<kind, db, decision, github>>

CheckBeforePush(p) ==
    /\ deliverer[p].pc = "check"
    /\ Goto(p, IF TargetAsVerified /\ assertLease(p) THEN "push" ELSE "conflict")
    /\ NoFault /\ UNCHANGED <<kind, db, decision, github>>

(* A branch that was there is not pushed to; otherwise the push is refused *)
(* if the branch has appeared with another commit.                         *)
PushForced(p) ==
    /\ deliverer[p].pc = "push"
    /\ Goto(p, "recheck")
    /\ branch' = IF deliverer[p].ref = "none" THEN "ours" ELSE branch
    /\ NoFault /\ UNCHANGED <<kind, db, decision, target, open, other, prs>>
Push(p) ==
    /\ deliverer[p].pc = "push"
    /\ IF deliverer[p].ref = "none" /\ branch = "foreign"
       THEN Goto(p, "failed") /\ branch' = branch
       ELSE /\ Goto(p, "recheck")
            /\ branch' = IF deliverer[p].ref = "none" THEN "ours" ELSE branch
    /\ NoFault /\ UNCHANGED <<kind, db, decision, target, open, other, prs>>

CheckBeforePr(p) ==
    /\ deliverer[p].pc = "recheck"
    /\ Goto(p, IF TargetAsVerified /\ assertLease(p) THEN "post" ELSE "conflict")
    /\ NoFault /\ UNCHANGED <<kind, db, decision, github>>

(* GitHub accepts a pull request if none is open for the branch. *)
PostPr(p) ==
    /\ deliverer[p].pc = "post" /\ open = "none" /\ prs < MaxPrs
    /\ open' = "ours" /\ prs' = prs + 1
    /\ \/ Goto(p, "succeeded") /\ NoFault
       \/ Goto(p, "failed") /\ Fault               \* the answer is lost
    /\ UNCHANGED <<kind, db, decision, branch, target, other>>

PostRefused(p) ==
    /\ deliverer[p].pc = "post" /\ open # "none"
    /\ Goto(p, "failed")
    /\ NoFault /\ UNCHANGED <<kind, db, decision, github>>

(* An API or git call fails on the way. *)
CallFails(p) ==
    /\ deliverer[p].pc \in Delivering \ {"check", "recheck"}
    /\ Goto(p, "failed")
    /\ Fault /\ UNCHANGED <<kind, db, decision, github>>

(* tick records the outcome if the job is still this claim's. *)
StillMineUnchecked(p) == TRUE
StillMine(p) == job.token = deliverer[p].token /\ job.status = "RUNNING"

Outcome(p, status, taskStatus) ==
    /\ IF StillMine(p)
       THEN job' = [job EXCEPT !.status = status] /\ task' = taskStatus
       ELSE UNCHANGED <<job, task>>
    /\ deliverer' = [deliverer EXCEPT ![p] = Resting]
    /\ NoFault /\ UNCHANGED <<kind, approval, decision, github>>

RecordSuccess(p) == deliverer[p].pc = "succeeded" /\ Outcome(p, "SUCCEEDED", "PR_CREATED")
RecordFailure(p) == deliverer[p].pc = "failed" /\ Outcome(p, "FAILED", "PR_FAILED")
RecordConflict(p) == deliverer[p].pc = "conflict" /\ Outcome(p, "NEEDS_ATTENTION", "PR_FAILED")

(* The process stops, or the transaction that records the outcome fails.   *)
Crash(p) ==
    /\ deliverer[p].pc # "idle"
    /\ deliverer' = [deliverer EXCEPT ![p] = Resting]
    /\ Fault /\ UNCHANGED <<kind, db, decision, github>>

-----------------------------------------------------------------------------
(* Other people on GitHub. *)

Others == <<kind, db, deliverer, decision>>

TargetMoves ==
    /\ target' = "moved" /\ target # "moved"
    /\ NoFault /\ UNCHANGED <<Others, branch, open, other, prs>>

ForeignPush ==
    /\ Snapshot /\ branch # "foreign" /\ branch' = "foreign"
    /\ NoFault /\ UNCHANGED <<Others, target, open, other, prs>>

OtherPr ==
    /\ branch # "none" /\ open = "none" /\ open' = "other" /\ other' = TRUE
    /\ NoFault /\ UNCHANGED <<Others, branch, target, prs>>

PrCloses ==
    /\ open # "none" /\ open' = "none"
    /\ NoFault /\ UNCHANGED <<Others, branch, target, other, prs>>

-----------------------------------------------------------------------------
deliver(p) ==
    \/ Search(p) \/ Prepare(p) \/ CheckBeforePush(p) \/ Push(p)
    \/ CheckBeforePr(p) \/ PostPr(p) \/ PostRefused(p)

tick(p) ==
    \/ FindCandidate(p) \/ Claim(p) \/ ClaimMissed(p) \/ deliver(p)
    \/ RecordSuccess(p) \/ RecordFailure(p) \/ RecordConflict(p)

Request(r) ==
    \/ DecideLoad(r) \/ DecideCommit(r) \/ RetryPrLoad(r) \/ RetryPrCommit(r) \/ createPr(r)

Next ==
    \/ reject \/ approve \/ retry \/ GiveUp \/ LeaseLapses
    \/ \E r \in Reviewers : Request(r)
    \/ \E p \in Processes : tick(p) \/ Renew(p) \/ CallFails(p) \/ Crash(p)
    \/ TargetMoves \/ ForeignPush \/ OtherPr \/ PrCloses

Spec == Init /\ [][Next]_vars

(* The delivery timer fires in every process, calls time out, and a lease  *)
(* nobody renews lapses.                                                   *)
Fairness ==
    /\ WF_vars(GiveUp)
    /\ WF_vars(LeaseLapses /\ NoFault)
    /\ \A p \in Processes : WF_vars(tick(p)) /\ WF_vars(Renew(p))

FairSpec == Spec /\ Fairness

-----------------------------------------------------------------------------
(* RowsAgree: job, task and approval change together in every transaction: *)
(* a late, stale or repeated tick never leaves a task in a state its job   *)
(* is not in, and only an approved patch has a job.                        *)
RowsAgree ==
    /\ job.status \in {"QUEUED", "RUNNING"} => task = "APPROVED"
    /\ job.status = "SUCCEEDED" => task = "PR_CREATED" /\ prs > 0
    /\ job.status \in {"FAILED", "NEEDS_ATTENTION"} => task = "PR_FAILED"
    /\ job.status # "NONE" => approval = "APPROVED" /\ kind = "pull-request"
    /\ branch = "ours" \/ prs > 0 => job.status # "NONE"

(* TriesBounded: the limit on attempts holds up to the processes that read *)
(* the row before another one used the last try.                           *)
TriesBounded == job.tries <= MaxTries + Cardinality(Processes) - 1

(* OutcomeIsFinal: no process that lost its lease overwrites a recorded    *)
(* delivery, or a conflict a person has to look at.                        *)
OutcomeIsFinal ==
    [][job.status \in {"SUCCEEDED", "NEEDS_ATTENTION"} => UNCHANGED <<job, task>>]_vars

(* NoPrAfterPr: a claim made after a pull request of this delivery was     *)
(* created, open or closed, known or lost in transit, creates no other.    *)
NoPrAfterPr ==
    [][\A p \in Processes : prs' > prs /\ deliverer[p].pc = "post" /\ deliverer'[p].pc # "post"
          => deliverer[p].seen = 0]_vars

(* ForeignCommitsKept: what somebody pushed to the branch stays.           *)
ForeignCommitsKept == [][branch = "foreign" => branch' = "foreign"]_vars

(* JobSettles: a queued or running job comes to an outcome, whichever      *)
(* process crashes or loses its lease on the way.                          *)
JobSettles ==
    job.status \in {"QUEUED", "RUNNING"}
        ~> job.status \in {"SUCCEEDED", "FAILED", "NEEDS_ATTENTION"}

(* DecidedOnce: "cannot be decided again", says decide of an approval that *)
(* was APPROVED or REJECTED.                                               *)
DecidedOnce == [][approval # "PENDING" => approval' = approval]_vars
=============================================================================
