--------------------------- MODULE DeliveryProofs ---------------------------
(***************************************************************************)
(* Proofs about Delivery for every finite set of control-plane processes,  *)
(* set of requests and number of tries, pull requests and faults.          *)
(*                                                                         *)
(* RowsAgree needs that a process with a pull request in hand is right     *)
(* about it (ProcessOK) and that requests about fixture tasks never meet a *)
(* job (DecisionsOK); TriesBounded needs the processes that found the job  *)
(* and have not claimed it yet to be counted with the tries (Counted).     *)
(***************************************************************************)
EXTENDS Delivery, FiniteSetTheorems, TLAPS

Finding == {"QUEUED", "RUNNING"}
AfterSearch == {"prepare", "check", "push", "recheck", "post"}

ProcessState ==
    [pc : {"idle", "QUEUED", "RUNNING", "succeeded", "failed", "conflict"} \union Delivering,
     token : Nat, ref : {"none", "ours"}, seen : 0..MaxPrs]

RowTypes ==
    /\ kind \in Kinds
    /\ approval \in {"PENDING", "APPROVED", "REJECTED"}
    /\ task \in {"AWAITING_APPROVAL", "REJECTED", "RESOLVED", "APPROVED", "PR_CREATED", "PR_FAILED"}
    /\ job \in [status : {"NONE", "QUEUED", "RUNNING", "SUCCEEDED", "FAILED", "NEEDS_ATTENTION"},
                tries : Nat, token : Nat, live : BOOLEAN]

GithubTypes ==
    /\ branch \in {"none", "ours", "foreign"}
    /\ target \in {"expected", "moved"}
    /\ open \in {"none", "ours", "other"}
    /\ other \in BOOLEAN /\ prs \in 0..MaxPrs
    /\ faults \in 0..MaxFaults

(* What a process with record me knows of job and pull requests. *)
ProcessOK(me) ==
    /\ me.pc # "idle" => job.status # "NONE"
    /\ me.pc = "succeeded" => prs > 0
    /\ me.seen <= prs
    /\ me.pc \in AfterSearch => me.seen = 0

(* Only fixture tasks, which have no job, meet decide and retryPr. *)
DecisionsOK ==
    /\ decision \in [Reviewers -> {"idle", "APPROVED", "REJECTED", "retry", "create"}]
    /\ \A r \in Reviewers : decision[r] # "idle" => ~Snapshot

(* Processes that may use a try without looking at the limit again. *)
Finders == {p \in Processes : deliverer[p].pc \in Finding}

Counted == job.tries + Cardinality(Finders) <= MaxTries + Cardinality(Processes) - 1

DeliveryInv ==
    /\ RowTypes /\ GithubTypes /\ deliverer \in [Processes -> ProcessState]
    /\ \A p \in Processes : ProcessOK(deliverer[p])
    /\ DecisionsOK /\ RowsAgree /\ Counted

-----------------------------------------------------------------------------
(* Counting *)

(* The finders are some of the processes. *)
LEMMA FindersFinite ==
    /\ IsFiniteSet(Finders) /\ Cardinality(Finders) \in Nat
    /\ Cardinality(Processes) \in Nat /\ Cardinality(Finders) <= Cardinality(Processes)
<1>1. IsFiniteSet(Processes) /\ Finders \in SUBSET Processes
  BY DeliveryAssumption DEF Finders
<1>2. IsFiniteSet(Finders) /\ Cardinality(Finders) <= Cardinality(Processes)
  BY <1>1, FS_Subset
<1> QED
  BY <1>1, <1>2, FS_CardinalityType

(* A claim turns a finder into a try; the others use no try. *)
LEMMA CountStep ==
    ASSUME DeliveryInv, NEW p \in Processes, NEW s \in ProcessState,
           deliverer' = [deliverer EXCEPT ![p] = s], job'.tries \in Nat,
           \/ job'.tries = job.tries
              /\ (s.pc \in Finding => deliverer[p].pc \in Finding \/ job.tries < MaxTries)
           \/ job'.tries = job.tries + 1 /\ deliverer[p].pc \in Finding /\ s.pc \notin Finding
    PROVE  Counted'
<1>1. deliverer \in [Processes -> ProcessState] /\ job.tries \in Nat /\ Counted
      /\ MaxTries \in Nat
  BY DeliveryAssumption DEF DeliveryInv, RowTypes
<1>2. Finders' \subseteq Finders \union {p}
  BY <1>1 DEF Finders
<1>3. /\ IsFiniteSet(Finders) /\ Cardinality(Finders) \in Nat
      /\ Cardinality(Processes) \in Nat
  BY FindersFinite
<1>4. /\ IsFiniteSet(Finders') /\ Cardinality(Finders') \in Nat
      /\ Cardinality(Finders') <= Cardinality(Processes)
  <2>1. (/\ IsFiniteSet(Finders) /\ Cardinality(Finders) \in Nat
         /\ Cardinality(Processes) \in Nat /\ Cardinality(Finders) <= Cardinality(Processes))'
    BY FindersFinite, PTL
  <2> QED
    BY <2>1
<1>5. CASE job'.tries = job.tries /\ job.tries < MaxTries
  BY <1>1, <1>3, <1>4, <1>5 DEF Counted
<1>6. CASE job'.tries = job.tries /\ (s.pc \in Finding => deliverer[p].pc \in Finding)
  <2>1. Finders' \subseteq Finders
    BY <1>1, <1>6 DEF Finders
  <2>2. Cardinality(Finders') <= Cardinality(Finders)
    BY <1>3, <2>1, FS_Subset
  <2> QED
    BY <1>1, <1>3, <1>4, <1>6, <2>2 DEF Counted
<1>7. CASE job'.tries = job.tries + 1 /\ deliverer[p].pc \in Finding /\ s.pc \notin Finding
  <2>1. Finders' \subseteq Finders \ {p} /\ p \in Finders
    BY <1>1, <1>7 DEF Finders
  <2>2. IsFiniteSet(Finders \ {p}) /\ Cardinality(Finders \ {p}) = Cardinality(Finders) - 1
    BY <1>3, <2>1, FS_RemoveElement
  <2>3. Cardinality(Finders') <= Cardinality(Finders \ {p})
    BY <2>1, <2>2, FS_Subset
  <2> QED
    BY <1>1, <1>3, <1>4, <1>7, <2>2, <2>3 DEF Counted
<1> QED
  BY <1>5, <1>6, <1>7

(* The count stays when no process moves and no try is used. *)
LEMMA CountStays ==
    ASSUME DeliveryInv, UNCHANGED deliverer, RowTypes', job'.tries <= job.tries
    PROVE  Counted'
<1>1. Finders' = Finders
  BY DEF Finders
<1>2. /\ job.tries \in Nat /\ job'.tries \in Nat /\ MaxTries \in Nat
      /\ Cardinality(Finders) \in Nat /\ Cardinality(Processes) \in Nat
  BY FindersFinite, DeliveryAssumption DEF DeliveryInv, RowTypes
<1> QED
  BY <1>1, <1>2 DEF DeliveryInv, Counted

-----------------------------------------------------------------------------
(* Steps in general *)

(* A step of process p that leaves the requests alone. *)
LEMMA ProcessStep ==
    ASSUME DeliveryInv, NEW p \in Processes, NEW s \in ProcessState,
           deliverer' = [deliverer EXCEPT ![p] = s], ProcessOK(s)', Counted',
           RowTypes', GithubTypes', RowsAgree', UNCHANGED <<kind, decision>>,
           job.status # "NONE" => job'.status # "NONE", prs' >= prs
    PROVE  DeliveryInv'
<1>1. deliverer \in [Processes -> ProcessState] /\ deliverer' \in [Processes -> ProcessState]
  BY DEF DeliveryInv
<1>2. ASSUME NEW q \in Processes PROVE ProcessOK(deliverer[q])'
  <2>1. CASE q = p
    BY <1>1, <2>1
  <2>2. CASE q # p
    <3>1. deliverer'[q] = deliverer[q] /\ ProcessOK(deliverer[q])
      BY <1>1, <2>2 DEF DeliveryInv
    <3>2. deliverer[q].seen \in Nat /\ prs \in Nat /\ prs' \in Nat
      BY <1>1, DeliveryAssumption DEF ProcessState, DeliveryInv, GithubTypes
    <3> QED
      BY <3>1, <3>2 DEF ProcessOK
  <2> QED
    BY <2>1, <2>2
<1>3. DecisionsOK'
  BY DEF DeliveryInv, DecisionsOK, Snapshot
<1> QED
  BY <1>1, <1>2, <1>3 DEF DeliveryInv

(* A step of no process. *)
LEMMA OutsideStep ==
    ASSUME DeliveryInv, UNCHANGED <<kind, deliverer>>, DecisionsOK',
           RowTypes', GithubTypes', RowsAgree', job'.tries <= job.tries,
           job.status # "NONE" => job'.status # "NONE", UNCHANGED prs
    PROVE  DeliveryInv'
<1>1. \A q \in Processes : ProcessOK(deliverer[q])'
  BY DEF DeliveryInv, ProcessOK
<1> QED
  BY <1>1, CountStays DEF DeliveryInv

(* Going on to another step changes pc alone. *)
LEMMA Goes ==
    ASSUME DeliveryInv, NEW p \in Processes, NEW pc, Goto(p, pc),
           pc \in {"idle", "QUEUED", "RUNNING", "succeeded", "failed", "conflict"} \union Delivering
    PROVE  \E s \in ProcessState :
              /\ deliverer' = [deliverer EXCEPT ![p] = s]
              /\ s.pc = pc /\ s.seen = deliverer[p].seen
<1> DEFINE s == [deliverer[p] EXCEPT !.pc = pc]
<1>1. deliverer[p] \in ProcessState
  BY DEF DeliveryInv
<1>2. s \in ProcessState /\ s.pc = pc /\ s.seen = deliverer[p].seen
  BY <1>1 DEF ProcessState
<1>3. deliverer' = [deliverer EXCEPT ![p] = s]
  BY <1>1 DEF Goto
<1> HIDE DEF s
<1> QED
  BY <1>2, <1>3, Zenon

(* A fault is counted up to its bound. *)
LEMMA FaultType ==
    ASSUME DeliveryInv, Fault \/ NoFault
    PROVE  faults' \in 0..MaxFaults
BY DeliveryAssumption DEF DeliveryInv, GithubTypes, Fault, NoFault

(* The invariant holds at the start. *)
LEMMA InitInv == Init => DeliveryInv
<1> SUFFICES ASSUME Init PROVE DeliveryInv
  OBVIOUS
<1>1. MaxPrs \in Nat /\ MaxFaults \in Nat /\ MaxTries \in Nat /\ MaxTries >= 1
  BY DeliveryAssumption
<1>2. Resting \in ProcessState /\ Resting.pc = "idle" /\ Resting.seen = 0
  BY <1>1 DEF Resting, ProcessState
<1>3. RowTypes
  BY DEF Init, RowTypes, NoJob
<1>4. GithubTypes /\ deliverer \in [Processes -> ProcessState]
  <2>1. GithubTypes
    <3>1. branch = "none" /\ target = "expected" /\ open = "none" /\ other \in BOOLEAN
      BY DEF Init
    <3>2. prs \in 0..MaxPrs /\ faults \in 0..MaxFaults
      BY <1>1 DEF Init
    <3> QED
      BY <3>1, <3>2 DEF GithubTypes
  <2>2. deliverer \in [Processes -> ProcessState]
    BY <1>2 DEF Init
  <2> QED
    BY <2>1, <2>2
<1>5. \A p \in Processes : deliverer[p] = Resting
  BY DEF Init
<1>6. \A p \in Processes : ProcessOK(deliverer[p])
  BY <1>2, <1>5 DEF ProcessOK, AfterSearch, Init
<1>7. DecisionsOK /\ RowsAgree
  BY DEF Init, DecisionsOK, RowsAgree, NoJob
<1>8. Counted
  <2>1. Finders = {}
    BY <1>2, <1>5 DEF Finders, Finding
  <2>2. Cardinality(Finders) = 0 /\ job.tries = 0 /\ Cardinality(Processes) \in Nat
    BY <2>1, FS_EmptySet, FindersFinite DEF Init, NoJob
  <2> QED
    BY <1>1, <2>2 DEF Counted
<1> QED
  BY <1>3, <1>4, <1>6, <1>7, <1>8 DEF DeliveryInv

-----------------------------------------------------------------------------
(* Decisions and the outside world *)

(* reject keeps the invariant: a PENDING approval has no job. *)
LEMMA rejectInv == ASSUME DeliveryInv, reject PROVE DeliveryInv'
<1>1. job.status = "NONE"
  BY DEF DeliveryInv, RowsAgree, reject
<1>2. RowTypes' /\ GithubTypes' /\ DecisionsOK'
  BY DEF DeliveryInv, RowTypes, GithubTypes, DecisionsOK, reject, github, NoFault, Snapshot
<1>3. RowsAgree'
  BY <1>1 DEF DeliveryInv, RowsAgree, reject, github
<1>4. job'.tries <= job.tries
  BY DEF DeliveryInv, RowTypes, reject
<1> QED
  BY <1>2, <1>3, <1>4, OutsideStep DEF reject, github

(* The row approve inserts. *)
LEMMA QueuedJob ==
    LET row == [NoJob EXCEPT !.status = "QUEUED"] IN
    /\ row \in [status : {"NONE", "QUEUED", "RUNNING", "SUCCEEDED", "FAILED", "NEEDS_ATTENTION"},
                tries : Nat, token : Nat, live : BOOLEAN]
    /\ row.status = "QUEUED" /\ row.tries = 0
<1> DEFINE Rows == [status : {"NONE", "QUEUED", "RUNNING", "SUCCEEDED", "FAILED", "NEEDS_ATTENTION"},
                   tries : Nat, token : Nat, live : BOOLEAN]
<1>1. NoJob \in Rows /\ NoJob.tries = 0
  BY DEF NoJob
<1>2. ASSUME NEW row \in Rows
      PROVE  /\ [row EXCEPT !.status = "QUEUED"] \in Rows
             /\ [row EXCEPT !.status = "QUEUED"].status = "QUEUED"
             /\ [row EXCEPT !.status = "QUEUED"].tries = row.tries
  OBVIOUS
<1> QED
  BY <1>1, <1>2, Zenon

(* approve queues the job of a pull-request task together with the task.   *)
LEMMA approveInv == ASSUME DeliveryInv, approve PROVE DeliveryInv'
<1>1. job.status = "NONE"
  BY DEF DeliveryInv, RowsAgree, approve
<1>2. RowTypes'
  <2>1. /\ kind' \in Kinds /\ approval' = "APPROVED" /\ task' \in {"RESOLVED", "APPROVED"}
        /\ job' = job \/ job' = [NoJob EXCEPT !.status = "QUEUED"]
    BY DEF DeliveryInv, RowTypes, approve
  <2> QED
    BY <2>1, QueuedJob, Zenon DEF DeliveryInv, RowTypes
<1>3. GithubTypes' /\ DecisionsOK'
  BY DEF DeliveryInv, GithubTypes, DecisionsOK, approve, github, NoFault, Snapshot
<1>4. /\ approval' = "APPROVED" /\ UNCHANGED <<kind, branch, prs>>
      /\ \/ job' = job
         \/ /\ kind = "pull-request" /\ task' = "APPROVED"
            /\ job'.status = "QUEUED" /\ job'.tries = 0
  BY QueuedJob DEF approve, github, Snapshot
<1>5. RowsAgree'
  BY <1>1, <1>4 DEF DeliveryInv, RowsAgree
<1>6. job'.tries <= job.tries
  BY <1>4 DEF DeliveryInv, RowTypes
<1> QED
  BY <1>1, <1>2, <1>3, <1>5, <1>6, OutsideStep DEF approve, github

(* retry queues a FAILED job and moves its task along. *)
LEMMA retryInv == ASSUME DeliveryInv, retry PROVE DeliveryInv'
<1>1. RowTypes' /\ job'.status = "QUEUED" /\ job'.tries = job.tries /\ job.tries \in Nat
  BY DEF DeliveryInv, RowTypes, retry
<1>2. GithubTypes' /\ DecisionsOK'
  BY DEF DeliveryInv, GithubTypes, DecisionsOK, retry, github, NoFault, Snapshot
<1>3. RowsAgree'
  BY <1>1 DEF DeliveryInv, RowsAgree, retry, github
<1>4. job'.tries <= job.tries
  BY <1>1
<1> QED
  BY <1>1, <1>2, <1>3, <1>4, OutsideStep DEF retry, github

(* GiveUp ends job and task together. *)
LEMMA GiveUpInv == ASSUME DeliveryInv, GiveUp PROVE DeliveryInv'
<1>1. RowTypes' /\ job'.status = "FAILED" /\ job'.tries = job.tries /\ job.tries \in Nat
  BY DEF DeliveryInv, RowTypes, GiveUp
<1>2. GithubTypes' /\ DecisionsOK'
  BY DEF DeliveryInv, GithubTypes, DecisionsOK, GiveUp, github, NoFault, Snapshot
<1>3. RowsAgree'
  BY <1>1 DEF DeliveryInv, RowsAgree, GiveUp, github
<1>4. job'.tries <= job.tries
  BY <1>1
<1> QED
  BY <1>1, <1>2, <1>3, <1>4, OutsideStep DEF GiveUp, github

(* A lease that lapses or is renewed leaves status and tries alone. *)
LEMMA LeaseInv ==
    ASSUME DeliveryInv, LeaseLapses \/ (\E p \in Processes : Renew(p))
    PROVE  DeliveryInv'
<1>1. /\ RowTypes' /\ job'.status = job.status
      /\ job'.tries = job.tries /\ job.tries \in Nat
  BY DEF DeliveryInv, RowTypes, LeaseLapses, Renew
<1>2. UNCHANGED <<kind, approval, task, deliverer, decision, branch, target, open, other, prs>>
      /\ (Fault \/ NoFault)
  BY DEF LeaseLapses, Renew, github
<1>3. GithubTypes'
  BY <1>2, FaultType DEF DeliveryInv, GithubTypes
<1>4. DecisionsOK' /\ RowsAgree'
  BY <1>1, <1>2 DEF DeliveryInv, DecisionsOK, RowsAgree, Snapshot
<1>5. job'.tries <= job.tries
  BY <1>1
<1> QED
  BY <1>1, <1>2, <1>3, <1>4, <1>5, OutsideStep

(* Requests about a fixture task never meet a job. *)
LEMMA RequestInv ==
    ASSUME DeliveryInv, NEW r \in Reviewers, Request(r)
    PROVE  DeliveryInv'
<1>1. ~Snapshot
  BY DEF DeliveryInv, DecisionsOK, Request, DecideLoad, DecideCommit, RetryPrLoad,
         RetryPrCommit, createPr
<1>2. job.status = "NONE" /\ job.tries \in Nat
  BY <1>1 DEF DeliveryInv, RowsAgree, Snapshot, RowTypes
<1>3. UNCHANGED <<kind, job, deliverer, branch, target, open, other, prs, faults>>
  BY DEF Request, DecideLoad, DecideCommit, RetryPrLoad, RetryPrCommit, createPr,
         FixtureVars, github, NoFault
<1>4. decision \in [Reviewers -> {"idle", "APPROVED", "REJECTED", "retry", "create"}]
  BY DEF DeliveryInv, DecisionsOK
<1>5. /\ approval' \in {"PENDING", "APPROVED", "REJECTED"}
      /\ task' \in {"AWAITING_APPROVAL", "REJECTED", "RESOLVED", "APPROVED", "PR_CREATED", "PR_FAILED"}
  BY <1>4 DEF DeliveryInv, RowTypes, Request, DecideLoad, DecideCommit, RetryPrLoad,
              RetryPrCommit, createPr
<1>6. decision' \in [Reviewers -> {"idle", "APPROVED", "REJECTED", "retry", "create"}]
  BY <1>4 DEF Request, DecideLoad, DecideCommit, RetryPrLoad, RetryPrCommit, createPr
<1>7. DecisionsOK'
  BY <1>1, <1>3, <1>6 DEF DecisionsOK, Snapshot
<1>8. RowTypes' /\ GithubTypes'
  BY <1>3, <1>5 DEF DeliveryInv, RowTypes, GithubTypes
<1>9. RowsAgree'
  BY <1>2, <1>3 DEF DeliveryInv, RowsAgree
<1>10. job'.tries <= job.tries
  BY <1>2, <1>3
<1> QED
  BY <1>3, <1>7, <1>8, <1>9, <1>10, OutsideStep

(* Other people on GitHub touch neither rows nor the job's pull requests. *)
LEMMA OthersInv ==
    ASSUME DeliveryInv, TargetMoves \/ ForeignPush \/ OtherPr \/ PrCloses
    PROVE  DeliveryInv'
<1>1. UNCHANGED <<kind, approval, task, job, deliverer, decision, prs, faults>>
  BY DEF TargetMoves, ForeignPush, OtherPr, PrCloses, Others, db, NoFault
<1>2. branch' = branch \/ branch' = "foreign"
  BY DEF TargetMoves, ForeignPush, OtherPr, PrCloses
<1>3. GithubTypes'
  BY <1>1 DEF DeliveryInv, GithubTypes, TargetMoves, ForeignPush, OtherPr, PrCloses
<1>4. RowTypes' /\ DecisionsOK' /\ RowsAgree'
  BY <1>1, <1>2 DEF DeliveryInv, RowTypes, DecisionsOK, RowsAgree, Snapshot
<1>5. job'.tries <= job.tries
  BY <1>1 DEF DeliveryInv, RowTypes
<1> QED
  BY <1>1, <1>3, <1>4, <1>5, OutsideStep

-----------------------------------------------------------------------------
(* Steps of a process *)

Steps == {"succeeded", "failed", "conflict"} \union Delivering

(* A process that goes on with its delivery leaves the rows alone. *)
LEMMA GoesOn ==
    ASSUME DeliveryInv, NEW p \in Processes, NEW pc \in Steps, Goto(p, pc),
           deliverer[p].pc # "idle", GithubTypes', prs' >= prs,
           UNCHANGED <<kind, approval, task, job, decision>>,
           branch' = "ours" => branch = "ours" \/ job.status # "NONE",
           pc = "succeeded" => prs' > 0,
           pc \in AfterSearch => deliverer[p].seen = 0
    PROVE  DeliveryInv'
<1>1. PICK s \in ProcessState :
         /\ deliverer' = [deliverer EXCEPT ![p] = s]
         /\ s.pc = pc /\ s.seen = deliverer[p].seen
  BY Goes DEF Steps, Delivering
<1>2. /\ job.status # "NONE" /\ deliverer[p].seen <= prs /\ deliverer[p].seen \in Nat
      /\ prs \in Nat /\ prs' \in Nat /\ job.tries \in Nat
  BY DeliveryAssumption DEF DeliveryInv, ProcessOK, ProcessState, GithubTypes, RowTypes
<1>3. ProcessOK(s)'
  BY <1>1, <1>2 DEF ProcessOK
<1>4. s.pc \notin Finding
  BY <1>1 DEF Steps, Delivering, Finding
<1>5. Counted'
  BY <1>1, <1>2, <1>4, CountStep
<1>6. RowTypes' /\ RowsAgree'
  BY <1>2 DEF DeliveryInv, RowTypes, RowsAgree
<1> QED
  BY <1>1, <1>3, <1>5, <1>6, ProcessStep

(* A process that stops working. *)
LEMMA Rests ==
    ASSUME DeliveryInv, NEW p \in Processes,
           deliverer' = [deliverer EXCEPT ![p] = Resting],
           job'.tries = job.tries, job.status # "NONE" => job'.status # "NONE",
           UNCHANGED <<kind, decision, prs>>, RowTypes', GithubTypes', RowsAgree'
    PROVE  DeliveryInv'
<1>1. MaxPrs \in Nat /\ prs \in Nat
  BY DeliveryAssumption DEF DeliveryInv, GithubTypes
<1>2. Resting \in ProcessState /\ Resting.pc = "idle" /\ Resting.seen = 0
  BY <1>1 DEF Resting, ProcessState
<1>3. PICK s \in ProcessState : s = Resting
  BY <1>2
<1>4. ProcessOK(s)' /\ s.pc \notin Finding
  BY <1>1, <1>2, <1>3 DEF ProcessOK, AfterSearch, Finding
<1>5. Counted'
  BY <1>3, <1>4, CountStep DEF RowTypes
<1>6. /\ deliverer' = [deliverer EXCEPT ![p] = s]
      /\ UNCHANGED <<kind, decision>> /\ prs' >= prs
      /\ (job.status # "NONE" => job'.status # "NONE")
  BY <1>1, <1>3
<1> QED
  BY <1>4, <1>5, <1>6, ProcessStep

(* A process finds the job while tries are left. *)
LEMMA FindInv ==
    ASSUME DeliveryInv, NEW p \in Processes, FindCandidate(p)
    PROVE  DeliveryInv'
<1>1. job.status \in Finding /\ Goto(p, job.status)
  BY DEF FindCandidate, Goto, Finding
<1>2. PICK s \in ProcessState :
         /\ deliverer' = [deliverer EXCEPT ![p] = s]
         /\ s.pc = job.status /\ s.seen = deliverer[p].seen
  BY <1>1, Goes DEF Finding
<1>3. UNCHANGED <<kind, approval, task, job, decision, branch, target, open, other, prs, faults>>
  BY DEF FindCandidate, db, github, NoFault
<1>4. deliverer[p].seen <= prs /\ prs \in Nat /\ job.tries \in Nat /\ job.tries < MaxTries
  BY DeliveryAssumption DEF DeliveryInv, ProcessOK, GithubTypes, RowTypes, FindCandidate
<1>5. ProcessOK(s)'
  BY <1>1, <1>2, <1>3, <1>4 DEF ProcessOK, Finding, AfterSearch
<1>6. Counted'
  BY <1>2, <1>3, <1>4, CountStep
<1>7. RowTypes' /\ GithubTypes' /\ RowsAgree'
  BY <1>3 DEF DeliveryInv, RowTypes, GithubTypes, RowsAgree
<1>8. /\ deliverer' = [deliverer EXCEPT ![p] = s]
      /\ UNCHANGED <<kind, decision>> /\ prs' >= prs
      /\ (job.status # "NONE" => job'.status # "NONE")
  BY <1>2, <1>3, <1>4
<1> QED
  BY <1>5, <1>6, <1>7, <1>8, ProcessStep

(* A claim uses the try of a finder. *)
LEMMA ClaimInv ==
    ASSUME DeliveryInv, NEW p \in Processes, Claim(p)
    PROVE  DeliveryInv'
<1>1. job.tries \in Nat /\ prs \in 0..MaxPrs /\ MaxPrs \in Nat
  BY DeliveryAssumption DEF DeliveryInv, RowTypes, GithubTypes
<1>2. PICK s \in ProcessState :
         /\ deliverer' = [deliverer EXCEPT ![p] = s] /\ s.pc = "search" /\ s.seen = prs
  <2> DEFINE s == [pc |-> "search", token |-> job.tries + 1, ref |-> "none", seen |-> prs]
  <2>1. s \in ProcessState /\ s.pc = "search" /\ s.seen = prs
    BY <1>1 DEF ProcessState, Delivering
  <2>2. deliverer' = [deliverer EXCEPT ![p] = s]
    BY DEF Claim
  <2> HIDE DEF s
  <2> QED
    BY <2>1, <2>2, Zenon
<1>3. /\ UNCHANGED <<kind, approval, task, decision, branch, target, open, other, prs, faults>>
      /\ deliverer[p].pc \in Finding /\ job.status = deliverer[p].pc
  BY DEF Claim, Claimable, Finding, github, NoFault
<1>4. job' = [status |-> "RUNNING", tries |-> job.tries + 1, token |-> job.tries + 1, live |-> TRUE]
  BY DEF Claim
<1>5. RowTypes'
  BY <1>1, <1>3, <1>4 DEF DeliveryInv, RowTypes
<1>6. job'.status = "RUNNING" /\ job'.tries = job.tries + 1
  BY <1>4
<1>7. ProcessOK(s)' /\ s.pc \notin Finding
  BY <1>1, <1>2, <1>3, <1>6 DEF ProcessOK, AfterSearch, Finding
<1>8. Counted'
  <2>1. /\ deliverer' = [deliverer EXCEPT ![p] = s] /\ job'.tries \in Nat
        /\ job'.tries = job.tries + 1 /\ deliverer[p].pc \in Finding /\ s.pc \notin Finding
    BY <1>1, <1>2, <1>3, <1>6, <1>7
  <2> QED
    BY <2>1, CountStep
<1>9. GithubTypes' /\ RowsAgree'
  BY <1>3, <1>6 DEF DeliveryInv, GithubTypes, RowsAgree, Finding
<1>10. /\ deliverer' = [deliverer EXCEPT ![p] = s]
       /\ UNCHANGED <<kind, decision>> /\ prs' >= prs
       /\ (job.status # "NONE" => job'.status # "NONE")
  BY <1>1, <1>2, <1>3, <1>6
<1> QED
  BY <1>5, <1>7, <1>8, <1>9, <1>10, ProcessStep

(* A claim that comes too late, or a process that stops. *)
LEMMA StopInv ==
    ASSUME DeliveryInv, NEW p \in Processes, ClaimMissed(p) \/ Crash(p)
    PROVE  DeliveryInv'
<1>1. /\ UNCHANGED <<kind, approval, task, job, decision, branch, target, open, other, prs>>
      /\ deliverer' = [deliverer EXCEPT ![p] = Resting] /\ (Fault \/ NoFault)
  BY DEF ClaimMissed, Crash, db, github
<1>2. RowTypes' /\ GithubTypes' /\ RowsAgree'
  BY <1>1, FaultType DEF DeliveryInv, RowTypes, GithubTypes, RowsAgree
<1> QED
  BY <1>1, <1>2, Rests

(* An outcome is recorded on the job and its task, or not at all. *)
LEMMA OutcomeInv ==
    ASSUME DeliveryInv, NEW p \in Processes, NEW status, NEW taskStatus,
           Outcome(p, status, taskStatus),
           \/ status = "SUCCEEDED" /\ taskStatus = "PR_CREATED" /\ prs > 0
           \/ status \in {"FAILED", "NEEDS_ATTENTION"} /\ taskStatus = "PR_FAILED"
    PROVE  DeliveryInv'
<1>1. /\ UNCHANGED <<kind, approval, decision, branch, target, open, other, prs, faults>>
      /\ deliverer' = [deliverer EXCEPT ![p] = Resting]
  BY DEF Outcome, github, NoFault
<1>2. CASE StillMine(p)
  <2>1. job' = [job EXCEPT !.status = status] /\ task' = taskStatus /\ job.status = "RUNNING"
    BY <1>2 DEF Outcome, StillMine
  <2>2. job'.status = status /\ job'.tries = job.tries /\ RowTypes'
    BY <1>1, <2>1 DEF DeliveryInv, RowTypes
  <2>3. GithubTypes' /\ RowsAgree'
    BY <1>1, <2>1, <2>2 DEF DeliveryInv, GithubTypes, RowsAgree
  <2> QED
    BY <1>1, <2>2, <2>3, Rests
<1>3. CASE ~StillMine(p)
  <2>1. UNCHANGED <<job, task>>
    BY <1>3 DEF Outcome
  <2>2. RowTypes' /\ GithubTypes' /\ RowsAgree'
    BY <1>1, <2>1 DEF DeliveryInv, RowTypes, GithubTypes, RowsAgree
  <2> QED
    BY <1>1, <2>1, <2>2, Rests
<1> QED
  BY <1>2, <1>3

(* The steps of deliver that only look: the search before anything else,   *)
(* the comparisons, and the calls that fail or are refused.                *)
LEMMA LookInv ==
    ASSUME DeliveryInv, NEW p \in Processes,
           \/ Search(p) \/ Prepare(p) \/ CheckBeforePush(p) \/ CheckBeforePr(p)
           \/ PostRefused(p) \/ CallFails(p)
    PROVE  DeliveryInv'
<1>1. UNCHANGED <<kind, approval, task, job, decision, branch, target, open, other, prs>>
      /\ (Fault \/ NoFault)
  BY DEF Search, Prepare, CheckBeforePush, CheckBeforePr, PostRefused, CallFails, db, github
<1>2. GithubTypes' /\ prs' >= prs
  BY <1>1, FaultType, DeliveryAssumption DEF DeliveryInv, GithubTypes
<1>3. /\ deliverer[p] \in ProcessState /\ ProcessOK(deliverer[p]) /\ prs \in Nat
      /\ deliverer[p].seen \in Nat
  BY DeliveryAssumption DEF DeliveryInv, ProcessState, GithubTypes
<1>4. CASE Prepare(p) /\ TargetAsVerified /\ branch # "foreign"
  <2>1. PICK s \in ProcessState :
           /\ deliverer' = [deliverer EXCEPT ![p] = s]
           /\ s.pc = "check" /\ s.seen = deliverer[p].seen
    <3> DEFINE s == [deliverer[p] EXCEPT !.pc = "check", !.ref = branch]
    <3>1. branch \in {"none", "ours"}
      BY <1>4 DEF DeliveryInv, GithubTypes
    <3>2. s \in ProcessState /\ s.pc = "check" /\ s.seen = deliverer[p].seen
      BY <1>3, <3>1 DEF ProcessState, Delivering
    <3>3. deliverer' = [deliverer EXCEPT ![p] = s]
      BY <1>3, <1>4 DEF Prepare
    <3> HIDE DEF s
    <3> QED
      BY <3>2, <3>3, Zenon
  <2>2. deliverer[p].pc = "prepare" /\ deliverer[p].seen = 0 /\ job.status # "NONE"
    BY <1>3, <1>4 DEF Prepare, ProcessOK, AfterSearch
  <2>3. ProcessOK(s)' /\ s.pc \notin Finding
    BY <1>1, <1>3, <2>1, <2>2 DEF ProcessOK, Finding
  <2>4. Counted'
    BY <1>1, <2>1, <2>3, CountStep DEF DeliveryInv, RowTypes
  <2>5. RowTypes' /\ RowsAgree'
    BY <1>1 DEF DeliveryInv, RowTypes, RowsAgree
  <2> QED
    BY <1>1, <1>2, <2>1, <2>3, <2>4, <2>5, ProcessStep
<1>5. CASE ~(Prepare(p) /\ TargetAsVerified /\ branch # "foreign")
  <2>1. deliverer[p].pc # "idle"
    BY <1>5 DEF Search, Prepare, CheckBeforePush, CheckBeforePr, PostRefused, CallFails, Delivering
  <2>2. PICK pc \in Steps :
           /\ Goto(p, pc) /\ (pc = "succeeded" => prs > 0)
           /\ pc \in AfterSearch => deliverer[p].seen = 0
    <3>1. CASE Search(p)
      <4>1. CASE prs > 0
        BY <3>1, <4>1 DEF Search, Steps, AfterSearch
      <4>2. CASE ~(prs > 0) /\ other
        BY <3>1, <4>2 DEF Search, Steps, AfterSearch
      <4>3. CASE ~(prs > 0) /\ ~other
        <5>1. Goto(p, "prepare") /\ deliverer[p].seen = 0
          BY <1>3, <3>1, <4>3 DEF Search, ProcessOK
        <5> QED
          BY <5>1 DEF Steps, Delivering
      <4> QED
        BY <4>1, <4>2, <4>3
    <3>2. CASE Prepare(p)
      BY <1>5, <3>2 DEF Prepare, Steps, AfterSearch
    <3>3. CASE CheckBeforePush(p)
      <4>1. deliverer[p].seen = 0 /\ (Goto(p, "push") \/ Goto(p, "conflict"))
        BY <1>3, <3>3 DEF CheckBeforePush, ProcessOK, AfterSearch
      <4> QED
        BY <4>1 DEF Steps, Delivering
    <3>4. CASE CheckBeforePr(p)
      <4>1. deliverer[p].seen = 0 /\ (Goto(p, "post") \/ Goto(p, "conflict"))
        BY <1>3, <3>4 DEF CheckBeforePr, ProcessOK, AfterSearch
      <4> QED
        BY <4>1 DEF Steps, Delivering
    <3>5. CASE PostRefused(p) \/ CallFails(p)
      BY <3>5 DEF PostRefused, CallFails, Steps, AfterSearch
    <3> QED
      BY <3>1, <3>2, <3>3, <3>4, <3>5
  <2>3. branch' = "ours" => branch = "ours" \/ job.status # "NONE"
    BY <1>1
  <2>4. UNCHANGED <<kind, approval, task, job, decision>> /\ (pc = "succeeded" => prs' > 0)
    BY <1>1, <2>2
  <2> QED
    BY <1>2, <2>1, <2>2, <2>3, <2>4, GoesOn
<1> QED
  BY <1>4, <1>5

(* The push makes a branch only while there is a job. *)
LEMMA PushInv ==
    ASSUME DeliveryInv, NEW p \in Processes, Push(p)
    PROVE  DeliveryInv'
<1>1. UNCHANGED <<kind, approval, task, job, decision, target, open, other, prs, faults>>
  BY DEF Push, db, NoFault
<1>2. /\ deliverer[p].pc = "push" /\ job.status # "NONE" /\ deliverer[p].seen = 0
      /\ prs \in Nat
  BY DeliveryAssumption DEF Push, DeliveryInv, ProcessOK, AfterSearch, GithubTypes
<1>3. branch' \in {branch, "ours"}
  BY DEF Push
<1>4. GithubTypes' /\ prs' >= prs
  BY <1>1, <1>2, <1>3 DEF DeliveryInv, GithubTypes
<1>5. PICK pc \in Steps : Goto(p, pc) /\ pc # "succeeded"
  BY DEF Push, Steps, Delivering
<1> QED
  BY <1>1, <1>2, <1>4, <1>5, GoesOn

(* A pull request is created for a job. *)
LEMMA PostInv ==
    ASSUME DeliveryInv, NEW p \in Processes, PostPr(p)
    PROVE  DeliveryInv'
<1>1. /\ UNCHANGED <<kind, approval, task, job, decision, branch, target, other>>
      /\ open' = "ours" /\ (Fault \/ NoFault)
  BY DEF PostPr, db
<1>2. deliverer[p].pc = "post" /\ deliverer[p].seen = 0
  BY DEF PostPr, DeliveryInv, ProcessOK, AfterSearch
<1>3. prs \in Nat /\ prs' = prs + 1 /\ prs' \in 0..MaxPrs
  BY DeliveryAssumption DEF PostPr, DeliveryInv, GithubTypes
<1>4. GithubTypes' /\ prs' >= prs /\ prs' > 0
  BY <1>1, <1>3, FaultType DEF DeliveryInv, GithubTypes
<1>5. PICK pc \in Steps : Goto(p, pc)
  BY DEF PostPr, Steps
<1> QED
  BY <1>1, <1>2, <1>4, <1>5, GoesOn

(* Every step keeps the invariant. *)
LEMMA NextInv == DeliveryInv /\ [Next]_vars => DeliveryInv'
<1> SUFFICES ASSUME DeliveryInv, [Next]_vars PROVE DeliveryInv'
  OBVIOUS
<1>1. CASE reject \/ approve \/ retry \/ GiveUp \/ LeaseLapses
  BY <1>1, rejectInv, approveInv, retryInv, GiveUpInv, LeaseInv
<1>2. CASE \E r \in Reviewers : Request(r)
  BY <1>2, RequestInv
<1>3. ASSUME NEW p \in Processes, tick(p) \/ Renew(p) \/ CallFails(p) \/ Crash(p)
      PROVE  DeliveryInv'
  <2>1. CASE FindCandidate(p) \/ Claim(p) \/ ClaimMissed(p) \/ Crash(p)
    BY <2>1, FindInv, ClaimInv, StopInv
  <2>2. CASE deliver(p) \/ CallFails(p)
    BY <2>2, LookInv, PushInv, PostInv DEF deliver
  <2>3. CASE RecordSuccess(p)
    <3>1. prs > 0
      BY <2>3 DEF RecordSuccess, DeliveryInv, ProcessOK
    <3> QED
      BY <2>3, <3>1, OutcomeInv DEF RecordSuccess
  <2>4. CASE RecordFailure(p)
    BY <2>4, OutcomeInv DEF RecordFailure
  <2>5. CASE RecordConflict(p)
    BY <2>5, OutcomeInv DEF RecordConflict
  <2>6. CASE Renew(p)
    BY <2>6, LeaseInv
  <2> QED
    BY <1>3, <2>1, <2>2, <2>3, <2>4, <2>5, <2>6 DEF tick
<1>4. CASE TargetMoves \/ ForeignPush \/ OtherPr \/ PrCloses
  BY <1>4, OthersInv
<1>5. CASE UNCHANGED vars
  <2>1. UNCHANGED <<kind, approval, task, job, deliverer, decision, branch, target, open, other, prs, faults>>
    BY <1>5 DEF vars, db, github
  <2>2. RowTypes' /\ GithubTypes' /\ DecisionsOK' /\ RowsAgree'
    BY <2>1 DEF DeliveryInv, RowTypes, GithubTypes, DecisionsOK, RowsAgree, Snapshot
  <2>3. job'.tries <= job.tries
    BY <2>1 DEF DeliveryInv, RowTypes
  <2> QED
    BY <2>1, <2>2, <2>3, OutsideStep
<1> QED
  BY <1>1, <1>2, <1>3, <1>4, <1>5 DEF Next

-----------------------------------------------------------------------------
(* Theorems *)

(* The inductive invariant holds in every reachable state. *)
THEOREM DeliveryInvariance == Spec => []DeliveryInv
BY InitInv, NextInv, PTL DEF Spec

(* Rows, processes and GitHub keep their types. *)
THEOREM DeliveryTypeCorrect == Spec => []TypeOK
<1>1. DeliveryInv => TypeOK
  BY DEF DeliveryInv, RowTypes, GithubTypes, DecisionsOK, ProcessState, TypeOK
<1> QED
  BY <1>1, DeliveryInvariance, PTL

(* Job, task and approval agree whatever stale or repeated ticks of any    *)
(* number of processes do: only the holder of the lease token writes both. *)
THEOREM RowsStayTogether == Spec => []RowsAgree
<1>1. DeliveryInv => RowsAgree
  BY DEF DeliveryInv
<1> QED
  BY <1>1, DeliveryInvariance, PTL

(* A job is claimed at most MaxTries times, and once more for every other  *)
(* process that read the row while a try was left.                         *)
THEOREM TriesAreBounded == Spec => []TriesBounded
<1>1. DeliveryInv => TriesBounded
  <2> SUFFICES ASSUME DeliveryInv PROVE TriesBounded
    OBVIOUS
  <2>1. /\ job.tries \in Nat /\ MaxTries \in Nat /\ Cardinality(Finders) \in Nat
        /\ Cardinality(Processes) \in Nat
    BY FindersFinite, DeliveryAssumption DEF DeliveryInv, RowTypes
  <2> QED
    BY <2>1 DEF DeliveryInv, Counted, TriesBounded
<1> QED
  BY <1>1, DeliveryInvariance, PTL

(* A recorded success or conflict is never written over: every write to a  *)
(* job is guarded by its status, and fixture requests never meet one.      *)
THEOREM OutcomesAreFinal == Spec => OutcomeIsFinal
<1>1. ASSUME DeliveryInv, [Next]_vars, job.status \in {"SUCCEEDED", "NEEDS_ATTENTION"}
      PROVE  UNCHANGED <<job, task>>
  <2>1. approval = "APPROVED" /\ kind = "pull-request"
    BY <1>1 DEF DeliveryInv, RowsAgree
  <2>2. CASE reject \/ approve \/ retry \/ GiveUp \/ LeaseLapses
    BY <1>1, <2>1, <2>2 DEF reject, approve, retry, GiveUp, LeaseLapses
  <2>3. ASSUME NEW r \in Reviewers, Request(r) PROVE FALSE
    BY <1>1, <2>1, <2>3 DEF DeliveryInv, DecisionsOK, Snapshot, Request, DecideLoad,
                          DecideCommit, RetryPrLoad, RetryPrCommit, createPr
  <2>4. ASSUME NEW p \in Processes, tick(p) \/ Renew(p) \/ CallFails(p) \/ Crash(p)
        PROVE  UNCHANGED <<job, task>>
    <3>1. CASE Claim(p)
      BY <1>1, <3>1 DEF Claim, Claimable
    <3>2. CASE deliver(p)
      BY <3>2 DEF deliver, Search, Prepare, CheckBeforePush, Push, CheckBeforePr, PostPr,
                  PostRefused, db
    <3>3. CASE RecordSuccess(p) \/ RecordFailure(p) \/ RecordConflict(p)
      BY <1>1, <3>3 DEF RecordSuccess, RecordFailure, RecordConflict, Outcome, StillMine
    <3>4. CASE FindCandidate(p) \/ ClaimMissed(p) \/ Renew(p) \/ CallFails(p) \/ Crash(p)
      BY <1>1, <3>4 DEF FindCandidate, ClaimMissed, Renew, Holder, CallFails, Crash, db
    <3> QED
      BY <2>4, <3>1, <3>2, <3>3, <3>4 DEF tick
  <2>5. CASE TargetMoves \/ ForeignPush \/ OtherPr \/ PrCloses
    BY <2>5 DEF TargetMoves, ForeignPush, OtherPr, PrCloses, Others, db
  <2>6. CASE UNCHANGED vars
    BY <2>6 DEF vars, db
  <2> QED
    BY <1>1, <2>2, <2>3, <2>4, <2>5, <2>6 DEF Next
<1>2. DeliveryInv /\ [Next]_vars
         => [job.status \in {"SUCCEEDED", "NEEDS_ATTENTION"} => UNCHANGED <<job, task>>]_vars
  BY <1>1
<1> QED
  BY <1>2, DeliveryInvariance, PTL DEF Spec, OutcomeIsFinal

(* A claim that was made when a pull request of this delivery existed,     *)
(* however it was lost from sight, never creates another: the search is    *)
(* over closed pull requests too, and comes before everything else.        *)
THEOREM NoSecondPr == Spec => NoPrAfterPr
<1>1. ASSUME DeliveryInv
      PROVE  \A p \in Processes :
                prs' > prs /\ deliverer[p].pc = "post" /\ deliverer'[p].pc # "post"
                   => deliverer[p].seen = 0
  BY <1>1 DEF DeliveryInv, ProcessOK, AfterSearch
<1>2. DeliveryInv => [\A p \in Processes :
                prs' > prs /\ deliverer[p].pc = "post" /\ deliverer'[p].pc # "post"
                   => deliverer[p].seen = 0]_vars
  BY <1>1
<1> QED
  BY <1>2, DeliveryInvariance, PTL DEF NoPrAfterPr

(* No push of a delivery replaces a commit somebody else put on the branch. *)
THEOREM ForeignKept == Spec => ForeignCommitsKept
<1>1. ASSUME DeliveryInv, [Next]_vars, branch = "foreign"
      PROVE  branch' = "foreign"
  <2>1. ASSUME NEW p \in Processes, Push(p) PROVE branch' = branch
    <3>1. deliverer[p].ref \in {"none", "ours"}
      BY <1>1 DEF DeliveryInv, ProcessState
    <3> QED
      BY <1>1, <2>1, <3>1 DEF Push
  <2>2. ASSUME NEW p \in Processes, tick(p) \/ Renew(p) \/ CallFails(p) \/ Crash(p)
        PROVE  branch' = branch
    BY <2>1, <2>2 DEF tick, deliver, FindCandidate, Claim, ClaimMissed, Search, Prepare,
          CheckBeforePush, CheckBeforePr, PostPr, PostRefused, RecordSuccess, RecordFailure,
          RecordConflict, Outcome, Renew, CallFails, Crash, github
  <2>3. ASSUME NEW r \in Reviewers, Request(r) PROVE branch' = branch
    BY <2>3 DEF Request, DecideLoad, DecideCommit, RetryPrLoad, RetryPrCommit, createPr,
                FixtureVars, github
  <2>4. CASE reject \/ approve \/ retry \/ GiveUp \/ LeaseLapses
    BY <1>1, <2>4 DEF reject, approve, retry, GiveUp, LeaseLapses, github
  <2>5. CASE TargetMoves \/ ForeignPush \/ OtherPr \/ PrCloses
    BY <1>1, <2>5 DEF TargetMoves, ForeignPush, OtherPr, PrCloses
  <2>6. CASE UNCHANGED vars
    BY <1>1, <2>6 DEF vars, github
  <2> QED
    BY <1>1, <2>2, <2>3, <2>4, <2>5, <2>6 DEF Next
<1>2. DeliveryInv /\ [Next]_vars => [branch = "foreign" => branch' = "foreign"]_vars
  BY <1>1
<1> QED
  BY <1>2, DeliveryInvariance, PTL DEF Spec, ForeignCommitsKept

=============================================================================
