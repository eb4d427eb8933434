# TLA+ models of the agent reliability platform

The platform runs coding agents on repair tasks and is built to survive what
goes wrong on the way: workers die, leases lapse, messages are lost or repeated,
answers arrive late, budgets run out, two processes do the same thing at once.
This directory holds TLA+ models of the code that deals with that, the TLC
configurations that check them on small instances, and proofs, checked by TLAPS,
of their safety properties for every size of instance.

Paths below are relative to the repository; `cp/` stands for
`apps/control-plane/src/modules/` and `rt/` for
`apps/agent-runtime/src/arp_runtime/`.

## 1. The system

| Part | Source | State it keeps | Operations | Talks to |
|---|---|---|---|---|
| State machines, recovery policy | `state-machine/`, `cp/policy/`, `packages/shared/src/enums.ts` | none (tables) | `assertTransition`, `decidePolicy` | used by the run lifecycle |
| Run lifecycle | `cp/run/run-lifecycle.service.ts`, `cp/dispatch/lease-monitor.ts`, `cp/internal/` | Run, Task, Attempt, Checkpoint, Artifact, Approval, OutboxMessage rows | create, claim, heartbeat, complete, save checkpoint, expire lease, apply policy | workers over HTTP, publisher through the outbox |
| Run control | `cp/run/run-control.service.ts` | the same rows | lease check, phase, pause, user pause, cancel, resume, environment | workers, users |
| Token budget | `cp/run/budget.service.ts`, `rt/agents/budgeted_model.py` | BudgetCall rows, Run.usedTokens | reserve, settle | the runtime's model calls |
| Dispatch | `cp/dispatch/outbox-publisher.ts`, `rt/worker.py`, Redis stream `run-commands` | outbox status, stream, pending list, `cmd:` keys, worker processes | publish, reconcile, read, reclaim, deduplicate, claim, acknowledge | run lifecycle |
| Approval and delivery | `cp/approval/`, `cp/github/` | Approval, DeliveryJob, the branch and pull request on GitHub | decide, retry, claim a job, push, create a pull request | GitHub |
| Trace events | `rt/events.py`, `cp/events/`, `apps/web/src/lib/use-run-events.ts` | stream `trace-events`, TraceEvent rows, SSE cursors | emit, ingest, stream to browsers, merge | runtime, web |
| Agent runtime | `rt/runner.py`, `rt/agents/`, `rt/tools/` | the graph's thread in Postgres; workspace and cached tool calls in memory | run, resume, replay, call the model, call tools, checkpoint, verify | run lifecycle, sandbox |
| Verifier | `rt/verifier/` | none | the six checks in order | sandbox |
| Drafts, snapshots, import | `cp/task/`, `cp/github/pr-import.service.ts` | TaskDraft, idempotency keys | create, revise, confirm | run lifecycle |
| Evidence spool | `rt/evidence.py` | one file per attempt, shared by the workers of a host | save, flush | control plane |
| Sandbox, environment builder | `rt/sandbox/`, `rt/environment/` | containers, image tags, lock files | start, destroy, sweep, prepare, pin | Docker, run control |
| Models, judge, repositories, credentials, notifications, web | the rest | containers, files | mostly I/O | |

What is hard about it:

* **Races on one run.** Worker requests, the lease monitor and users write the
  same rows. Several handlers read outside the transaction that writes
  (`completeAttempt`, `handleLeaseExpired`, `claimAttempt`, `pauseRun`, and the
  lease check of the internal controller): what they read may be stale.
* **At-least-once delivery.** Outbox rows are published twice, entries are
  reclaimed while another worker executes them, Redis may lose everything.
* **Fencing.** A worker or process that stalls past its lease comes back and
  writes: attempts, checkpoints, delivery outcomes.
* **Recovery bounds.** Attempts, tokens, execution time and a deadline limit
  recovery; each limit is tested in several places.
* **Two memories.** A resumed attempt has the graph's thread, which any worker
  that runs the graph writes, and the platform's checkpoint, which only the owner
  of the lease writes. They are saved at different moments and must agree.
* **Half-done external effects.** A branch is pushed or a pull request created
  and the process dies before it is recorded.
* **Eventually.** Every attempt must end, every waiting run be claimed, every
  job come to an outcome.

The list of hazards, at the line where each bites and with the properties that
cover it, is `hazards` in `PROJECT.json`.

## 2. Modules

```
StateMachine   Policy
      \        /
     RunLifecycle ----- implements -----> RunContract
      |        \                              |
 RunLifecycle-  MCRunLifecycle                | steps of the run
 Proofs                                   Dispatch --- MCDispatch
      |                                   Delivery
 RunLifecycle-                            TraceEvents
 Steps                                    WorkerHost
   Policy ---- AgentRuntime
```

The proofs about `M` are in `MProofs`, for `Dispatch`, `Delivery`, `TraceEvents`,
`AgentRuntime` and `WorkerHost` too.

`AgentRuntime` and `WorkerHost` are the two halves of a worker: what one run
keeps across its attempts, and what the attempts of all runs on a host share.
Both take the lease protocol from `RunLifecycle` as given: a worker holds the
lease of the latest attempt of a RUNNING run, or none (`OneOwner`).

### StateMachine, Policy

The three transition tables as sets of pairs, and the policy table as sets of
failure codes with `decidePolicy(code, no, max)`.

### RunContract

The abstract specification: a run is *waiting*, *working*, *parked* or ended;
attempts are numbered, one at a time, at most `MaxAttempts`; only the attempt at
work can make the run succeed or fail; an end is final.

### RunLifecycle

One run of one task. Variables are the columns of its rows (`run`, `task`,
`att[n]`, `lease[n]`, `checkpoint`, `outbox`, `approval`, ...) and one variable
per kind of request that is being served (`claim`, `beat`, `req`, `mon`,
`pauser`). A transaction that locks the Run row is one action; a handler that
reads before it is two or three, with what it read kept in the request variable.
A refused transaction rolls back and only ends the request. `applyPolicy` is part
of the action whose transaction calls it.

Abstractions: time is nondeterministic (a lease may lapse, the execution time run
out and the deadline pass whenever the clock could do that); tokens are "left" or
"out"; a patch and a checkpoint are the number of the attempt that wrote them; the
five phases a worker reports are one; `hops` keeps the status changes the last
transaction put on the timeline. `kind` is chosen at creation: a snapshot task
(leases, budgets, pauses apply), a fixture task, or a fixture task of an
experiment with recovery disabled. The demo's admission limit (a count of other
runs) is outside a one-run model.

`StatusAgreement` covers a run up to its PENDING approval; what happens to the
task afterwards is `Delivery`'s.

### Dispatch

How the command of an attempt reaches a worker. The run takes steps of
`RunContract`; since `RunLifecycle` implements that contract and writes the
command in the transaction that makes the run wait (`OutboxInOrder`), what is
shown here holds for the real run. `ReconcileRuns/Find/Mark`, `ReadQueued`,
`XAdd`, `MarkPublished` are the steps of one publisher tick; what a tick has read is
a set of rows that it works off oldest first (`orderBy createdAt`), and the rows of
one run are written in the order of its attempts. A worker reads one
entry or reclaims a batch (`todo`) and handles entries one by one: key, claim,
execute, report, acknowledge. Redis is external: a queue of undelivered entries,
the pending list by entry identity (`Slots`, reused once nobody knows them), and
the `cmd:` keys. The owner column of the pending list is left out, since no code
reads it: whoever holds an entry may acknowledge it. A graceful stop with an entry
just read has the effect of a crash there and is not told apart. One run is
modelled, so the batch limits (20 rows, 100 runs, 10 entries) are never reached.

### Delivery

From the PENDING approval to the pull request. Decisions on a snapshot task are
transactions on the locked row; those on a fixture task read first and write
later, two actions. `tick` is one action per read or write others can see; a
claim's token is its number. GitHub is external: the repair branch (absent, ours,
foreign), the target branch (where it was verified, or moved), and pull requests
with and without the job's marker. GitHub refuses a second open pull request of
one branch, and an up-to-date push succeeds. Deleting the branch is not modelled.
`NoPrAfterPr` is about claims made after the first pull request; a process that
claimed before it, stalled past its lease between its last look at the lease and the
request, can still post once that pull request is closed. `TriesBounded` allows one
try more per racing process than "最多 5 次" (at most 5) of
`docs/acceptance/local-pr-preflight.md:22`; the code does reach that (section 5).
The digest comparisons are left out because the patch of an ended run cannot
change (`EndIsFinal`, `ApprovalBacked`).

### TraceEvents

The timeline of one run. `emit` is the runtime's XADD; `ReadGroup` and `Autoclaim`
are the two reads of `consumeLoop`; `handleEntry` is one action per visible step
(`Parse`, `FindExisting`, `StoreBegin`, `StoreCommit`, `ack`). Taking a
`runSequence` updates the Run row, which stays locked until the transaction ends:
`Allocate` and `CommitRow` are two steps with `locked` between them, for ingestors
and for the control plane's own events. `drain` reads with the connection's cursor
and writes what it read; the browser merges (`mergeEvents`) and reconnects with the
last number it has. The page's first `GET /events` runs beside all that and its
answer replaces the cache, as the query library does. An event is its sequence
number, which is its idempotency key within an attempt (claims are unique, see
`OneOwner`); `Malformed` events are the ones the schema refuses. Stream, batches,
wire and cache are sets, since each of them is only ever read or merged in the order
of the numbers. `RunEventsBus` has no subscriber, so nothing of it is modelled. The Redis stream is
taken to be durable (`docker-compose.yml` turns the append-only file on), unlike in
`Dispatch`, where Redis may lose everything: events that are only in Redis are lost
with it, as the roadmap says (`2026-10-06-local-pr-repair-roadmap.md:304`).

### AgentRuntime

One run of the self-built agent over all its attempts. `thread` is the LangGraph
thread (thread id = run id), `checkpoint` the newest platform checkpoint, and
`agent[n]` what the worker of attempt n holds in memory: workspace `ws`, cached
calls `completed`, the graph state `mem`. `Prepare` starts the sandbox, runs the
baseline, restores the checkpoint and reads the thread; `Replay`, `UpdateState`,
`Invoke` are the three parts of a resume; `CallModel` ... `Respond` are
`_agent_node`; `RunTool`, `OnCheckpoint`, `ToolsAnswered` are `_tools_node`, one
step per call and per checkpoint; `Verify`, `OnCheckpoint`, `Report` end the
attempt. A worker that lost its lease goes on until a request is refused
(`MaxLive` workers of the run at once), `Crash` may happen anywhere.

LangGraph is external. As the installed version does by default, it writes the
state of a node while the next node runs: `Persist` is a step of its own, and a
node's result is not added before the one before it is written (`synced`). An
attempt that begins from the start adds its first messages to the old thread,
since the message list is merged: unanswered calls stay in the middle (`gap`), and
the model API refuses every call with such a history (`CallFails`).

The answers from before the last initial messages stay in the history as well, about
a workspace that is gone: `earlier` holds them, `applied` the answers since then.
`WorkspaceHolds` is about `applied`; of `earlier` it says nothing, since a restarted
agent does read there that patches are applied which its workspace lacks (section 5).

`root` and `lineage` say which start of the agent (an attempt that began from
nothing) thread and checkpoint come from. `replayed` is kept for `WorkspaceHolds`:
the answers a resume gave although no checkpoint of the thread's own start holds
their patches. What becomes of those is `PatchesKept`, a finding.

Abstractions: a patch is its call's identity and a workspace is a set of patches;
the other tools are one `Probe` without effect (so what a shell command replayed
on a restored workspace does is not covered); the calls of one message run in any
order; the wall clock may run out whenever the code looks at it; V3, V4 and V5
share one failure code, since the policy table treats their codes alike;
`OutOfScope` and `TestEdits` are constants of the module that the run leaves
empty. The mini-SWE adapter has no thread and starts again each time.

### WorkerHost

The workers of one host. A worker sweeps left-over containers when it starts
(`SweepAsk`, `SweepRemove`), then flushes the spool and takes attempts: `Look`,
`Lock`, `Recheck`, `BuildEnds`, `Built` are `prepare_environment`, `Pin` is
`RunControlService.environment`, then the sandbox runs, evidence is saved and the
outcome reported. `Flush`, `FlushRead`, `FlushPost`, `FlushUnlink` are the steps
of `flush_evidence` that others can see; a file holds a version number. All tasks
here have one fingerprint, hence one lock file and one tag; an image is the number
of its build. After a crash during a build, `docker build` may go on without the
lock (`orphan`) and move the tag later. Images are never deleted, and one attempt
has one container (the second one of a snapshot's verification has the same label
and is swept with it).

## 3. Runs

| Run | Shows | Instance |
|---|---|---|
| `RunRequests` | rows agree, one owner, commands in order and funded, time charged once, approval backed, ends final, checkpoints only advance, blocked runs stay parked, the timeline has no gap, RunContract is implemented | 2 attempts, 2 workers, 1 model call, three codes that take the three branches of the policy table, at most 2 requests in service at once |
| `RunProgress` | every attempt ends and the run comes to rest | 2 attempts, 1 worker, any number of requests |
| `DispatchSafety` | no attempt executed twice; the command a waiting snapshot run needs is never acknowledged away | 2 attempts, 2 workers, 2 entries, any 2 faults, both kinds of run |
| `DispatchProgress` | a waiting run is claimed while a worker is up; pending entries drain | 2 attempts, 2 workers, 1 entry at a time, any fault, both kinds |
| `DispatchFixture` | the key of a fixture command makes the worker acknowledge a command nobody claimed (finding) | as above, 1 fault |
| `Delivery` | rows agree, tries bounded, outcomes final, no claim made after a pull request creates another, foreign commits kept, every job comes to an outcome | 2 processes, 2 requests, 2 tries, 3 faults, every kind of task |
| `DeliveryDecision` | two concurrent decisions on a fixture task both take effect (finding) | 2 requests |
| `TraceEvents` | events neither lost nor stored twice, no number filled in behind a reader, what was sent and not received is on the wire, all received | 2 ingestors, a good and a malformed event, 1 synthetic event, any fault, batches of 1 and 2 |
| `TraceLoad` | the first load replaces events received meanwhile (finding) | no fault |
| `AgentRuntime` | cached patches, and those answered since the last start, are in the workspace, no checkpoint loses a patch, no test patch is delivered, the turn budget holds over resumes, the run comes to rest | 3 attempts, 2 turns, 1 patch beside a probe in one message, 2 workers alive at once, both kinds of task |
| `AgentLostPatch` | a patch replayed at a resume is lost by the next crash although the history keeps its answer (finding) | the same |
| `WorkerHost` | a sweep takes no live sandbox, one image per environment, builds merged, evidence arrives | 2 workers, 3 attempts of 2 runs, 1 fault, 2 versions of the evidence of one attempt |

Why the bounds are enough to be interesting: races are between two requests (a
stale one and the one that made it stale), so two in service, two workers and two
processes produce each of them; two attempts give a predecessor with late requests
and a successor. `AgentRuntime` has three attempts because a patch is lost, or
would be, by the second of two interruptions, and two workers alive so that a stray
one writes beside the owner; one patch is enough since properties compare, patch by
patch, where it is recorded. `WorkerHost` has three attempts because one must leave
a build alone, one pin its own image and one meet the moved tag; two versions of
one attempt's evidence let a file be replaced under a worker that is sending it.
What needs more than that is left to the proofs, and one case did: with five
attempts, a resumed worker that lost its lease can add answers of an older start to
the thread of a restarted attempt. The attempted proof of `WorkspaceHolds` showed it,
TLC confirmed it on an instance of five attempts, and `replayed` now covers it.
Two faults allow a fault during the recovery from another one; delivery has three
because a lost answer, a crash and a lapsed lease combine. `DispatchSafety` and
`RunRequests` use symmetry over workers (and entries), which no property tells
apart; the runs with liveness use none. Deadlock is not checked: a run that ended
may stop for good.

Every property comes with a mutant in `PROJECT.json`: a definition as a plausible
bug would change it (named after the definition and what it forgets), under which
TLC finds the property violated.

### Fairness

* `RunLifecycle`: workers that started a claim or a completion finish the request,
  the monitor's timer fires, the clock advances (leases lapse, execution time runs
  out). Workers need not heartbeat, succeed or report. That a waiting run is
  claimed is assumed here and shown in `DispatchProgress`.
* `Dispatch`: the publisher's timer, back-off and key expiry fire; a worker that is
  up keeps looping, reading new entries and reclaiming idle ones (strong fairness,
  since each turn of `run_forever` does both) and its execution ends. Sooner or
  later a reconciliation finds the row older than a minute. Nothing restarts a
  stopped worker: the repository has no restart policy, so the properties stop
  where all workers are down.
* `TraceEvents`: transactions end, each consumer loop goes on, the SSE timer fires,
  what an open connection carries arrives, EventSource reconnects. Faults are
  bounded. No strong fairness is needed: what is stored or acknowledged is never
  fetched again, so nobody can be kept from the lock or the stream for ever.
* `AgentRuntime`: the workers together do not stop while one of them can go on
  (each call they make has a timeout, and commands are claimed, see `Dispatch`);
  the lease of a dead worker lapses. Single workers may stall for ever as long as
  another moves.
* `WorkerHost`: each worker is started again after a crash and goes on. (For this
  one property somebody must start workers; nothing is uploaded otherwise.)
* `Delivery`: the timer fires in every process, calls time out, and a lease nobody
  renews lapses.

## 4. Proofs

Every invariant and every safety action property that a passing run checks is also
proved, for every value of the constants, and so is the refinement of `RunContract`.
The one thing each module assumes is its named `ASSUME`: bounds are natural numbers
(positive where zero would mean that nothing can happen), sets that are counted
(processes, transactions, workers, patches) are finite, codes are failure codes, and
sets that the code keeps apart are disjoint. TLC evaluates each on the module's runs.

None of the properties is inductive alone. The paragraphs below say what each
inductive invariant adds and why. Each also passed TLC as an
invariant on the instance of its module's safety run; no run repeats that, since the
proofs say more.

**RunLifecycle** (`RunLifecycleProofs`): `TypeOK`, `OneOwner`, `StatusAgreement`,
`OutboxInOrder`, `DispatchFunded`, `ChargedOnce`, `ApprovalBacked`. The inductive
invariant is

    IndInv == TypeOK /\ NothingYet /\ RequestsTracked /\ RowInv

* `RequestsTracked` is the heart: what a request read before the lock is still
  true *while the attempt it is about is RUNNING*. That is why `completeAttempt`
  may use a run status it read earlier, and why the monitor may.
* It is preserved because an attempt is RUNNING only if the run is (`OneOwner`),
  and no action changes the run without ending the attempt.
* `OneOwner` needs `OutboxInOrder` (a claim is for the next number), which needs
  that an attempt is ended by one request only.
* `ChargedOnce` needs that a claim of a snapshot run read no clock (part of
  `RequestsTracked`), and `DispatchFunded` needs `ChargedOnce` for the clock.
* `NothingYet` says that a run that does not exist has no rows; `Reached` and
  `RecordsSound` which statuses are committed and where a blocking reason can be.

The proof has one lemma per action or group of actions with the same footprint.
`EndAttempt` and `PolicyEndInv` carry the argument shared by completion, pause,
cancellation and lease expiry.

**RunLifecycle, its steps** (`RunLifecycleSteps`): `EndIsFinal`,
`CheckpointsAdvance`, `BlockedStaysParked`, `TimelineComplete` and
`ImplementsContract`. From a state with `IndInv` every step has one of six shapes
(`StepShape`): it changes no status, creates, claims, ends the attempt at work,
cancels or resumes. Each property is read off the shapes, whatever handler took the
step. The refinement maps `epoch` to the number of the latest attempt
(`EpochIsLatest`).

**Dispatch** (`DispatchProofs`): `TypeOK`, `ExecutedOnce`, `CommandKept`. A claim is
granted for attempt `epoch + 1` only and what a worker executes is not newer than
`epoch`, hence `ExecutedOnce` however often a command is delivered. `CommandKept`
needs that what a worker holds is what its slot of the pending list says, unless
somebody else acknowledged it (`WorkerOK`), that rows exist up to the attempt the run
waits for (`RowsOK`), and that a row about to be marked PUBLISHED is in the stream
(`CommandOnItsWay`).

**Delivery** (`DeliveryProofs`): `TypeOK`, `RowsAgree`, `TriesBounded`,
`OutcomeIsFinal`, `NoPrAfterPr`, `ForeignCommitsKept`. `RowsAgree` needs that a process
with a pull request in hand is right about it (`ProcessOK`), and that the unlocked
decisions never meet a job (`DecisionsOK`). `TriesBounded` counts the processes that
found the job below the limit and have not claimed it yet together with the tries
(`Counted`).

**TraceEvents** (`TraceEventsProofs`): `TypeOK`, `StoredOnce`, `NothingBehind`. The
locked Run row makes the committed numbers an interval that ends at `lastSequence`
(`NumbersOK`); that is what both cursors rely on (`WebOK`). `StoredOnce` needs that an
ingestor acknowledges only what it saw stored or what is malformed (`IngestorOK`). That
numbers never outgrow the rows is a count of events stored and transactions done.

**AgentRuntime** (`AgentRuntimeProofs`): `TypeOK`, `WorkspaceHolds`,
`SuccessIsClean`, `ProgressKept`. The argument is about starts of the agent. Only the
owner of the lease moves the checkpoint to another start, and then to its own, of
which nobody else has a history with answers (but those from before its initial
messages, of which nothing is claimed). So a thread that a stray worker writes late
belongs to a start whose checkpoint is gone for good, or says nothing about the time
since then that the checkpoint does not hold (`Backed`, `FreshUnsaved`), and a worker that resumes has all
the checkpoint has (`OwnerOK`).

**WorkerHost** (`WorkerHostProofs`): `TypeOK`, `LiveSandboxKept`, `ImagesAgree`,
`BuildMerged`. `WorkerOK` is what a worker relies on about locks, tags, leases and
containers; steps of other workers keep it since they move the shared state in the few
ways `Gentle` lists. `LiveSandboxKept` needs that no attempt is given to two workers,
that the sweep asked about a lease before it removes (`WorkerOK`), and that a lease
once lapsed is never again one that did not lapse. The numbers of images are bounded
by counting builds against the attempts that will not build any more
(`BuildsCounted`).

Model-checked only:

* liveness, since the prover knows neither fairness nor ENABLED: `EveryAttemptEnds`,
  `RunComesToRest`, `WaitingIsClaimed`, `PendingDrains`, `JobSettles`,
  `EmittedIsReceived`, `RunRests`, `EvidenceArrives`;
* the four violated properties, which are counterexamples to begin with.

## 5. Findings

`PROJECT.json` quotes each line. In short: a patch replayed when an attempt
resumes is answered in the thread before any checkpoint holds it, and lost when
the worker dies then; a fixture command whose claim failed, or whose worker is merely
slow to claim, is acknowledged as a duplicate; two decisions on a fixture task's approval both take effect; the list a
page loads first can replace events that arrived over SSE meanwhile.

Noted while modelling, without a run of their own:

* a RESTART_ATTEMPT runs on the same thread, whose messages are merged
  (`graph.py:48`, `graph.py:317`): the restarted agent reads in its history that
  patches of an earlier attempt are applied, and its fresh workspace has none of them.
  "RESTART = 丢弃进度重开一个 Attempt" (throws progress away and begins another
  attempt), says `policy-engine.ts:8`. TLC reaches it in 17 states: attempt 1 applies
  a patch and is reported stuck, attempt 2 begins;
* the claim of a delivery job does not compare `attempts` again
  (`delivery.service.ts:84`): two processes find the job with one try left, the first
  claims it and stalls past its lease, the second claims it too, one more than the
  "最多 5 次" of `local-pr-preflight.md:22`. TLC reaches it in 11 states;
* a checkpoint from before a RESTART_ATTEMPT comes back with a later RESUME when
  the restarted attempt saved none (`run-lifecycle.service.ts:549`; the policy
  engine's header says progress is thrown away);
* a manual resume takes INTERRUPTED to DISPATCHED, which `RUN_TRANSITIONS` does not
  have (`TimelineComplete` names this one exception);
* the second attempt of a fixture run is timed from the first one's claim
  (`run-lifecycle.service.ts:244`);
* an attempt that starts again on the thread of one that died inside the tools
  node keeps its unanswered calls in the middle of the history, so every model
  call it makes is refused (`graph.py:317`);
* a worker that resumes, loses its lease and is overtaken by a restarted attempt
  still adds the answers of its replay to the shared thread, after the restarted
  agent's first messages (`graph.py:312`);
* the newest evidence of an attempt can be unlinked by a worker that uploaded the
  version before it (`evidence.py:31`), and a file that is refused for good keeps
  the files after it from being sent (`evidence.py:30`);
* a worker restarted before its crashed attempt's lease has lapsed leaves that
  container behind, and a verification sandbox is not destroyed when the candidate
  patch does not apply in it (`worker.py:156`, `runner.py:234`).

## 6. Not modelled, and the plan

Next, in this order:

1. **Budget**: amounts instead of left/out, against the abstraction used by
   `RunLifecycle`.
2. **Drafts**: confirmation with an idempotency key and the advisory lock.
3. Proofs about both, as far as they are safety properties.

Not modelled:

* the generated Prisma client, about nine tenths of the implementation's lines:
  its rows are the variables of the modules, its text has no behaviour of its own;
* drafts, imports and the idempotency key of a confirmation; token amounts;
* the mini-SWE adapter, condenser, prompts, model clients, judge and evaluation
  scripts; what shell commands do; path guards (string matching);
* authentication, credentials, repository and fixture administration,
  notifications, rendering in the web client: I/O or plain CRUD without a protocol
  of their own.
