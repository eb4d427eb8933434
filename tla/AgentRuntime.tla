---------------------------- MODULE AgentRuntime ----------------------------
(***************************************************************************)
(* How the self-built agent survives its worker (apps/agent-runtime/src/   *)
(* arp_runtime: runner.py, agents/self_agent/graph.py, agents/adapter.py,  *)
(* tools/toolset.py, verifier/pipeline.py).                                *)
(*                                                                         *)
(* Two things are kept across attempts: the graph's thread in Postgres     *)
(* (thread_id = runId, written by whoever runs the graph) and the          *)
(* platform's checkpoints (only the owner of the attempt's lease may       *)
(* write).  Workspace, cached tool calls and the graph's state in memory   *)
(* die with the worker.  A worker that lost its lease goes on until the    *)
(* control plane refuses it.                                               *)
(*                                                                         *)
(* A patch is the identity of the apply_patch call that carries it, a      *)
(* workspace is the set of patches in its diff; Probe stands for the calls *)
(* that change nothing here and are never cached (read_file, search_code,  *)
(* run_command).  The messages of a thread are abstracted to the calls of  *)
(* the last one that have no answer, the patches that an answer says are   *)
(* applied (earlier: before the last initial messages, applied: after      *)
(* them), and whether an older message has unanswered calls.               *)
(***************************************************************************)
EXTENDS Naturals, FiniteSets, Policy

CONSTANTS
    Kinds,        \* the kinds of task checked: "snapshot", "fixture"
    MaxAttempts,  \* run.maxAttempts
    Turns,        \* budget.turns
    Patches,      \* apply_patch calls the model may make
    OutOfScope,   \* patches that leave allowedPaths
    TestEdits,    \* patches that touch test files
    Probe,        \* a call of another tool
    TestPatch,    \* the benchmark's own test_patch
    MaxBatch,     \* tool calls of one model response
    MaxLive,      \* workers of the run alive at once: its owner and strays
    MAX_STUCK_REPEATS

ASSUME RuntimeAssumption ==
    /\ Kinds \subseteq {"snapshot", "fixture"} /\ Kinds # {}
    /\ MaxAttempts \in Nat \ {0} /\ Turns \in Nat \ {0}
    /\ MaxBatch \in Nat \ {0} /\ MaxLive \in Nat \ {0}
    /\ MAX_STUCK_REPEATS \in Nat \ {0}
    /\ IsFiniteSet(Patches) /\ OutOfScope \subseteq Patches /\ TestEdits \subseteq Patches
    /\ Probe \notin Patches /\ TestPatch \notin Patches /\ Probe # TestPatch

VARIABLES
    kind,        \* snapshot or fixture task
    status,      \* of the run
    no,          \* number of the attempt last commanded
    command,     \* checkpoint named in its command; NoCheckpoint in a START_RUN
    checkpoint,  \* newest platform checkpoint of the run
    blocked,     \* stopped for a reason that resume refuses
    unsettled,   \* attempts with a model call whose usage is not recorded
    delivered,   \* the PATCH artifact of a successful attempt
    asked,       \* apply_patch calls made so far (identities are never reused)
    thread,      \* the graph's thread in Postgres
    agent        \* what the worker of each attempt holds in memory

platform == <<kind, status, no, command, checkpoint, blocked, delivered>>
vars == <<platform, unsettled, asked, thread, agent>>

Attempts == 1 .. MaxAttempts
Content == Patches \union {TestPatch}
Calls == Patches \union {Probe}

NoThread ==
    [root |-> 0, open |-> {}, earlier |-> {}, applied |-> {}, replayed |-> {},
     gap |-> FALSE, done |-> FALSE, turn |-> 0]

NoCheckpoint == [lineage |-> 0, ws |-> {}, completed |-> {}]

Absent(pc) ==
    [pc |-> pc, base |-> NoCheckpoint, mem |-> NoThread, synced |-> TRUE, ws |-> {},
     completed |-> {}, todo |-> {}, got |-> {}, report |-> "none"]

Init ==
    /\ kind \in Kinds
    /\ status = "DISPATCHED" /\ no = 1
    /\ command = NoCheckpoint /\ checkpoint = NoCheckpoint
    /\ blocked = FALSE /\ unsettled = {} /\ delivered = {} /\ asked = {}
    /\ thread = NoThread
    /\ agent = [n \in Attempts |-> Absent("none")]

Snapshot == kind = "snapshot"

(* Slip: the lease check compares the run only. *)
HoldsLeaseOfRun(n) == status = "RUNNING"

(* The lease check of every request of a worker. *)
HoldsLease(n) == n = no /\ status = "RUNNING"

At(n, pc) == agent[n].pc = pc

(***************************************************************************)
(* Recovery by the control plane                                           *)
(***************************************************************************)

CommandCheckpoint(action) == IF action = "RESUME" THEN checkpoint ELSE NoCheckpoint

(* applyPolicy: park while usage is unknown, else follow the table. *)
Recover(code) ==
    LET action == decidePolicy(code, no, MaxAttempts)
        next == action \in {"RESUME", "RESTART_ATTEMPT"}
    IN  /\ IF Snapshot /\ unsettled # {}
           THEN status' = "INTERRUPTED" /\ UNCHANGED <<no, command>>
           ELSE /\ status' = IF next THEN "DISPATCHED"
                             ELSE IF action = "ABORT" THEN "FAILED" ELSE "INTERRUPTED"
                /\ no' = IF next THEN no + 1 ELSE no
                /\ command' = IF next THEN CommandCheckpoint(action) ELSE command
        /\ UNCHANGED <<kind, checkpoint, blocked, delivered>>

LeaseExpires ==
    /\ status = "RUNNING"
    /\ Recover("WORKER_LOST")
    /\ UNCHANGED <<unsettled, asked, thread, agent>>

(* A user resumes a parked snapshot run. *)
Resume ==
    /\ status = "INTERRUPTED" /\ Snapshot
    /\ unsettled = {} /\ no < MaxAttempts /\ ~blocked
    /\ status' = "DISPATCHED" /\ no' = no + 1 /\ command' = checkpoint
    /\ UNCHANGED <<kind, checkpoint, blocked, delivered, unsettled, asked, thread, agent>>

(***************************************************************************)
(* The worker of attempt n                                                 *)
(***************************************************************************)

(* What is left of an attempt that is over but for its report. *)
Over(ws, report) == [Absent("report") EXCEPT !.ws = ws, !.report = report]

(* An exception leaves the graph: a fixture attempt is reported FAILED with *)
(* the code the exception is classified as, a snapshot attempt is paused.   *)
Raised(code) == Over({}, IF Snapshot THEN "PAUSE" ELSE code)

Live == {n \in Attempts : agent[n].pc \notin {"none", "gone"}}

Claim(n) ==
    /\ Cardinality(Live) < MaxLive
    /\ n = no /\ status = "DISPATCHED" /\ At(n, "none")
    /\ status' = "RUNNING"
    /\ agent' = [agent EXCEPT ![n].pc = "prepare",
           ![n].base = IF command = NoCheckpoint THEN [NoCheckpoint EXCEPT !.lineage = n]
                                                 ELSE command]
    /\ UNCHANGED <<kind, no, command, checkpoint, blocked, delivered, unsettled, asked, thread>>

Resumes(n) == agent[n].base.lineage # n

(* Slip: the cached calls are loaded, the patch is not applied. *)
RestoredWithoutPatch(a) ==
    [a EXCEPT !.completed = a.base.completed,
              !.base = [NoCheckpoint EXCEPT !.lineage = a.base.lineage]]

(* A fresh sandbox gets the patch and the cached calls of the checkpoint. *)
Restored(a) ==
    [a EXCEPT !.ws = a.base.ws, !.completed = a.base.completed,
              !.base = [NoCheckpoint EXCEPT !.lineage = a.base.lineage]]

(* Environment, sandbox, baseline, restoring the checkpoint, and get_state: *)
(* a thread to resume is read with the calls it leaves unanswered.  The     *)
(* phase reports of a snapshot attempt need the lease.                      *)
Prepare(n) ==
    /\ At(n, "prepare")
    /\ \/ /\ Snapshot => HoldsLease(n)
          /\ agent' = [agent EXCEPT ![n] =
                 IF Resumes(n) /\ thread.root # 0
                 THEN [Restored(@) EXCEPT !.pc = "replay", !.mem = thread, !.todo = thread.open]
                 ELSE [Restored(@) EXCEPT !.pc = "begin"]]
       \/ \E code \in {"SANDBOX_START_FAILED", "TOOL_EXEC_ERROR"} :
              agent' = [agent EXCEPT ![n] = Raised(code)]
    /\ UNCHANGED <<platform, unsettled, asked, thread>>

(* The baseline of a snapshot does not fail as the user said it would. *)
BaselineRefused(n) ==
    /\ At(n, "prepare") /\ Snapshot /\ HoldsLease(n)
    /\ status' = "INTERRUPTED" /\ blocked' = TRUE
    /\ agent' = [agent EXCEPT ![n] = Absent("gone")]
    /\ UNCHANGED <<kind, no, command, checkpoint, delivered, unsettled, asked, thread>>

(* initial_state() is the input of the graph: its messages are added to     *)
(* those the thread already holds, the other fields are replaced.           *)
Begin(n) ==
    /\ At(n, "begin")
    /\ thread' = [NoThread EXCEPT !.root = n,
                      !.earlier = thread.earlier \union thread.applied,
                      !.gap = thread.gap \/ thread.open # {}]
    /\ agent' = [agent EXCEPT ![n].pc = "agent", ![n].mem = thread']
    /\ UNCHANGED <<platform, unsettled, asked>>

(* What a call can come to.  A patch that does not fit, or a git command    *)
(* that times out, is an error; one that is there is found by the reverse   *)
(* check.                                                                   *)
Outcome(a, c, outcome) ==
    \/ c = Probe /\ outcome \in {"answered", "crashed"}
    \/ c \in a.completed /\ outcome = "cached"
    \/ c \in Patches \ a.completed /\ outcome = "applied"
    \/ c \in Patches \ (a.completed \union a.ws) /\ outcome = "error"

(* Slip: the call is noted as completed before its outcome is known. *)
RecordEarly(a, c, outcome) ==
    [a EXCEPT !.todo = @ \ {c},
              !.ws = IF outcome = "applied" THEN @ \union {c} ELSE @,
              !.completed = @ \union ({c} \ {Probe}),
              !.got = IF outcome \in {"applied", "cached"} THEN @ \union {c} ELSE @]

(* Toolset._record around apply_patch. *)
Record(a, c, outcome) ==
    [a EXCEPT !.todo = @ \ {c},
              !.ws = IF outcome = "applied" THEN @ \union {c} ELSE @,
              !.completed = IF outcome = "applied" THEN @ \union {c} ELSE @,
              !.got = IF outcome \in {"applied", "cached"} THEN @ \union {c} ELSE @]

(* _dispatch_tool: an error is an answer, a crashed sandbox is not. *)
Dispatch(n, pc) ==
    \E c \in agent[n].todo, outcome \in {"answered", "crashed", "cached", "applied", "error"} :
        /\ Outcome(agent[n], c, outcome)
        /\ outcome = "crashed" => agent[n].synced
        /\ agent' = [agent EXCEPT ![n] =
               IF outcome = "crashed" THEN Raised("SANDBOX_CRASHED")
                                      ELSE [Record(@, c, outcome) EXCEPT !.pc = pc]]
        /\ UNCHANGED <<platform, unsettled, asked, thread>>

Replay(n) == At(n, "replay") /\ Dispatch(n, "replay")

(* Kept for WorkspaceHolds: the replayed calls that no checkpoint of the    *)
(* thread's own start holds.                                               *)
Unsaved(got) == IF checkpoint.lineage = thread.root THEN got \ checkpoint.ws ELSE got

(* update_state adds the answers and the feedback to the latest state of    *)
(* the thread, which need not be the one get_state read.                    *)
UpdateState(n) ==
    LET a == agent[n]
    IN  /\ At(n, "replay") /\ a.todo = {}
        /\ thread' = [thread EXCEPT
               !.gap = @ \/ ~ (thread.open \subseteq a.mem.open),
               !.open = {}, !.done = FALSE,
               !.applied = @ \union a.got,
               !.replayed = @ \union Unsaved(a.got)]
        /\ agent' = [agent EXCEPT ![n].pc = "invoke", ![n].got = {}]
        /\ UNCHANGED <<platform, unsettled, asked>>

(* invoke(None) goes on from the latest state of the thread. *)
Invoke(n) ==
    /\ At(n, "invoke")
    /\ agent' = [agent EXCEPT ![n].mem = thread, ![n].todo = thread.open,
                     ![n].pc = IF thread.open # {} THEN "tools"
                               ELSE IF thread.done THEN "verify" ELSE "agent"]
    /\ UNCHANGED <<platform, unsettled, asked, thread>>

(* Slip: the turn limit is not looked at. *)
TurnsNeverOut(a) == FALSE

TurnsOut(a) == a.mem.turn >= Turns

(* _agent_node up to the model call; a snapshot reserves its tokens first. *)
CallModel(n) ==
    /\ At(n, "agent")
    /\ \/ /\ ~ TurnsOut(agent[n])
          /\ Snapshot => HoldsLease(n)
          /\ agent' = [agent EXCEPT ![n].pc = "calling"]
          /\ unsettled' = IF Snapshot THEN unsettled \union {n} ELSE unsettled
       \/ /\ agent[n].synced
          /\ \E code \in (IF TurnsOut(agent[n]) THEN {"BUDGET_TURNS_EXCEEDED"}
                                                ELSE {"BUDGET_TIME_EXCEEDED"}) :
                 agent' = [agent EXCEPT ![n] = Raised(code)]
          /\ UNCHANGED unsettled
    /\ UNCHANGED <<platform, asked, thread>>

(* The call fails; the API refuses a history with unanswered calls.  The    *)
(* reservation of a snapshot stays.                                         *)
CallFails(n) ==
    /\ At(n, "calling") /\ agent[n].synced
    /\ agent' = [agent EXCEPT ![n] = Raised("MODEL_API_ERROR")]
    /\ UNCHANGED <<platform, unsettled, asked, thread>>

(* The usage is recorded and the attempt stops all the same: the answer to  *)
(* the settlement is lost, the tokens are used up, or the agent is stuck.   *)
CallStops(n) ==
    /\ At(n, "calling") /\ agent[n].synced /\ ~ agent[n].mem.gap
    /\ \E code \in {"BUDGET_TOKENS_EXCEEDED", "AGENT_STUCK"} :
           /\ code = "AGENT_STUCK" => agent[n].mem.turn + 1 >= MAX_STUCK_REPEATS
           /\ agent' = [agent EXCEPT ![n] = Raised(code)]
    /\ unsettled' = unsettled \ {n}
    /\ UNCHANGED <<platform, asked, thread>>

(* Slip: a resumed thread is written back with its old turn. *)
NextTurnLost(turn) == turn

NextTurn(turn) == turn + 1

(* What _agent_node returns: the model's message and the next turn. *)
WithCalls(mem, calls) ==
    [mem EXCEPT !.open = calls, !.done = (calls = {}), !.turn = NextTurn(mem.turn)]

(* The model answers with tool calls, or with none and is done. *)
Respond(n) ==
    /\ At(n, "calling") /\ agent[n].synced /\ ~ agent[n].mem.gap
    /\ \E calls \in SUBSET ((Patches \ asked) \union {Probe}) :
           /\ Cardinality(calls) <= MaxBatch
           /\ asked' = asked \union (calls \ {Probe})
           /\ agent' = [agent EXCEPT ![n] =
                  [@ EXCEPT !.pc = IF calls = {} THEN "verify" ELSE "tools",
                            !.mem = WithCalls(agent[n].mem, calls),
                            !.synced = FALSE, !.todo = calls, !.got = {}]]
    /\ unsettled' = unsettled \ {n}
    /\ UNCHANGED <<platform, thread>>

(* LangGraph writes the state of a node that ended while the next one runs; *)
(* nothing holds the writer to a lease.                                     *)
Persist(n) ==
    /\ ~ agent[n].synced
    /\ thread' = agent[n].mem
    /\ agent' = [agent EXCEPT ![n].synced = TRUE]
    /\ UNCHANGED <<platform, unsettled, asked>>

(* _tools_node: one call, then a checkpoint. *)
RunTool(n) == At(n, "tools") /\ Dispatch(n, "save")

CheckpointOf(a) == [lineage |-> a.base.lineage, ws |-> a.ws, completed |-> a.completed]

(* on_checkpoint, after a tool call and after a failed verification; the    *)
(* control plane refuses a worker without the lease.                        *)
OnCheckpoint(n) ==
    /\ At(n, "save")
    /\ IF HoldsLease(n)
       THEN /\ checkpoint' = CheckpointOf(agent[n])
            /\ agent' = [agent EXCEPT ![n] =
                   IF @.report # "none" THEN Over({}, @.report)
                   ELSE [@ EXCEPT !.pc = IF agent[n].todo # {} THEN "tools" ELSE "answer"]]
       ELSE /\ agent[n].synced
            /\ agent' = [agent EXCEPT ![n] = Raised("TOOL_EXEC_ERROR")]
            /\ UNCHANGED checkpoint
    /\ UNCHANGED <<kind, status, no, command, blocked, delivered, unsettled, asked, thread>>

WithAnswers(mem, got) ==
    [mem EXCEPT !.open = {}, !.applied = mem.applied \union got,
                !.replayed = mem.replayed \ got]

(* The tools node ends with the answers to all its calls. *)
ToolsAnswered(n) ==
    /\ At(n, "answer") /\ agent[n].synced
    /\ agent' = [agent EXCEPT ![n] =
           [@ EXCEPT !.pc = "agent", !.synced = FALSE, !.got = {},
                     !.mem = WithAnswers(agent[n].mem, agent[n].got)]]
    /\ UNCHANGED <<platform, unsettled, asked, thread>>

(***************************************************************************)
(* The verifier                                                            *)
(***************************************************************************)

(* V1, V2 and V6 judge the workspace before any test runs. *)
GateCodes(ws) ==
    IF ws = {} THEN {"VERIFY_PATCH_MALFORMED"}
    ELSE IF ws \intersect OutOfScope # {} THEN {"VERIFY_SCOPE_VIOLATION"}
    ELSE IF ws \intersect (TestEdits \union {TestPatch}) # {} THEN {"VERIFY_TEST_TAMPERING"}
    ELSE {}

(* How V3, V4 and V5 can fail (their three codes have the same rows in the  *)
(* policy table); a snapshot also checks that its tests are still there.    *)
CheckCodes ==
    {"VERIFY_TARGET_TESTS_FAILED"}
    \union (IF Snapshot THEN {"VERIFY_TEST_TAMPERING"} ELSE {})

(* What the checks leave behind: a snapshot is verified in a sandbox of its *)
(* own; a fixture in the agent's, where taking the test_patch back can fail. *)
Leftovers(ws) == IF Snapshot THEN {ws} ELSE {ws, ws \union {TestPatch}}

(* Slip: the reported patch is captured after the tests. *)
ReportedPatchAfter(a, left) == left

(* The reported patch is the one captured by V1. *)
ReportedPatch(a, left) == a.ws

Judged(a, code, left, passed) ==
    IF passed
    THEN Over(ReportedPatch(a, left), "SUCCEEDED")
    ELSE [Over(left, code) EXCEPT !.pc = "save", !.base = a.base, !.completed = a.completed]

Verify(n) ==
    LET a == agent[n]
    IN  /\ At(n, "verify") /\ a.synced
        /\ \/ \E code \in GateCodes(a.ws) :
                  agent' = [agent EXCEPT ![n] = Judged(a, code, a.ws, FALSE)]
           \/ /\ GateCodes(a.ws) = {}
              /\ \E code \in CheckCodes, left \in Leftovers(a.ws), passed \in BOOLEAN :
                     agent' = [agent EXCEPT ![n] = Judged(a, code, left, passed)]
           \/ agent' = [agent EXCEPT ![n] = Raised("SANDBOX_CRASHED")]
        /\ UNCHANGED <<platform, unsettled, asked, thread>>

(***************************************************************************)
(* The outcome, and the worker's end                                       *)
(***************************************************************************)

(* pause or complete_attempt; a worker without the lease is refused. *)
Report(n) ==
    LET a == agent[n]
    IN  /\ At(n, "report")
        /\ agent' = [agent EXCEPT ![n] = Absent("gone")]
        /\ \/ ~ HoldsLease(n) /\ UNCHANGED platform
           \/ /\ HoldsLease(n) /\ a.report = "PAUSE"
              /\ status' = "INTERRUPTED"
              /\ UNCHANGED <<kind, no, command, checkpoint, blocked, delivered>>
           \/ /\ HoldsLease(n) /\ a.report = "SUCCEEDED"
              /\ status' = "SUCCEEDED" /\ delivered' = a.ws
              /\ UNCHANGED <<kind, no, command, checkpoint, blocked>>
           \/ /\ HoldsLease(n) /\ a.report \notin {"PAUSE", "SUCCEEDED"}
              /\ Recover(a.report)
        /\ UNCHANGED <<unsettled, asked, thread>>

Crash(n) ==
    /\ n \in Live
    /\ agent' = [agent EXCEPT ![n] = Absent("gone")]
    /\ UNCHANGED <<platform, unsettled, asked, thread>>

Work(n) ==
    \/ Prepare(n) \/ BaselineRefused(n)
    \/ Begin(n) \/ Replay(n) \/ UpdateState(n) \/ Invoke(n)
    \/ CallModel(n) \/ CallFails(n) \/ CallStops(n) \/ Respond(n) \/ Persist(n)
    \/ RunTool(n) \/ OnCheckpoint(n) \/ ToolsAnswered(n)
    \/ Verify(n) \/ Report(n)

Next ==
    \/ LeaseExpires \/ Resume
    \/ \E n \in Attempts : Claim(n) \/ Work(n) \/ Crash(n)

(* The workers together do not stop while one has something to do: commands *)
(* are claimed (module Dispatch) and every call a worker makes has a        *)
(* timeout.  The lease of a dead worker lapses.                             *)
Fairness ==
    /\ WF_vars(\E n \in Attempts : Claim(n) \/ Work(n))
    /\ WF_vars(LeaseExpires /\ At(no, "gone"))

Spec == Init /\ [][Next]_vars /\ Fairness

(***************************************************************************)
(* Properties                                                              *)
(***************************************************************************)

Thread ==
    [root : 0 .. MaxAttempts, open : SUBSET Calls, earlier : SUBSET Patches,
     applied : SUBSET Patches, replayed : SUBSET Patches, gap : BOOLEAN, done : BOOLEAN, turn : 0 .. Turns]
Checkpoint ==
    [lineage : 0 .. MaxAttempts, ws : SUBSET Content, completed : SUBSET Patches]
Agent ==
    [pc : {"none", "prepare", "begin", "replay", "invoke", "agent", "calling",
           "tools", "save", "answer", "verify", "report", "gone"},
     base : Checkpoint, mem : Thread, synced : BOOLEAN, ws : SUBSET Content,
     completed : SUBSET Patches, todo : SUBSET Calls, got : SUBSET Patches,
     report : {"none", "PAUSE", "SUCCEEDED"} \union FailureCode]

(* The variables have their types; in particular the turn counter kept in   *)
(* the thread never passes the turn budget, however often the run resumes.  *)
TypeOK ==
    /\ kind \in Kinds
    /\ status \in {"DISPATCHED", "RUNNING", "INTERRUPTED", "SUCCEEDED", "FAILED"}
    /\ no \in Attempts
    /\ command \in Checkpoint /\ checkpoint \in Checkpoint
    /\ blocked \in BOOLEAN /\ unsettled \subseteq Attempts
    /\ delivered \subseteq Content /\ asked \subseteq Patches
    /\ thread \in Thread
    /\ agent \in [Attempts -> Agent]

Working == {"begin", "replay", "invoke", "agent", "calling", "tools", "save", "answer", "verify"}

Histories == {"agent", "calling", "tools", "save", "answer", "verify"}

(* No patch applied since the agent's last start is lost behind its back.   *)
(* A call that an attempt would answer from its cache ("[cached]") has its  *)
(* patch in the workspace the attempt works on, and in the checkpoint both  *)
(* come from.  For the owner of the run, after any crashes, resumes and     *)
(* late writes to the thread, what the tools node answered "applied" after  *)
(* the last initial messages of the history is in the workspace, as long as *)
(* thread and checkpoint come from the same start of the agent.  Two kinds  *)
(* of answers are not covered, since the code does not keep what they say:  *)
(* those a replay gave before a checkpoint of that start held their patches *)
(* (PatchesKept), and those of earlier starts, which stay in the history    *)
(* that a restarted agent sees while its workspace is fresh (Begin).        *)
WorkspaceHolds ==
    /\ checkpoint.completed \subseteq checkpoint.ws
    /\ \A n \in Attempts :
           LET a == agent[n]
           IN  /\ a.pc \in Working => a.completed \subseteq a.ws
               /\ (/\ n = no /\ status = "RUNNING" /\ a.pc \in Histories
                   /\ a.mem.root = a.base.lineage)
                  => a.mem.applied \ a.mem.replayed \subseteq a.ws

(* The newest checkpoint never loses a patch to an older worker or to a     *)
(* resume: only a checkpoint of a later start replaces it.                  *)
ProgressKept ==
    [][checkpoint'.lineage = checkpoint.lineage
           => checkpoint.ws \subseteq checkpoint'.ws]_vars

(* A patch that reaches the platform as the result of a run is not empty    *)
(* and holds nothing that the gates refuse, even when an earlier attempt    *)
(* left the benchmark's tests in its workspace and its checkpoint.          *)
SuccessIsClean ==
    status = "SUCCEEDED" =>
        /\ delivered # {}
        /\ delivered \intersect (OutOfScope \union TestEdits \union {TestPatch}) = {}

(* However the agent, the model and the workers behave, the run comes to    *)
(* rest: turns bound an attempt and attempts bound the recovery.            *)
RunRests == <>[](status \in {"INTERRUPTED", "SUCCEEDED", "FAILED"})

(* graph.py:291: calls not completed before the interruption are really     *)
(* replayed in the new sandbox.  Stated as what the resumed agent relies    *)
(* on: what its history says is applied, after its last initial messages,   *)
(* is in its workspace.                                                     *)
PatchesKept ==
    \A n \in Attempts :
        LET a == agent[n]
        IN  (/\ n = no /\ status = "RUNNING" /\ a.pc \in Histories
             /\ a.mem.root = a.base.lineage)
            => a.mem.applied \subseteq a.ws
=============================================================================
