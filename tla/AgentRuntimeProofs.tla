------------------------- MODULE AgentRuntimeProofs -------------------------
(***************************************************************************)
(* The safety properties of AgentRuntime, for every number of attempts,    *)
(* turns, patches and workers alive.                                       *)
(*                                                                         *)
(* The argument is about starts.  A start of the agent is the number of    *)
(* the attempt that began from nothing; thread and checkpoint carry the    *)
(* start they come from.  Only the owner of the lease moves the checkpoint *)
(* to another start, and then to its own, of which nobody else has a       *)
(* thread with answers after the initial messages of that start (answers   *)
(* from before them stay in the thread, and nothing is claimed of them).   *)
(* So a thread that a stray worker writes late belongs to a start whose    *)
(* checkpoint is gone for good, or says nothing about the time since that  *)
(* start that the checkpoint does not hold.                                *)
(***************************************************************************)
EXTENDS AgentRuntime, TLAPS

Clean(patch) ==
    /\ patch # {}
    /\ patch \intersect (OutOfScope \union TestEdits \union {TestPatch}) = {}

(* The owner began from nothing and has saved no checkpoint yet. *)
FreshUnsaved == agent[no].base.lineage = no /\ checkpoint.lineage # no

(* What a history says is applied since the given start, a workspace        *)
(* restored from a checkpoint of that start has.                            *)
Backed(root, patches) ==
    /\ root = checkpoint.lineage => patches \subseteq checkpoint.ws
    /\ root = no /\ FreshUnsaved => patches = {}

Claimed(root) == root # 0 => agent[root].pc # "none"

HistoryOK(t) == Claimed(t.root) /\ Backed(t.root, t.applied \ t.replayed)

CacheOK(c) == c.completed \subseteq c.ws

(* What the worker of an attempt holds. *)
WorkerOK(a) ==
    /\ a.pc = "none" => a = Absent("none")
    /\ a.pc = "prepare" => a.got = {}
    /\ a.pc = "calling" => a.mem.turn < Turns
    /\ a.report = "SUCCEEDED" => a.pc = "report" /\ Clean(a.ws)
    /\ CacheOK(a) /\ CacheOK(a.base) /\ a.got \subseteq a.ws
    /\ HistoryOK(a.mem)
    /\ a.pc = "answer" => Backed(a.mem.root, a.got)

(* The owner goes on from the newest checkpoint or from nothing. *)
OwnerOK(n, a) ==
    n = no /\ status = "RUNNING" =>
        /\ a.pc \in Working \union {"prepare"} => a.base.lineage \in {n, checkpoint.lineage}
        /\ a.base.lineage = checkpoint.lineage =>
               /\ a.pc = "prepare" => checkpoint.ws \subseteq a.base.ws
               /\ a.pc \in Working => checkpoint.ws \subseteq a.ws

PlatformOK ==
    /\ CacheOK(checkpoint) /\ CacheOK(command)
    /\ Claimed(checkpoint.lineage)
    /\ status = "DISPATCHED" => command \in {NoCheckpoint, checkpoint}
    /\ status = "SUCCEEDED" => Clean(delivered)

(* The inductive invariant. *)
AgentInv ==
    /\ TypeOK /\ PlatformOK /\ HistoryOK(thread)
    /\ \A n \in Attempts :
           /\ WorkerOK(agent[n]) /\ OwnerOK(n, agent[n])
           /\ n > no => agent[n].pc = "none"

-----------------------------------------------------------------------------
(* Records *)

Pcs == Working \union {"none", "prepare", "report", "gone"}

Reports == {"none", "PAUSE", "SUCCEEDED"} \union FailureCode

LEMMA Sizes ==
    /\ MaxAttempts \in Nat /\ 1 <= MaxAttempts /\ Turns \in Nat
    /\ OutOfScope \subseteq Patches /\ TestEdits \subseteq Patches
    /\ Probe \notin Patches /\ TestPatch \notin Patches
    /\ Patches \subseteq Content /\ Patches \subseteq Calls
BY RuntimeAssumption DEF Content, Calls

LEMMA NoRecords ==
    /\ NoThread \in Thread /\ NoThread.root = 0 /\ NoThread.applied = {} /\ NoThread.replayed = {}
    /\ NoThread.turn = 0 /\ NoThread.open = {}
    /\ NoCheckpoint \in Checkpoint /\ NoCheckpoint.lineage = 0 /\ NoCheckpoint.ws = {}
    /\ NoCheckpoint.completed = {}
<1>1. 0 \in 0..MaxAttempts /\ 0 \in 0..Turns
  BY Sizes
<1>2. ASSUME NEW l \in 0..MaxAttempts, NEW t \in 0..Turns, NEW e, e = {},
             NEW g \in BOOLEAN, NEW d \in BOOLEAN
      PROVE  /\ [root |-> l, open |-> e, earlier |-> e, applied |-> e, replayed |-> e,
                 gap |-> g, done |-> d, turn |-> t] \in Thread
             /\ [lineage |-> l, ws |-> e, completed |-> e] \in Checkpoint
  BY <1>2 DEF Thread, Checkpoint
<1>3. FALSE \in BOOLEAN
  OBVIOUS
<1>4. NoThread \in Thread /\ NoCheckpoint \in Checkpoint
  BY <1>1, <1>2, <1>3, Zenon DEF NoThread, NoCheckpoint
<1> QED
  BY <1>4 DEF NoThread, NoCheckpoint

LEMMA AbsentRecord ==
    ASSUME NEW pc \in Pcs
    PROVE  /\ Absent(pc) \in Agent /\ Absent(pc).pc = pc /\ Absent(pc).base = NoCheckpoint
           /\ Absent(pc).mem = NoThread /\ Absent(pc).ws = {} /\ Absent(pc).completed = {}
           /\ Absent(pc).got = {} /\ Absent(pc).report = "none" /\ Absent(pc).todo = {}
<1>1. ASSUME NEW b \in Checkpoint, NEW m \in Thread, NEW e, e = {}, NEW y \in BOOLEAN
      PROVE  [pc |-> pc, base |-> b, mem |-> m, synced |-> y, ws |-> e, completed |-> e,
              todo |-> e, got |-> e, report |-> "none"] \in Agent
  BY <1>1 DEF Agent, Pcs, Working
<1>2. TRUE \in BOOLEAN
  OBVIOUS
<1>3. Absent(pc) \in Agent
  BY <1>1, <1>2, NoRecords, Zenon DEF Absent
<1> QED
  BY <1>3 DEF Absent

LEMMA OverRecord ==
    ASSUME NEW w \in SUBSET Content, NEW report \in Reports
    PROVE  /\ Over(w, report) \in Agent /\ Over(w, report).pc = "report"
           /\ Over(w, report).base = NoCheckpoint /\ Over(w, report).mem = NoThread
           /\ Over(w, report).ws = w /\ Over(w, report).completed = {}
           /\ Over(w, report).got = {} /\ Over(w, report).report = report
           /\ Over(w, report).todo = {}
<1>1. "report" \in Pcs
  BY DEF Pcs
<1>2. PICK b \in Agent : /\ b = Absent("report") /\ b.pc = "report" /\ b.base = NoCheckpoint
                         /\ b.mem = NoThread /\ b.completed = {} /\ b.got = {} /\ b.todo = {}
  BY <1>1, AbsentRecord, Zenon
<1>3. Over(w, report) = [b EXCEPT !.ws = w, !.report = report]
  BY <1>2 DEF Over
<1> DEFINE a == [b EXCEPT !.ws = w, !.report = report]
<1>4. a \in Agent
  BY DEF Agent, Reports
<1>5. /\ a.pc = "report" /\ a.base = NoCheckpoint /\ a.mem = NoThread
      /\ a.ws = w /\ a.completed = {} /\ a.got = {} /\ a.report = report /\ a.todo = {}
  BY <1>2 DEF Agent
<1> HIDE DEF a
<1> QED
  BY <1>3, <1>4, <1>5 DEF a

(* A history of no start, or without answers, promises nothing. *)
LEMMA EmptyHistory ==
    ASSUME NEW t, t.applied = {}, Claimed(t.root)
    PROVE  HistoryOK(t)
BY DEF HistoryOK, Backed

(* A worker that is over, or dead, holds nothing that could go wrong but    *)
(* the patch it is about to report.                                         *)
LEMMA QuietWorker ==
    ASSUME NEW n \in Attempts, NEW a \in Agent, a.pc \in {"report", "gone"},
           a.base = NoCheckpoint, a.mem = NoThread, a.completed = {}, a.got = {},
           a.report = "SUCCEEDED" => a.pc = "report" /\ Clean(a.ws)
    PROVE  WorkerOK(a) /\ OwnerOK(n, a)
<1>1. HistoryOK(a.mem)
  BY NoRecords, EmptyHistory DEF Claimed
<1>2. CacheOK(a) /\ CacheOK(a.base)
  BY NoRecords DEF CacheOK
<1> QED
  BY <1>1, <1>2 DEF WorkerOK, OwnerOK, Working

-----------------------------------------------------------------------------
(* Steps *)

LEMMA InitInv == Init => AgentInv
<1> SUFFICES ASSUME Init PROVE AgentInv
  OBVIOUS
<1>1. "none" \in Pcs
  BY DEF Pcs
<1>2. PICK b \in Agent :
        /\ b = Absent("none") /\ b.pc = "none" /\ b.base = NoCheckpoint /\ b.mem = NoThread
        /\ b.completed = {} /\ b.got = {} /\ b.report = "none"
  BY <1>1, AbsentRecord, Zenon
<1>3. agent = [n \in Attempts |-> b]
  BY <1>2 DEF Init
<1>4. TypeOK
  <2>1. 1 \in Attempts
    BY Sizes DEF Attempts
  <2>2. agent \in [Attempts -> Agent]
    BY <1>3
  <2>3. blocked \in BOOLEAN
    BY DEF Init
  <2> QED
    BY <2>1, <2>2, <2>3, NoRecords DEF Init, TypeOK
<1>5. PlatformOK
  BY NoRecords DEF Init, PlatformOK, CacheOK, Claimed
<1>6. HistoryOK(thread)
  BY NoRecords, EmptyHistory DEF Init, Claimed
<1>7. ASSUME NEW n \in Attempts
      PROVE  WorkerOK(agent[n]) /\ OwnerOK(n, agent[n]) /\ agent[n].pc = "none"
  <2>1. agent[n] = b
    BY <1>3
  <2>2. HistoryOK(b.mem)
    BY <1>2, NoRecords, EmptyHistory DEF Claimed
  <2>3. CacheOK(b) /\ CacheOK(b.base)
    BY <1>2, NoRecords DEF CacheOK
  <2> QED
    BY <1>2, <2>1, <2>2, <2>3 DEF WorkerOK, OwnerOK, Init
<1> QED
  BY <1>4, <1>5, <1>6, <1>7 DEF AgentInv

(* What a history says stays true over a step of a worker. *)
LEMMA HistoriesStay ==
    ASSUME TypeOK, NEW n \in Attempts, NEW r \in Agent, agent' = [agent EXCEPT ![n] = r],
           agent[n].pc # "none" => r.pc # "none",
           r.base.lineage \in {agent[n].base.lineage, 0}, no' = no, checkpoint' = checkpoint
    PROVE  /\ FreshUnsaved' => FreshUnsaved
           /\ \A m \in Attempts : agent[m].pc # "none" => agent'[m].pc # "none"
<1>1. no \in Attempts /\ no # 0 /\ agent \in [Attempts -> Agent]
  BY Sizes DEF TypeOK, Attempts
<1>2. \A m \in Attempts : agent'[m] = IF m = n THEN r ELSE agent[m]
  BY <1>1
<1>3. FreshUnsaved' => FreshUnsaved
  BY <1>1, <1>2 DEF FreshUnsaved
<1> QED
  BY <1>2, <1>3

(* A step of the worker of attempt n that leaves the platform alone keeps   *)
(* the invariant if what the worker holds then, and the thread it may have  *)
(* written, are sound.                                                      *)
LEMMA WorkStep ==
    ASSUME AgentInv, NEW n \in Attempts, NEW r \in Agent, agent' = [agent EXCEPT ![n] = r],
           agent[n].pc # "none", r.pc # "none",
           r.base.lineage \in {agent[n].base.lineage, 0},
           UNCHANGED <<kind, status, no, command, checkpoint, blocked, delivered>>,
           unsettled' \subseteq Attempts, asked' \subseteq Patches,
           thread' \in Thread, HistoryOK(thread'), WorkerOK(r), OwnerOK(n, r)
    PROVE  AgentInv'
<1>1. TypeOK /\ no \in Attempts /\ agent \in [Attempts -> Agent] /\ PlatformOK
      /\ checkpoint \in Checkpoint
  BY DEF AgentInv, TypeOK
<1>2. \A m \in Attempts : agent'[m] = IF m = n THEN r ELSE agent[m]
  BY <1>1
<1>3. /\ FreshUnsaved' => FreshUnsaved
      /\ \A m \in Attempts : agent[m].pc # "none" => agent'[m].pc # "none"
  BY <1>1, HistoriesStay
<1>4. \A root \in 0..MaxAttempts : Claimed(root) => Claimed(root)'
  BY <1>3, Sizes DEF Claimed, Attempts
<1>5. \A root, S : Backed(root, S) => Backed(root, S)'
  BY <1>3 DEF Backed
<1>6. \A t \in Thread : HistoryOK(t) => HistoryOK(t)'
  BY <1>4, <1>5 DEF HistoryOK, Thread
<1>7. \A a \in Agent : WorkerOK(a) => WorkerOK(a)'
  BY <1>5, <1>6 DEF WorkerOK, Agent, CacheOK, Clean
<1>8. \A m \in Attempts : \A a \in Agent : OwnerOK(m, a) => OwnerOK(m, a)'
  BY DEF OwnerOK
<1>9. TypeOK'
  BY <1>1 DEF TypeOK
<1>10. PlatformOK'
  <2>1. Claimed(checkpoint.lineage)'
    BY <1>1, <1>4 DEF PlatformOK, Claimed, Checkpoint
  <2> QED
    BY <1>1, <2>1 DEF PlatformOK, CacheOK, Clean
<1>11. HistoryOK(thread)'
  BY <1>6 DEF HistoryOK, Claimed, Backed, FreshUnsaved
<1>12. ASSUME NEW m \in Attempts
       PROVE  /\ WorkerOK(agent[m])' /\ OwnerOK(m, agent[m])'
              /\ m > no' => agent'[m].pc = "none"
  <2>1. PICK a \in Agent : a = agent'[m] /\ WorkerOK(a) /\ OwnerOK(m, a)
    BY <1>1, <1>2 DEF AgentInv
  <2>2. WorkerOK(a)' /\ OwnerOK(m, a)'
    BY <1>7, <1>8, <2>1
  <2>3. m > no => m # n /\ agent[m].pc = "none"
    BY DEF AgentInv
  <2>4. (WorkerOK(agent[m]) /\ OwnerOK(m, agent[m]))'
    BY <2>1, <2>2 DEF WorkerOK, OwnerOK, CacheOK, HistoryOK, Claimed, Backed, FreshUnsaved, Clean
  <2> QED
    BY <1>2, <2>3, <2>4
<1> QED
  BY <1>9, <1>10, <1>11, <1>12 DEF AgentInv

(* The worker of an attempt stops, with or without something to report. *)
LEMMA QuietStep ==
    ASSUME AgentInv, NEW n \in Attempts, NEW r \in Agent, agent' = [agent EXCEPT ![n] = r],
           agent[n].pc # "none", r.pc \in {"report", "gone"}, r.base = NoCheckpoint,
           r.mem = NoThread, r.completed = {}, r.got = {},
           r.report = "SUCCEEDED" => r.pc = "report" /\ Clean(r.ws),
           UNCHANGED <<kind, status, no, command, checkpoint, blocked, delivered>>,
           unsettled' \subseteq Attempts, UNCHANGED <<asked, thread>>
    PROVE  AgentInv'
<1>1. WorkerOK(r) /\ OwnerOK(n, r)
  BY QuietWorker
<1>2. r.base.lineage \in {agent[n].base.lineage, 0} /\ r.pc # "none"
  BY NoRecords
<1>3. asked' \subseteq Patches /\ thread' \in Thread /\ HistoryOK(thread')
  BY DEF AgentInv, TypeOK
<1> QED
  BY <1>1, <1>2, <1>3, WorkStep

(* An exception leaves the graph. *)
LEMMA RaisedStep ==
    ASSUME AgentInv, NEW n \in Attempts, NEW code \in FailureCode,
           agent' = [agent EXCEPT ![n] = Raised(code)], agent[n].pc # "none",
           UNCHANGED <<kind, status, no, command, checkpoint, blocked, delivered>>,
           unsettled' \subseteq Attempts, UNCHANGED <<asked, thread>>
    PROVE  AgentInv'
<1>1. PICK report \in Reports : Raised(code) = Over({}, report) /\ report # "SUCCEEDED"
  BY DEF Raised, Reports, FailureCode, ResumableCode, RestartableCode, BudgetCode,
         ForbiddenPatchCode, HumanCode, MODEL_FAILURES
<1>2. {} \in SUBSET Content
  OBVIOUS
<1>3. PICK r \in Agent :
        /\ r = Over({}, report) /\ r.pc = "report" /\ r.base = NoCheckpoint
        /\ r.mem = NoThread /\ r.ws = {} /\ r.completed = {} /\ r.got = {}
        /\ r.report = report /\ r.todo = {}
  BY <1>2, OverRecord, Zenon
<1> QED
  BY <1>1, <1>3, QuietStep

LEMMA CrashInv ==
    ASSUME AgentInv, NEW n \in Attempts, Crash(n)
    PROVE  AgentInv'
<1>1. "gone" \in Pcs
  BY DEF Pcs
<1>2. PICK r \in Agent :
        /\ r = Absent("gone") /\ r.pc = "gone" /\ r.base = NoCheckpoint /\ r.mem = NoThread
        /\ r.completed = {} /\ r.got = {} /\ r.report = "none"
  BY <1>1, AbsentRecord, Zenon
<1>3. agent[n].pc # "none" /\ unsettled' \subseteq Attempts
  BY DEF Crash, Live, AgentInv, TypeOK
<1> QED
  BY <1>2, <1>3, QuietStep DEF Crash, platform

LEMMA PrepareInv ==
    ASSUME AgentInv, NEW n \in Attempts, Prepare(n)
    PROVE  AgentInv'
<1> DEFINE a == agent[n]
           b == [NoCheckpoint EXCEPT !.lineage = a.base.lineage]
<1>1. /\ UNCHANGED <<kind, status, no, command, checkpoint, blocked, delivered>>
      /\ UNCHANGED <<unsettled, asked, thread>> /\ a.pc = "prepare"
      /\ unsettled' \subseteq Attempts /\ asked' \subseteq Patches /\ a \in Agent
      /\ WorkerOK(a) /\ OwnerOK(n, a) /\ thread \in Thread /\ HistoryOK(thread)
  BY DEF Prepare, platform, At, AgentInv, TypeOK
<1>2. a.base \in Checkpoint /\ CacheOK(a.base) /\ a.got \subseteq a.ws /\ HistoryOK(a.mem)
  BY <1>1 DEF Agent, WorkerOK
<1>3. b \in Checkpoint /\ b.lineage = a.base.lineage /\ b.completed = {} /\ b.ws = {}
  <2>1. \A c \in Checkpoint : \A l \in 0..MaxAttempts :
          LET d == [c EXCEPT !.lineage = l]
          IN  d \in Checkpoint /\ d.lineage = l /\ d.completed = c.completed /\ d.ws = c.ws
    BY DEF Checkpoint
  <2>2. a.base.lineage \in 0..MaxAttempts
    BY <1>2 DEF Checkpoint
  <2> QED
    BY <2>1, <2>2, NoRecords
<1>4. ASSUME NEW r \in Agent, agent' = [agent EXCEPT ![n] = r], r.pc \in {"replay", "begin"},
             HistoryOK(r.mem), r.ws = a.base.ws, r.completed = a.base.completed, r.base = b,
             r.got = a.got, r.report = a.report
      PROVE  AgentInv'
  <2> HIDE DEF b
  <2>1. WorkerOK(r)
    BY <1>1, <1>2, <1>3, <1>4 DEF WorkerOK, CacheOK
  <2>2. OwnerOK(n, r)
    BY <1>1, <1>3, <1>4 DEF OwnerOK, Working
  <2> HIDE DEF a
  <2>3. agent[n].pc # "none" /\ r.pc # "none" /\ r.base.lineage \in {agent[n].base.lineage, 0}
    BY <1>1, <1>3, <1>4 DEF a
  <2> QED
    BY <1>1, <1>4, <2>1, <2>2, <2>3, WorkStep
<1>5. PICK q \in Agent :
        /\ q = Restored(a) /\ q.ws = a.base.ws /\ q.completed = a.base.completed /\ q.base = b
        /\ q.got = a.got /\ q.report = a.report /\ q.mem = a.mem
  <2> DEFINE s == [a EXCEPT !.ws = a.base.ws, !.completed = a.base.completed, !.base = b]
  <2>1. a.base.ws \in SUBSET Content /\ a.base.completed \in SUBSET Patches
    BY <1>2 DEF Checkpoint
  <2>2. Restored(a) = s
    BY DEF Restored
  <2> HIDE DEF b
  <2>3. s \in Agent
    BY <1>1, <1>3, <2>1 DEF Agent
  <2>4. /\ s.ws = a.base.ws /\ s.completed = a.base.completed /\ s.base = b
        /\ s.got = a.got /\ s.report = a.report /\ s.mem = a.mem
    BY <1>1 DEF Agent
  <2> HIDE DEF s
  <2> QED
    BY <2>2, <2>3, <2>4
<1> HIDE DEF b
<1>6. CASE agent' = [agent EXCEPT ![n] = [Restored(a) EXCEPT !.pc = "begin"]]
  <2> DEFINE s == [q EXCEPT !.pc = "begin"]
  <2>1. s \in Agent
    BY DEF Agent
  <2>2. /\ s.pc = "begin" /\ s.ws = a.base.ws /\ s.completed = a.base.completed /\ s.base = b
        /\ s.got = a.got /\ s.report = a.report /\ s.mem = a.mem
    BY <1>5 DEF Agent
  <2>3. agent' = [agent EXCEPT ![n] = s]
    BY <1>5, <1>6
  <2> HIDE DEF s, a
  <2> QED
    BY <1>2, <1>4, <2>1, <2>2, <2>3
<1>7. CASE agent' = [agent EXCEPT ![n] =
             [Restored(a) EXCEPT !.pc = "replay", !.mem = thread, !.todo = thread.open]]
  <2> DEFINE s == [q EXCEPT !.pc = "replay", !.mem = thread, !.todo = thread.open]
  <2>1. thread.open \in SUBSET Calls
    BY <1>1 DEF Thread
  <2>2. s \in Agent
    BY <1>1, <2>1 DEF Agent
  <2>3. /\ s.pc = "replay" /\ s.ws = a.base.ws /\ s.completed = a.base.completed /\ s.base = b
        /\ s.got = a.got /\ s.report = a.report /\ s.mem = thread
    BY <1>5 DEF Agent
  <2>4. agent' = [agent EXCEPT ![n] = s]
    BY <1>5, <1>7
  <2> HIDE DEF s, a
  <2> QED
    BY <1>1, <1>4, <2>2, <2>3, <2>4
<1>8. CASE \E code \in {"SANDBOX_START_FAILED", "TOOL_EXEC_ERROR"} :
              agent' = [agent EXCEPT ![n] = Raised(code)]
  <2>1. PICK code \in FailureCode : agent' = [agent EXCEPT ![n] = Raised(code)]
    BY <1>8 DEF FailureCode, ResumableCode, RestartableCode
  <2> QED
    BY <1>1, <2>1, RaisedStep
<1> QED
  BY <1>1, <1>6, <1>7, <1>8 DEF Prepare

(* A worker in the graph goes on with what it had. *)
LEMMA GoesOn ==
    ASSUME AgentInv, NEW n \in Attempts, NEW r \in Agent, agent' = [agent EXCEPT ![n] = r],
           agent[n].pc \in Working, r.pc \in Working, r.base = agent[n].base,
           agent[n].ws \subseteq r.ws, r.report # "SUCCEEDED", r.completed \subseteq r.ws,
           r.got \subseteq r.ws, HistoryOK(r.mem), r.pc = "calling" => r.mem.turn < Turns,
           r.pc = "answer" => Backed(r.mem.root, r.got),
           UNCHANGED <<kind, status, no, command, checkpoint, blocked, delivered>>,
           unsettled' \subseteq Attempts, asked' \subseteq Patches,
           thread' \in Thread, HistoryOK(thread')
    PROVE  AgentInv'
<1>1. WorkerOK(agent[n]) /\ OwnerOK(n, agent[n])
  BY DEF AgentInv
<1>2. agent[n].pc \notin {"none", "prepare"} /\ r.pc \notin {"none", "prepare"}
  BY DEF Working
<1>3. WorkerOK(r)
  BY <1>1, <1>2 DEF WorkerOK, CacheOK
<1>4. OwnerOK(n, r)
  BY <1>1, <1>2 DEF OwnerOK
<1>5. r.base.lineage \in {agent[n].base.lineage, 0}
  OBVIOUS
<1> QED
  BY <1>2, <1>3, <1>4, <1>5, WorkStep

(* What the invariant says of one worker in the graph. *)
LEMMA AtWork ==
    ASSUME AgentInv, NEW n \in Attempts, agent[n].pc \in Working
    PROVE  /\ agent[n] \in Agent /\ agent[n].pc # "none" /\ agent[n].report # "SUCCEEDED"
           /\ agent[n].completed \subseteq agent[n].ws /\ agent[n].got \subseteq agent[n].ws
           /\ HistoryOK(agent[n].mem) /\ agent[n].mem \in Thread
           /\ thread \in Thread /\ HistoryOK(thread)
           /\ unsettled \subseteq Attempts /\ asked \subseteq Patches
<1>1. WorkerOK(agent[n]) /\ agent[n] \in Agent
  BY DEF AgentInv, TypeOK
<1>2. agent[n].mem \in Thread
  BY <1>1 DEF Agent
<1> QED
  BY <1>1, <1>2 DEF AgentInv, TypeOK, WorkerOK, CacheOK, Working

LEMMA BeginInv ==
    ASSUME AgentInv, NEW n \in Attempts, Begin(n)
    PROVE  AgentInv'
<1> DEFINE a == agent[n]
           e == thread.earlier \union thread.applied
           g == thread.gap \/ thread.open # {}
<1>1. a.pc = "begin" /\ a.pc \in Working
  BY DEF Begin, At, Working
<1>2. /\ a \in Agent /\ a.report # "SUCCEEDED" /\ a.completed \subseteq a.ws
      /\ a.got \subseteq a.ws /\ thread \in Thread /\ unsettled \subseteq Attempts
      /\ asked \subseteq Patches
  BY <1>1, AtWork
<1>3. e \subseteq Patches /\ g \in BOOLEAN
  <2>1. thread.earlier \subseteq Patches /\ thread.applied \subseteq Patches
    BY <1>2 DEF Thread
  <2> QED
    BY <2>1
<1>4. PICK t \in Thread : t = thread' /\ t.root = n /\ t.applied = {}
  <2>1. thread' = [NoThread EXCEPT !.root = n, !.earlier = e, !.gap = g]
    BY DEF Begin
  <2> HIDE DEF e, g
  <2>2. n \in 0..MaxAttempts
    BY Sizes DEF Attempts
  <2>3. \A o \in Thread :
          /\ [o EXCEPT !.root = n, !.earlier = e, !.gap = g] \in Thread
          /\ [o EXCEPT !.root = n, !.earlier = e, !.gap = g].root = n
          /\ [o EXCEPT !.root = n, !.earlier = e, !.gap = g].applied = o.applied
    BY <1>3, <2>2 DEF Thread
  <2> QED
    BY <2>1, <2>3, NoRecords
<1>5. HistoryOK(t)
  BY <1>1, <1>4, EmptyHistory DEF Claimed
<1> DEFINE s == [a EXCEPT !.pc = "agent", !.mem = t]
<1>6. agent' = [agent EXCEPT ![n] = s]
  BY <1>4 DEF Begin
<1>7. s \in Agent
  BY <1>2 DEF Agent
<1>8. /\ s.pc = "agent" /\ s.mem = t /\ s.base = a.base /\ s.ws = a.ws /\ s.got = a.got
      /\ s.completed = a.completed /\ s.report = a.report
  BY <1>2 DEF Agent
<1>9. PICK r \in Agent : r = s
  BY <1>7
<1> HIDE DEF s, a
<1>10. r.pc \in Working /\ r.pc # "calling" /\ r.pc # "answer"
  BY <1>8, <1>9 DEF Working
<1>11. /\ UNCHANGED <<kind, status, no, command, checkpoint, blocked, delivered>>
       /\ unsettled' \subseteq Attempts /\ asked' \subseteq Patches
  BY <1>2 DEF Begin, platform
<1>12. thread' \in Thread /\ HistoryOK(thread') /\ agent' = [agent EXCEPT ![n] = r]
  BY <1>4, <1>5, <1>6, <1>9
<1>13. /\ agent[n].pc \in Working /\ r.base = agent[n].base /\ agent[n].ws \subseteq r.ws
       /\ r.report # "SUCCEEDED" /\ r.completed \subseteq r.ws /\ r.got \subseteq r.ws
       /\ HistoryOK(r.mem)
  BY <1>1, <1>2, <1>5, <1>8, <1>9 DEF a
<1> QED
  BY <1>10, <1>11, <1>12, <1>13, GoesOn

LEMMA DispatchInv ==
    ASSUME AgentInv, NEW n \in Attempts, NEW pc \in {"replay", "save"},
           agent[n].pc \in Working, Dispatch(n, pc)
    PROVE  AgentInv'
<1> DEFINE a == agent[n]
<1>1. /\ a \in Agent /\ a.pc # "none" /\ a.report # "SUCCEEDED" /\ a.completed \subseteq a.ws
      /\ a.got \subseteq a.ws /\ HistoryOK(a.mem) /\ a.mem \in Thread /\ HistoryOK(thread)
      /\ thread \in Thread /\ unsettled \subseteq Attempts /\ asked \subseteq Patches
  BY AtWork
<1>2. PICK c \in a.todo, outcome \in {"answered", "crashed", "cached", "applied", "error"} :
        /\ Outcome(a, c, outcome)
        /\ agent' = [agent EXCEPT ![n] = IF outcome = "crashed" THEN Raised("SANDBOX_CRASHED")
                                        ELSE [Record(a, c, outcome) EXCEPT !.pc = pc]]
        /\ UNCHANGED <<platform, unsettled, asked, thread>>
  BY DEF Dispatch
<1>3. UNCHANGED <<kind, status, no, command, checkpoint, blocked, delivered>>
      /\ UNCHANGED <<unsettled, asked, thread>>
  BY <1>2 DEF platform
<1>4. CASE outcome = "crashed"
  <2>1. "SANDBOX_CRASHED" \in FailureCode
    BY DEF FailureCode, ResumableCode
  <2>2. agent' = [agent EXCEPT ![n] = Raised("SANDBOX_CRASHED")]
    BY <1>2, <1>4
  <2> QED
    BY <1>1, <1>3, <2>1, <2>2, RaisedStep
<1>5. CASE outcome # "crashed"
  <2> DEFINE w == IF outcome = "applied" THEN a.ws \union {c} ELSE a.ws
             k == IF outcome = "applied" THEN a.completed \union {c} ELSE a.completed
             g == IF outcome \in {"applied", "cached"} THEN a.got \union {c} ELSE a.got
             d == a.todo \ {c}
             s == [a EXCEPT !.todo = d, !.ws = w, !.completed = k, !.got = g, !.pc = pc]
  <2>1. a.ws \subseteq Content /\ a.completed \subseteq Patches /\ a.got \subseteq Patches
        /\ a.todo \subseteq Calls
    BY <1>1 DEF Agent
  <2>2. outcome = "applied" => c \in Patches
    BY <1>2, Sizes DEF Outcome
  <2>3. outcome = "cached" => c \in a.completed
    BY <1>2 DEF Outcome
  <2>4. w \in SUBSET Content /\ k \in SUBSET Patches /\ g \in SUBSET Patches /\ d \in SUBSET Calls
    BY <2>1, <2>2, <2>3, Sizes
  <2>5. k \subseteq w /\ g \subseteq w /\ a.ws \subseteq w
    BY <1>1, <2>3
  <2>6. [Record(a, c, outcome) EXCEPT !.pc = pc] = s
    BY <1>1 DEF Record, Agent
  <2> HIDE DEF w, k, g, d
  <2>7. s \in Agent
    BY <1>1, <2>4 DEF Agent
  <2>8. /\ s.pc = pc /\ s.mem = a.mem /\ s.base = a.base /\ s.ws = w /\ s.got = g
        /\ s.completed = k /\ s.report = a.report
    BY <1>1 DEF Agent
  <2>9. PICK r \in Agent : r = s
    BY <2>7
  <2> HIDE DEF s
  <2>10. r.pc \in Working /\ r.pc # "calling" /\ r.pc # "answer"
    BY <2>8, <2>9 DEF Working
  <2>11. agent' = [agent EXCEPT ![n] = r]
    BY <1>2, <1>5, <2>6, <2>9
  <2> HIDE DEF a
  <2> QED
    BY <1>1, <1>3, <2>5, <2>8, <2>9, <2>10, <2>11, GoesOn DEF a
<1> QED
  BY <1>4, <1>5

(* The answers of a replay promise only what a checkpoint of the thread's   *)
(* own start holds.                                                         *)
LEMMA UpdateStateInv ==
    ASSUME AgentInv, NEW n \in Attempts, UpdateState(n)
    PROVE  AgentInv'
<1> DEFINE a == agent[n]
           g == thread.gap \/ ~ (thread.open \subseteq a.mem.open)
           ap == thread.applied \union a.got
           rp == thread.replayed \union Unsaved(a.got)
<1>1. a.pc = "replay" /\ a.pc \in Working
  BY DEF UpdateState, At, Working
<1>2. /\ a \in Agent /\ a.pc # "none" /\ a.report # "SUCCEEDED" /\ a.completed \subseteq a.ws
      /\ HistoryOK(a.mem) /\ a.mem \in Thread /\ HistoryOK(thread)
      /\ thread \in Thread /\ unsettled \subseteq Attempts /\ asked \subseteq Patches
  BY <1>1, AtWork
<1>3. /\ UNCHANGED <<kind, status, no, command, checkpoint, blocked, delivered>>
      /\ unsettled' \subseteq Attempts /\ asked' \subseteq Patches
  BY <1>2 DEF UpdateState, platform
<1>4. PICK t \in Thread : t = thread' /\ t.root = thread.root /\ t.applied = ap /\ t.replayed = rp
  <2>1. thread' = [thread EXCEPT !.gap = g, !.open = {}, !.done = FALSE, !.applied = ap,
                                 !.replayed = rp]
    BY <1>2 DEF UpdateState, Thread
  <2>2. g \in BOOLEAN
    OBVIOUS
  <2>3. thread.applied \subseteq Patches /\ thread.replayed \subseteq Patches
        /\ a.got \subseteq Patches /\ Unsaved(a.got) \subseteq a.got
    BY <1>2 DEF Thread, Agent, Unsaved
  <2>4. ap \in SUBSET Patches /\ rp \in SUBSET Patches /\ {} \in SUBSET Calls /\ FALSE \in BOOLEAN
    BY <2>3
  <2> HIDE DEF g, ap, rp
  <2> DEFINE s == [thread EXCEPT !.gap = g, !.open = {}, !.done = FALSE, !.applied = ap,
                                 !.replayed = rp]
  <2>5. s \in Thread
    BY <1>2, <2>2, <2>4 DEF Thread
  <2>6. s.root = thread.root /\ s.applied = ap /\ s.replayed = rp
    BY <1>2 DEF Thread
  <2> HIDE DEF s
  <2> QED
    BY <2>1, <2>5, <2>6 DEF s
<1>5. HistoryOK(t)
  <2>1. Claimed(t.root) /\ Backed(thread.root, thread.applied \ thread.replayed)
    BY <1>2, <1>4 DEF HistoryOK
  <2>2. ap \ rp \subseteq (thread.applied \ thread.replayed) \union (a.got \ Unsaved(a.got))
    OBVIOUS
  <2>3. a.got \ Unsaved(a.got) \subseteq
            IF checkpoint.lineage = thread.root THEN checkpoint.ws ELSE {}
    BY DEF Unsaved
  <2>4. Backed(t.root, ap \ rp)
    <3> HIDE DEF ap, rp
    <3>1. CASE thread.root = checkpoint.lineage
      <4>1. ap \ rp \subseteq checkpoint.ws
        BY <2>1, <2>2, <2>3, <3>1 DEF Backed
      <4>2. thread.root = no => ~ FreshUnsaved
        BY <3>1 DEF FreshUnsaved
      <4> QED
        BY <1>4, <4>1, <4>2 DEF Backed
    <3>2. CASE thread.root # checkpoint.lineage
      BY <1>4, <2>1, <2>2, <2>3, <3>2 DEF Backed
    <3> QED
      BY <3>1, <3>2
  <2> QED
    BY <1>4, <2>1, <2>4 DEF HistoryOK
<1> DEFINE s == [a EXCEPT !.pc = "invoke", !.got = {}]
<1>6. agent' = [agent EXCEPT ![n] = s]
  BY DEF UpdateState
<1>7. s \in Agent
  BY <1>2 DEF Agent
<1>8. /\ s.pc = "invoke" /\ s.mem = a.mem /\ s.base = a.base /\ s.ws = a.ws /\ s.got = {}
      /\ s.completed = a.completed /\ s.report = a.report
  BY <1>2 DEF Agent
<1>9. PICK r \in Agent : r = s
  BY <1>7
<1> HIDE DEF s
<1>10. r.pc \in Working /\ r.pc # "calling" /\ r.pc # "answer"
  BY <1>8, <1>9 DEF Working
<1>11. thread' \in Thread /\ HistoryOK(thread') /\ agent' = [agent EXCEPT ![n] = r]
  BY <1>4, <1>5, <1>6, <1>9
<1>12. /\ agent[n].pc \in Working /\ r.base = agent[n].base /\ agent[n].ws \subseteq r.ws
       /\ r.report # "SUCCEEDED" /\ r.completed \subseteq r.ws /\ r.got \subseteq r.ws
       /\ HistoryOK(r.mem)
  BY <1>1, <1>2, <1>8, <1>9
<1> QED
  BY <1>3, <1>10, <1>11, <1>12, GoesOn

LEMMA InvokeInv ==
    ASSUME AgentInv, NEW n \in Attempts, Invoke(n)
    PROVE  AgentInv'
<1> DEFINE a == agent[n]
<1>1. a.pc = "invoke" /\ a.pc \in Working
  BY DEF Invoke, At, Working
<1>2. /\ a \in Agent /\ a.pc # "none" /\ a.report # "SUCCEEDED" /\ a.completed \subseteq a.ws
      /\ a.got \subseteq a.ws /\ HistoryOK(thread)
      /\ thread \in Thread /\ unsettled \subseteq Attempts /\ asked \subseteq Patches
  BY <1>1, AtWork
<1>3. /\ UNCHANGED <<kind, status, no, command, checkpoint, blocked, delivered>>
      /\ unsettled' \subseteq Attempts /\ asked' \subseteq Patches
      /\ thread' \in Thread /\ HistoryOK(thread')
  BY <1>2 DEF Invoke, platform
<1>4. PICK pc \in {"tools", "verify", "agent"} :
        agent' = [agent EXCEPT ![n] = [a EXCEPT !.mem = thread, !.todo = thread.open, !.pc = pc]]
  BY DEF Invoke
<1> DEFINE s == [a EXCEPT !.mem = thread, !.todo = thread.open, !.pc = pc]
<1>5. thread.open \in SUBSET Calls
  BY <1>2 DEF Thread
<1>6. s \in Agent
  BY <1>2, <1>5 DEF Agent
<1>7. /\ s.pc = pc /\ s.mem = thread /\ s.base = a.base /\ s.ws = a.ws /\ s.got = a.got
      /\ s.completed = a.completed /\ s.report = a.report
  BY <1>2 DEF Agent
<1>8. PICK r \in Agent : r = s
  BY <1>6
<1> HIDE DEF s
<1>9. r.pc \in Working /\ r.pc # "calling" /\ r.pc # "answer"
  BY <1>7, <1>8 DEF Working
<1>10. agent' = [agent EXCEPT ![n] = r]
  BY <1>4, <1>8 DEF s
<1>11. /\ agent[n].pc \in Working /\ r.base = agent[n].base /\ agent[n].ws \subseteq r.ws
       /\ r.report # "SUCCEEDED" /\ r.completed \subseteq r.ws /\ r.got \subseteq r.ws
       /\ HistoryOK(r.mem)
  BY <1>1, <1>2, <1>7, <1>8
<1> QED
  BY <1>3, <1>9, <1>10, <1>11, GoesOn

LEMMA CallModelInv ==
    ASSUME AgentInv, NEW n \in Attempts, CallModel(n)
    PROVE  AgentInv'
<1> DEFINE a == agent[n]
<1>1. a.pc = "agent" /\ a.pc \in Working
  BY DEF CallModel, At, Working
<1>2. /\ a \in Agent /\ a.pc # "none" /\ a.report # "SUCCEEDED" /\ a.completed \subseteq a.ws
      /\ a.got \subseteq a.ws /\ HistoryOK(a.mem) /\ a.mem \in Thread /\ HistoryOK(thread)
      /\ thread \in Thread /\ unsettled \subseteq Attempts /\ asked \subseteq Patches
  BY <1>1, AtWork
<1>3. /\ UNCHANGED <<kind, status, no, command, checkpoint, blocked, delivered>>
      /\ unsettled' \subseteq Attempts /\ asked' \subseteq Patches /\ UNCHANGED <<asked, thread>>
      /\ thread' \in Thread /\ HistoryOK(thread')
  BY <1>2 DEF CallModel, platform
<1>4. CASE ~ TurnsOut(a) /\ agent' = [agent EXCEPT ![n].pc = "calling"]
  <2> DEFINE s == [a EXCEPT !.pc = "calling"]
  <2>1. s \in Agent
    BY <1>2 DEF Agent
  <2>2. /\ s.pc = "calling" /\ s.mem = a.mem /\ s.base = a.base /\ s.ws = a.ws /\ s.got = a.got
        /\ s.completed = a.completed /\ s.report = a.report
    BY <1>2 DEF Agent
  <2>3. agent' = [agent EXCEPT ![n] = s]
    BY <1>4
  <2>4. a.mem.turn < Turns
    <3>1. a.mem.turn \in 0..Turns
      BY <1>2 DEF Thread
    <3> QED
      BY <1>4, <3>1, Sizes DEF TurnsOut
  <2>5. PICK r \in Agent : r = s
    BY <2>1
  <2> HIDE DEF s
  <2>6. /\ agent[n].pc \in Working /\ r.base = agent[n].base /\ agent[n].ws \subseteq r.ws
        /\ r.report # "SUCCEEDED" /\ r.completed \subseteq r.ws /\ r.got \subseteq r.ws
        /\ HistoryOK(r.mem) /\ r.mem.turn < Turns /\ r.pc # "answer" /\ r.pc \in Working
        /\ agent' = [agent EXCEPT ![n] = r]
    BY <1>1, <1>2, <2>2, <2>3, <2>4, <2>5 DEF Working
  <2> QED
    BY <1>3, <2>6, GoesOn
<1>5. CASE \E code \in (IF TurnsOut(a) THEN {"BUDGET_TURNS_EXCEEDED"}
                                       ELSE {"BUDGET_TIME_EXCEEDED"}) :
               agent' = [agent EXCEPT ![n] = Raised(code)]
  <2>1. PICK code \in FailureCode : agent' = [agent EXCEPT ![n] = Raised(code)]
    BY <1>5 DEF FailureCode, BudgetCode
  <2> QED
    BY <1>2, <1>3, <2>1, RaisedStep
<1> QED
  BY <1>4, <1>5 DEF CallModel

LEMMA CallEndsInv ==
    ASSUME AgentInv, NEW n \in Attempts, CallFails(n) \/ CallStops(n)
    PROVE  AgentInv'
<1>1. agent[n].pc = "calling" /\ agent[n].pc \in Working
  BY DEF CallFails, CallStops, At, Working
<1>2. agent[n].pc # "none" /\ unsettled \subseteq Attempts
  BY <1>1, AtWork
<1>3. /\ UNCHANGED <<kind, status, no, command, checkpoint, blocked, delivered>>
      /\ unsettled' \subseteq Attempts /\ UNCHANGED <<asked, thread>>
  BY <1>2 DEF CallFails, CallStops, platform
<1>4. PICK code \in FailureCode : agent' = [agent EXCEPT ![n] = Raised(code)]
  BY DEF CallFails, CallStops, FailureCode, BudgetCode, RestartableCode, ResumableCode,
         MODEL_FAILURES
<1> QED
  BY <1>2, <1>3, <1>4, RaisedStep

(* The turn counter stays in the budget: a call is only made below it. *)
LEMMA RespondInv ==
    ASSUME AgentInv, NEW n \in Attempts, Respond(n)
    PROVE  AgentInv'
<1> DEFINE a == agent[n]
<1>1. a.pc = "calling" /\ a.pc \in Working
  BY DEF Respond, At, Working
<1>2. /\ a \in Agent /\ a.pc # "none" /\ a.report # "SUCCEEDED" /\ a.completed \subseteq a.ws
      /\ a.got \subseteq a.ws /\ HistoryOK(a.mem) /\ a.mem \in Thread /\ HistoryOK(thread)
      /\ thread \in Thread /\ unsettled \subseteq Attempts /\ asked \subseteq Patches
  BY <1>1, AtWork
<1>3. PICK calls \in SUBSET ((Patches \ asked) \union {Probe}) :
        /\ asked' = asked \union (calls \ {Probe})
        /\ agent' = [agent EXCEPT ![n] =
               [a EXCEPT !.pc = IF calls = {} THEN "verify" ELSE "tools",
                         !.mem = WithCalls(a.mem, calls),
                         !.synced = FALSE, !.todo = calls, !.got = {}]]
  BY DEF Respond
<1>4. /\ UNCHANGED <<kind, status, no, command, checkpoint, blocked, delivered>>
      /\ unsettled' \subseteq Attempts /\ asked' \subseteq Patches
      /\ thread' \in Thread /\ HistoryOK(thread')
  BY <1>2, <1>3 DEF Respond, platform
<1>5. a.mem.turn + 1 \in 0..Turns
  <2>1. a.mem.turn < Turns
    BY <1>1 DEF AgentInv, WorkerOK
  <2>2. a.mem.turn \in 0..Turns
    BY <1>2 DEF Thread
  <2> QED
    BY <2>1, <2>2, Sizes
<1> DEFINE d == (calls = {})
           u == a.mem.turn + 1
           m == [a.mem EXCEPT !.open = calls, !.done = d, !.turn = u]
           pc == IF calls = {} THEN "verify" ELSE "tools"
           s == [a EXCEPT !.pc = pc, !.mem = m, !.synced = FALSE, !.todo = calls, !.got = {}]
<1>6. d \in BOOLEAN /\ calls \in SUBSET Calls /\ u \in 0..Turns
  BY <1>5 DEF Calls
<1>7. agent' = [agent EXCEPT ![n] = s]
  BY <1>3 DEF NextTurn, WithCalls
<1> HIDE DEF d, u
<1>8. /\ m \in Thread /\ m.root = a.mem.root /\ m.applied = a.mem.applied
      /\ m.replayed = a.mem.replayed
  BY <1>2, <1>6 DEF Thread
<1>9. HistoryOK(m)
  BY <1>2, <1>8 DEF HistoryOK
<1>10. pc \in {"verify", "tools"}
  OBVIOUS
<1> HIDE DEF m, pc
<1>11. FALSE \in BOOLEAN /\ {} \in SUBSET Patches
  OBVIOUS
<1>12. s \in Agent
  BY <1>2, <1>6, <1>8, <1>10, <1>11 DEF Agent
<1>13. /\ s.pc = pc /\ s.mem = m /\ s.base = a.base /\ s.ws = a.ws /\ s.got = {}
       /\ s.completed = a.completed /\ s.report = a.report
  BY <1>2 DEF Agent
<1>14. PICK r \in Agent : r = s
  BY <1>12
<1> HIDE DEF s
<1>15. /\ agent[n].pc \in Working /\ r.base = agent[n].base /\ agent[n].ws \subseteq r.ws
       /\ r.report # "SUCCEEDED" /\ r.completed \subseteq r.ws /\ r.got \subseteq r.ws
       /\ HistoryOK(r.mem) /\ r.pc # "calling" /\ r.pc # "answer" /\ r.pc \in Working
       /\ agent' = [agent EXCEPT ![n] = r]
  BY <1>1, <1>2, <1>7, <1>9, <1>10, <1>13, <1>14 DEF Working
<1> QED
  BY <1>4, <1>15, GoesOn

(* Whoever writes the thread, stray or not, writes a sound history. *)
LEMMA PersistInv ==
    ASSUME AgentInv, NEW n \in Attempts, Persist(n)
    PROVE  AgentInv'
<1> DEFINE a == agent[n]
           s == [a EXCEPT !.synced = TRUE]
<1>1. /\ a \in Agent /\ WorkerOK(a) /\ OwnerOK(n, a) /\ unsettled \subseteq Attempts
      /\ asked \subseteq Patches
  BY DEF AgentInv, TypeOK
<1>2. a.mem \in Thread /\ HistoryOK(a.mem)
  BY <1>1 DEF Agent, WorkerOK
<1>3. /\ UNCHANGED <<kind, status, no, command, checkpoint, blocked, delivered>>
      /\ unsettled' \subseteq Attempts /\ asked' \subseteq Patches
      /\ thread' \in Thread /\ HistoryOK(thread')
  BY <1>1, <1>2 DEF Persist, platform
<1>4. a.pc # "none"
  <2>1. a.pc = "none" => a = Absent("none")
    BY <1>1 DEF WorkerOK
  <2>2. Absent("none").synced = TRUE
    BY DEF Absent
  <2>3. ~ a.synced
    BY DEF Persist
  <2> QED
    BY <2>1, <2>2, <2>3, Zenon
<1>5. TRUE \in BOOLEAN
  OBVIOUS
<1>6. s \in Agent
  BY <1>1, <1>5 DEF Agent
<1>7. /\ s.pc = a.pc /\ s.mem = a.mem /\ s.base = a.base /\ s.ws = a.ws /\ s.got = a.got
      /\ s.completed = a.completed /\ s.report = a.report
  BY <1>1 DEF Agent
<1>8. PICK r \in Agent : r = s
  BY <1>6
<1>9. agent' = [agent EXCEPT ![n] = r]
  BY <1>8 DEF Persist
<1> HIDE DEF s
<1>10. WorkerOK(r)
  BY <1>1, <1>4, <1>7, <1>8 DEF WorkerOK, CacheOK
<1>11. OwnerOK(n, r)
  BY <1>1, <1>7, <1>8 DEF OwnerOK
<1>12. agent[n].pc # "none" /\ r.pc # "none" /\ r.base.lineage \in {agent[n].base.lineage, 0}
  BY <1>4, <1>7, <1>8
<1> QED
  BY <1>3, <1>9, <1>10, <1>11, <1>12, WorkStep

(* The answers of the tools node rest on checkpoints: what it got is saved  *)
(* before it ends, and a checkpoint of its start that it does not know of   *)
(* holds more.                                                              *)
LEMMA ToolsAnsweredInv ==
    ASSUME AgentInv, NEW n \in Attempts, ToolsAnswered(n)
    PROVE  AgentInv'
<1> DEFINE a == agent[n]
           ap == a.mem.applied \union a.got
           rp == a.mem.replayed \ a.got
           m == [a.mem EXCEPT !.open = {}, !.applied = ap, !.replayed = rp]
           s == [a EXCEPT !.pc = "agent", !.synced = FALSE, !.got = {}, !.mem = m]
<1>1. a.pc = "answer" /\ a.pc \in Working
  BY DEF ToolsAnswered, At, Working
<1>2. /\ a \in Agent /\ a.pc # "none" /\ a.report # "SUCCEEDED" /\ a.completed \subseteq a.ws
      /\ a.got \subseteq a.ws /\ HistoryOK(a.mem) /\ a.mem \in Thread /\ HistoryOK(thread)
      /\ thread \in Thread /\ unsettled \subseteq Attempts /\ asked \subseteq Patches
  BY <1>1, AtWork
<1>3. /\ UNCHANGED <<kind, status, no, command, checkpoint, blocked, delivered>>
      /\ unsettled' \subseteq Attempts /\ asked' \subseteq Patches
      /\ thread' \in Thread /\ HistoryOK(thread')
  BY <1>2 DEF ToolsAnswered, platform
<1>4. agent' = [agent EXCEPT ![n] = s]
  BY DEF ToolsAnswered, WithAnswers
<1>5. /\ a.mem.applied \subseteq Patches /\ a.mem.replayed \subseteq Patches
      /\ a.got \subseteq Patches
  BY <1>2 DEF Thread, Agent
<1>6. ap \in SUBSET Patches /\ rp \in SUBSET Patches /\ {} \in SUBSET Calls
      /\ {} \in SUBSET Patches /\ FALSE \in BOOLEAN
  BY <1>5
<1>7. ap \ rp = (a.mem.applied \ a.mem.replayed) \union a.got
  OBVIOUS
<1> HIDE DEF ap, rp
<1>8. m \in Thread /\ m.root = a.mem.root /\ m.applied = ap /\ m.replayed = rp
  BY <1>2, <1>6 DEF Thread
<1>9. HistoryOK(m)
  <2>1. Backed(a.mem.root, a.got)
    BY <1>1 DEF AgentInv, WorkerOK
  <2>2. Claimed(a.mem.root) /\ Backed(a.mem.root, a.mem.applied \ a.mem.replayed)
    BY <1>2 DEF HistoryOK
  <2>3. Backed(a.mem.root, ap \ rp)
    BY <1>7, <2>1, <2>2 DEF Backed
  <2> HIDE DEF m
  <2> QED
    BY <1>8, <2>2, <2>3 DEF HistoryOK
<1> HIDE DEF m
<1>10. s \in Agent
  BY <1>2, <1>6, <1>8 DEF Agent
<1>11. /\ s.pc = "agent" /\ s.mem = m /\ s.base = a.base /\ s.ws = a.ws /\ s.got = {}
       /\ s.completed = a.completed /\ s.report = a.report
  BY <1>2 DEF Agent
<1>12. PICK r \in Agent : r = s
  BY <1>10
<1> HIDE DEF s
<1>13. /\ agent[n].pc \in Working /\ r.base = agent[n].base /\ agent[n].ws \subseteq r.ws
       /\ r.report # "SUCCEEDED" /\ r.completed \subseteq r.ws /\ r.got \subseteq r.ws
       /\ HistoryOK(r.mem) /\ r.pc # "calling" /\ r.pc # "answer" /\ r.pc \in Working
       /\ agent' = [agent EXCEPT ![n] = r]
  BY <1>1, <1>2, <1>4, <1>9, <1>11, <1>12 DEF Working
<1> QED
  BY <1>3, <1>13, GoesOn

(* What the verifier lets through is clean; what fails keeps the workspace. *)
LEMMA VerifyInv ==
    ASSUME AgentInv, NEW n \in Attempts, Verify(n)
    PROVE  AgentInv'
<1> DEFINE a == agent[n]
<1>1. a.pc = "verify" /\ a.pc \in Working
  BY DEF Verify, At, Working
<1>2. /\ a \in Agent /\ a.pc # "none" /\ a.report # "SUCCEEDED" /\ a.completed \subseteq a.ws
      /\ a.got \subseteq a.ws /\ HistoryOK(a.mem) /\ a.mem \in Thread /\ HistoryOK(thread)
      /\ thread \in Thread /\ unsettled \subseteq Attempts /\ asked \subseteq Patches
  BY <1>1, AtWork
<1>3. /\ UNCHANGED <<kind, status, no, command, checkpoint, blocked, delivered>>
      /\ unsettled' \subseteq Attempts /\ asked' \subseteq Patches /\ UNCHANGED <<asked, thread>>
      /\ thread' \in Thread /\ HistoryOK(thread')
  BY <1>2 DEF Verify, platform
<1>4. /\ a.ws \in SUBSET Content /\ a.completed \in SUBSET Patches /\ a.base \in Checkpoint
      /\ TestPatch \in Content
  BY <1>2 DEF Agent, Content
<1>5. ASSUME NEW code \in FailureCode, NEW left \in SUBSET Content, a.ws \subseteq left,
             agent' = [agent EXCEPT ![n] = Judged(a, code, left, FALSE)]
      PROVE  AgentInv'
  <2>1. code \in Reports /\ code # "SUCCEEDED"
    BY DEF Reports, FailureCode, ResumableCode, RestartableCode, BudgetCode,
         ForbiddenPatchCode, HumanCode, MODEL_FAILURES
  <2>2. PICK o \in Agent :
          /\ o = Over(left, code) /\ o.pc = "report" /\ o.base = NoCheckpoint
          /\ o.mem = NoThread /\ o.ws = left /\ o.completed = {} /\ o.got = {}
          /\ o.report = code /\ o.todo = {}
    <3>1. left \in SUBSET Content /\ code \in Reports
      BY <2>1
    <3> QED
      BY <3>1, OverRecord, Zenon
  <2> DEFINE s == [o EXCEPT !.pc = "save", !.base = a.base, !.completed = a.completed]
  <2>3. s \in Agent
    BY <1>4 DEF Agent
  <2>4. /\ s.pc = "save" /\ s.mem = NoThread /\ s.base = a.base /\ s.ws = left /\ s.got = {}
        /\ s.completed = a.completed /\ s.report = code
    BY <2>2 DEF Agent
  <2>5. PICK r \in Agent : r = s
    BY <2>3
  <2>6. agent' = [agent EXCEPT ![n] = r]
    BY <1>5, <2>2, <2>5 DEF Judged
  <2> HIDE DEF s
  <2>7. HistoryOK(r.mem)
    BY <2>4, <2>5, NoRecords, EmptyHistory DEF Claimed
  <2>8. /\ agent[n].pc \in Working /\ r.base = agent[n].base /\ agent[n].ws \subseteq r.ws
        /\ r.report # "SUCCEEDED" /\ r.completed \subseteq r.ws /\ r.got \subseteq r.ws
        /\ r.pc # "calling" /\ r.pc # "answer" /\ r.pc \in Working
    BY <1>1, <1>2, <1>5, <2>1, <2>4, <2>5 DEF Working
  <2> QED
    BY <1>3, <2>6, <2>7, <2>8, GoesOn
<1>6. ASSUME NEW code \in GateCodes(a.ws),
             agent' = [agent EXCEPT ![n] = Judged(a, code, a.ws, FALSE)]
      PROVE  AgentInv'
  <2>1. code \in FailureCode
    BY DEF GateCodes, FailureCode, ForbiddenPatchCode
  <2> QED
    BY <1>4, <1>5, <1>6, <2>1
<1>7. ASSUME GateCodes(a.ws) = {}, NEW code \in CheckCodes, NEW left \in Leftovers(a.ws),
             NEW passed \in BOOLEAN,
             agent' = [agent EXCEPT ![n] = Judged(a, code, left, passed)]
      PROVE  AgentInv'
  <2>1. CASE passed = FALSE
    <3>1. code \in FailureCode
      BY DEF CheckCodes, FailureCode, ForbiddenPatchCode, ResumableCode
    <3>2. left \in SUBSET Content /\ a.ws \subseteq left
      BY <1>4 DEF Leftovers
    <3>3. agent' = [agent EXCEPT ![n] = Judged(a, code, left, FALSE)]
      BY <1>7, <2>1
    <3> QED
      BY <1>5, <3>1, <3>2, <3>3
  <2>2. CASE passed = TRUE
    <3>1. Clean(a.ws)
      BY <1>7 DEF Clean, GateCodes
    <3>2. agent' = [agent EXCEPT ![n] = Over(a.ws, "SUCCEEDED")]
      BY <1>7, <2>2 DEF Judged, ReportedPatch
    <3>3. "SUCCEEDED" \in Reports
      BY DEF Reports
    <3>4. PICK r \in Agent :
            /\ r = Over(a.ws, "SUCCEEDED") /\ r.pc = "report" /\ r.base = NoCheckpoint
            /\ r.mem = NoThread /\ r.ws = a.ws /\ r.completed = {} /\ r.got = {}
            /\ r.report = "SUCCEEDED" /\ r.todo = {}
      <4>1. PICK w \in SUBSET Content : w = a.ws
        BY <1>4
      <4>2. w \in SUBSET Content
        BY <4>1
      <4>3. PICK r \in Agent :
              /\ r = Over(w, "SUCCEEDED") /\ r.pc = "report" /\ r.base = NoCheckpoint
              /\ r.mem = NoThread /\ r.ws = w /\ r.completed = {} /\ r.got = {}
              /\ r.report = "SUCCEEDED" /\ r.todo = {}
        BY <3>3, <4>2, OverRecord, Zenon
      <4> QED
        BY <4>1, <4>3
    <3> QED
      BY <1>2, <1>3, <3>1, <3>2, <3>4, QuietStep
  <2> QED
    BY <2>1, <2>2
<1>8. CASE agent' = [agent EXCEPT ![n] = Raised("SANDBOX_CRASHED")]
  <2>1. "SANDBOX_CRASHED" \in FailureCode
    BY DEF FailureCode, ResumableCode
  <2> QED
    BY <1>2, <1>3, <1>8, <2>1, RaisedStep
<1> QED
  BY <1>6, <1>7, <1>8 DEF Verify

-----------------------------------------------------------------------------
(* Steps of the platform *)

(* The run stops being RUNNING: parked, ended, or waiting for an attempt    *)
(* that nobody knows yet.                                                   *)
LEMMA ParkStep ==
    ASSUME AgentInv, NEW n \in Attempts, NEW r \in Agent, agent' = [agent EXCEPT ![n] = r],
           r.pc = "none" <=> agent[n].pc = "none", WorkerOK(r),
           r.base.lineage \in {agent[n].base.lineage, 0},
           status' \in {"DISPATCHED", "INTERRUPTED", "SUCCEEDED", "FAILED"},
           no' \in Attempts, no' = no \/ no' = no + 1,
           command' \in {command, NoCheckpoint, checkpoint},
           status' = "DISPATCHED" => command' \in {NoCheckpoint, checkpoint},
           kind' = kind, checkpoint' = checkpoint, blocked' \in BOOLEAN,
           delivered' \subseteq Content, status' = "SUCCEEDED" => Clean(delivered'),
           UNCHANGED <<unsettled, asked, thread>>
    PROVE  AgentInv'
<1>1. /\ TypeOK /\ no \in Attempts /\ no \in Nat /\ no # 0 /\ agent \in [Attempts -> Agent]
      /\ PlatformOK /\ checkpoint \in Checkpoint /\ command \in Checkpoint
      /\ thread \in Thread /\ HistoryOK(thread)
  BY Sizes DEF AgentInv, TypeOK, Attempts
<1>2. \A m \in Attempts : agent'[m] = IF m = n THEN r ELSE agent[m]
  BY <1>1
<1>3. \A m \in Attempts : m > no => agent'[m].pc = "none" /\ agent'[m].base.lineage = 0
  <2> SUFFICES ASSUME NEW m \in Attempts, m > no
               PROVE  agent'[m].pc = "none" /\ agent'[m].base.lineage = 0
    OBVIOUS
  <2>1. agent[m].pc = "none" /\ WorkerOK(agent[m])
    BY DEF AgentInv
  <2>2. agent[m] = Absent("none")
    BY <2>1 DEF WorkerOK
  <2>3. "none" \in Pcs
    BY DEF Pcs
  <2>4. agent[m].base.lineage = 0
    BY <2>2, <2>3, AbsentRecord, NoRecords
  <2> QED
    BY <1>2, <2>1, <2>4
<1>4. FreshUnsaved' => FreshUnsaved /\ no' = no
  <2>1. CASE no' = no + 1
    <3>1. agent'[no'].base.lineage = 0 /\ no' # 0
      BY <1>1, <1>3, <2>1
    <3> QED
      BY <3>1 DEF FreshUnsaved
  <2>2. CASE no' = no
    BY <1>1, <1>2, <2>2 DEF FreshUnsaved
  <2> QED
    BY <2>1, <2>2
<1>5. \A root \in 0..MaxAttempts : Claimed(root) => Claimed(root)'
  BY <1>2, Sizes DEF Claimed, Attempts
<1>6. \A root, S : Backed(root, S) => Backed(root, S)'
  BY <1>4 DEF Backed
<1>7. \A t \in Thread : HistoryOK(t) => HistoryOK(t)'
  BY <1>5, <1>6 DEF HistoryOK, Thread
<1>8. \A a \in Agent : WorkerOK(a) => WorkerOK(a)'
  BY <1>6, <1>7 DEF WorkerOK, Agent, CacheOK, Clean
<1>9. TypeOK'
  <2>1. command' \in Checkpoint
    BY <1>1, NoRecords
  <2> QED
    BY <1>1, <2>1 DEF TypeOK
<1>10. PlatformOK'
  <2>1. Claimed(checkpoint.lineage)'
    BY <1>1, <1>5 DEF PlatformOK, Claimed, Checkpoint
  <2>2. CacheOK(checkpoint)' /\ CacheOK(command)'
    BY <1>1, NoRecords DEF PlatformOK, CacheOK
  <2>3. (status = "DISPATCHED" => command \in {NoCheckpoint, checkpoint})'
    OBVIOUS
  <2>4. (status = "SUCCEEDED" => Clean(delivered))'
    BY DEF Clean
  <2> QED
    BY <2>1, <2>2, <2>3, <2>4 DEF PlatformOK
<1>11. HistoryOK(thread)'
  BY <1>1, <1>7 DEF HistoryOK, Claimed, Backed, FreshUnsaved
<1>12. ASSUME NEW m \in Attempts
       PROVE  /\ WorkerOK(agent[m])' /\ OwnerOK(m, agent[m])'
              /\ m > no' => agent'[m].pc = "none"
  <2>1. PICK a \in Agent : a = agent'[m] /\ WorkerOK(a)
    BY <1>1, <1>2 DEF AgentInv
  <2>2. WorkerOK(a)'
    BY <1>8, <2>1
  <2>3. WorkerOK(agent[m])'
    BY <2>1, <2>2 DEF WorkerOK, CacheOK, HistoryOK, Claimed, Backed, FreshUnsaved, Clean
  <2>4. OwnerOK(m, agent[m])'
    BY DEF OwnerOK
  <2>5. m > no' => m > no
    BY <1>1 DEF Attempts
  <2> QED
    BY <1>3, <2>3, <2>4, <2>5
<1> QED
  BY <1>9, <1>10, <1>11, <1>12 DEF AgentInv

(* What applyPolicy leaves: no attempt beyond the limit, and a command that *)
(* names the newest checkpoint or none.                                     *)
LEMMA RecoverFacts ==
    ASSUME AgentInv, NEW code, Recover(code)
    PROVE  /\ status' \in {"DISPATCHED", "INTERRUPTED", "FAILED"} /\ no' \in Attempts
           /\ no' = no \/ no' = no + 1
           /\ command' \in {command, NoCheckpoint, checkpoint}
           /\ status' = "DISPATCHED" => command' \in {NoCheckpoint, checkpoint}
           /\ UNCHANGED <<kind, checkpoint, blocked, delivered>>
<1> DEFINE action == decidePolicy(code, no, MaxAttempts)
<1>1. no \in Attempts /\ no \in Nat
  BY Sizes DEF AgentInv, TypeOK, Attempts
<1>2. action \in {"RESUME", "RESTART_ATTEMPT"} => no + 1 \in Attempts
  <2>1. no >= MaxAttempts => action \in {"ABORT", "ESCALATE_HUMAN"}
    BY DEF decidePolicy, AtMax
  <2> HIDE DEF action
  <2> QED
    BY <1>1, <2>1, Sizes DEF Attempts
<1>3. CommandCheckpoint(action) \in {NoCheckpoint, checkpoint}
  BY DEF CommandCheckpoint
<1> QED
  BY <1>1, <1>2, <1>3 DEF Recover

LEMMA LeaseExpiresInv ==
    ASSUME AgentInv, LeaseExpires \/ Resume
    PROVE  AgentInv'
<1>1. /\ no \in Attempts /\ no \in Nat /\ agent \in [Attempts -> Agent] /\ blocked \in BOOLEAN
      /\ delivered \subseteq Content
  BY Sizes DEF AgentInv, TypeOK, Attempts
<1>2. UNCHANGED <<unsettled, asked, thread, agent>>
  BY DEF LeaseExpires, Resume
<1>3. /\ status' \in {"DISPATCHED", "INTERRUPTED", "FAILED"} /\ no' \in Attempts
      /\ no' = no \/ no' = no + 1
      /\ command' \in {command, NoCheckpoint, checkpoint}
      /\ status' = "DISPATCHED" => command' \in {NoCheckpoint, checkpoint}
      /\ UNCHANGED <<kind, checkpoint, blocked, delivered>>
  <2>1. CASE LeaseExpires
    BY <2>1, RecoverFacts DEF LeaseExpires
  <2>2. CASE Resume
    BY <1>1, <2>2, Sizes DEF Resume, Attempts
  <2> QED
    BY <2>1, <2>2
<1>4. PICK m \in Attempts : m = no
  BY <1>1
<1>5. PICK r \in Agent : r = agent[m] /\ WorkerOK(r)
  BY <1>1 DEF AgentInv
<1>6. agent' = [agent EXCEPT ![m] = r]
  BY <1>1, <1>2, <1>5
<1>7. /\ r.pc = "none" <=> agent[m].pc = "none"
      /\ r.base.lineage \in {agent[m].base.lineage, 0}
      /\ status' \in {"DISPATCHED", "INTERRUPTED", "SUCCEEDED", "FAILED"}
      /\ blocked' \in BOOLEAN /\ delivered' \subseteq Content
      /\ status' = "SUCCEEDED" => Clean(delivered')
  BY <1>1, <1>3, <1>5
<1> QED
  BY <1>2, <1>3, <1>5, <1>6, <1>7, ParkStep

(* BaselineRefused and Report: the worker is gone, the run stops or goes on *)
(* to another attempt.                                                      *)
LEMMA GoneStep ==
    ASSUME AgentInv, NEW n \in Attempts, agent' = [agent EXCEPT ![n] = Absent("gone")],
           agent[n].pc # "none",
           status' \in {"DISPATCHED", "INTERRUPTED", "SUCCEEDED", "FAILED"},
           no' \in Attempts, no' = no \/ no' = no + 1,
           command' \in {command, NoCheckpoint, checkpoint},
           status' = "DISPATCHED" => command' \in {NoCheckpoint, checkpoint},
           kind' = kind, checkpoint' = checkpoint, blocked' \in BOOLEAN,
           delivered' \subseteq Content, status' = "SUCCEEDED" => Clean(delivered'),
           UNCHANGED <<unsettled, asked, thread>>
    PROVE  AgentInv'
<1>1. "gone" \in Pcs
  BY DEF Pcs
<1>2. PICK r \in Agent :
        /\ r = Absent("gone") /\ r.pc = "gone" /\ r.base = NoCheckpoint /\ r.mem = NoThread
        /\ r.completed = {} /\ r.got = {} /\ r.report = "none"
  BY <1>1, AbsentRecord, Zenon
<1>3. WorkerOK(r)
  BY <1>2, QuietWorker
<1>4. /\ r.pc = "none" <=> agent[n].pc = "none"
      /\ r.base.lineage \in {agent[n].base.lineage, 0} /\ agent' = [agent EXCEPT ![n] = r]
  BY <1>2, NoRecords
<1> QED
  BY <1>3, <1>4, ParkStep

LEMMA BaselineRefusedInv ==
    ASSUME AgentInv, NEW n \in Attempts, BaselineRefused(n)
    PROVE  AgentInv'
<1>1. no \in Attempts /\ blocked' \in BOOLEAN /\ delivered \subseteq Content
  BY DEF AgentInv, TypeOK, BaselineRefused
<1>2. /\ agent' = [agent EXCEPT ![n] = Absent("gone")] /\ agent[n].pc # "none"
      /\ status' = "INTERRUPTED"
      /\ UNCHANGED <<kind, no, command, checkpoint, delivered, unsettled, asked, thread>>
  BY DEF BaselineRefused, At
<1>3. /\ status' \in {"DISPATCHED", "INTERRUPTED", "SUCCEEDED", "FAILED"}
      /\ no' \in Attempts
      /\ no' = no \/ no' = no + 1
      /\ command' \in {command, NoCheckpoint, checkpoint}
      /\ status' = "DISPATCHED" => command' \in {NoCheckpoint, checkpoint}
      /\ delivered' \subseteq Content
      /\ status' = "SUCCEEDED" => Clean(delivered')
  BY <1>1, <1>2
<1> QED
  BY <1>1, <1>2, <1>3, GoneStep

LEMMA ReportInv ==
    ASSUME AgentInv, NEW n \in Attempts, Report(n)
    PROVE  AgentInv'
<1> DEFINE a == agent[n]
<1>1. /\ no \in Attempts /\ blocked \in BOOLEAN /\ delivered \subseteq Content
      /\ a \in Agent /\ WorkerOK(a) /\ unsettled \subseteq Attempts
  BY DEF AgentInv, TypeOK
<1>2. /\ a.pc = "report" /\ a.pc # "none" /\ UNCHANGED <<unsettled, asked, thread>>
      /\ agent' = [agent EXCEPT ![n] = Absent("gone")]
  BY DEF Report, At
<1>3. CASE UNCHANGED platform
  <2>1. UNCHANGED <<kind, status, no, command, checkpoint, blocked, delivered>>
    BY <1>3 DEF platform
  <2>2. "gone" \in Pcs
    BY DEF Pcs
  <2>3. PICK r \in Agent :
          /\ r = Absent("gone") /\ r.pc = "gone" /\ r.base = NoCheckpoint /\ r.mem = NoThread
          /\ r.completed = {} /\ r.got = {} /\ r.report = "none"
    BY <2>2, AbsentRecord, Zenon
  <2> QED
    BY <1>1, <1>2, <2>1, <2>3, QuietStep
<1>4. CASE /\ status' = "INTERRUPTED"
           /\ UNCHANGED <<kind, no, command, checkpoint, blocked, delivered>>
  <2>1. /\ status' \in {"DISPATCHED", "INTERRUPTED", "SUCCEEDED", "FAILED"}
        /\ no' \in Attempts
        /\ no' = no \/ no' = no + 1
        /\ command' \in {command, NoCheckpoint, checkpoint}
        /\ status' = "DISPATCHED" => command' \in {NoCheckpoint, checkpoint}
        /\ blocked' \in BOOLEAN
        /\ delivered' \subseteq Content
        /\ status' = "SUCCEEDED" => Clean(delivered')
    BY <1>1, <1>4
  <2> QED
    BY <1>2, <1>4, <2>1, GoneStep
<1>5. CASE /\ a.report = "SUCCEEDED" /\ status' = "SUCCEEDED" /\ delivered' = a.ws
           /\ UNCHANGED <<kind, no, command, checkpoint, blocked>>
  <2>1. Clean(a.ws) /\ a.ws \subseteq Content
    BY <1>1, <1>5 DEF WorkerOK, Agent
  <2>2. /\ status' \in {"DISPATCHED", "INTERRUPTED", "SUCCEEDED", "FAILED"}
        /\ no' \in Attempts
        /\ no' = no \/ no' = no + 1
        /\ command' \in {command, NoCheckpoint, checkpoint}
        /\ status' = "DISPATCHED" => command' \in {NoCheckpoint, checkpoint}
        /\ blocked' \in BOOLEAN
        /\ delivered' \subseteq Content
        /\ status' = "SUCCEEDED" => Clean(delivered')
    BY <1>1, <1>5, <2>1
  <2> QED
    BY <1>2, <1>5, <2>2, GoneStep
<1>6. CASE Recover(a.report)
  <2>1. /\ status' \in {"DISPATCHED", "INTERRUPTED", "FAILED"} /\ no' \in Attempts
        /\ no' = no \/ no' = no + 1
        /\ command' \in {command, NoCheckpoint, checkpoint}
        /\ status' = "DISPATCHED" => command' \in {NoCheckpoint, checkpoint}
        /\ UNCHANGED <<kind, checkpoint, blocked, delivered>>
    BY <1>6, RecoverFacts
  <2>2. /\ status' \in {"DISPATCHED", "INTERRUPTED", "SUCCEEDED", "FAILED"}
        /\ blocked' \in BOOLEAN
        /\ delivered' \subseteq Content
        /\ status' = "SUCCEEDED" => Clean(delivered')
    BY <1>1, <2>1
  <2> QED
    BY <1>2, <2>1, <2>2, GoneStep
<1> QED
  BY <1>3, <1>4, <1>5, <1>6 DEF Report

(* A claim: the new owner goes on from the newest checkpoint, or from       *)
(* nothing and then under a number that no history and no checkpoint has.   *)
LEMMA ClaimInv ==
    ASSUME AgentInv, NEW n \in Attempts, Claim(n)
    PROVE  AgentInv'
<1> DEFINE b == IF command = NoCheckpoint THEN [NoCheckpoint EXCEPT !.lineage = n] ELSE command
<1>1. /\ TypeOK /\ no = n /\ n # 0 /\ agent \in [Attempts -> Agent]
      /\ PlatformOK /\ checkpoint \in Checkpoint /\ command \in Checkpoint
      /\ thread \in Thread /\ HistoryOK(thread) /\ WorkerOK(agent[n])
  BY Sizes DEF AgentInv, TypeOK, Attempts, Claim
<1>2. /\ status = "DISPATCHED" /\ status' = "RUNNING" /\ agent[n].pc = "none"
      /\ UNCHANGED <<kind, no, command, checkpoint, blocked, delivered, unsettled, asked, thread>>
      /\ agent' = [agent EXCEPT ![n] = [agent[n] EXCEPT !.pc = "prepare", !.base = b]]
  BY DEF Claim, At
<1>3. checkpoint.lineage # n
  BY <1>1, <1>2 DEF PlatformOK, Claimed
<1>4. /\ b \in Checkpoint /\ CacheOK(b) /\ b.lineage \in {n, checkpoint.lineage}
      /\ b.lineage = checkpoint.lineage => checkpoint.ws \subseteq b.ws
  <2>1. CASE command = NoCheckpoint
    <3>1. \A c \in Checkpoint : \A l \in 0..MaxAttempts :
            LET d == [c EXCEPT !.lineage = l]
            IN  d \in Checkpoint /\ d.lineage = l /\ d.completed = c.completed /\ d.ws = c.ws
      BY DEF Checkpoint
    <3>2. n \in 0..MaxAttempts
      BY Sizes DEF Attempts
    <3>3. b = [NoCheckpoint EXCEPT !.lineage = n]
      BY <2>1
    <3> HIDE DEF b
    <3>4. b \in Checkpoint /\ b.lineage = n /\ b.completed = {} /\ b.ws = {}
      BY <3>1, <3>2, <3>3, NoRecords
    <3> QED
      BY <1>3, <3>4 DEF CacheOK
  <2>2. CASE command # NoCheckpoint
    BY <1>1, <1>2, <2>2 DEF PlatformOK
  <2> QED
    BY <2>1, <2>2
<1> HIDE DEF b
<1>5. PICK o \in Agent :
        /\ o = agent[n] /\ o.mem = NoThread /\ o.completed = {} /\ o.got = {} /\ o.ws = {}
        /\ o.report = "none"
  <2>1. "none" \in Pcs
    BY DEF Pcs
  <2>2. agent[n] = Absent("none")
    BY <1>1, <1>2 DEF WorkerOK
  <2> QED
    BY <2>1, <2>2, AbsentRecord
<1>6. PICK r \in Agent :
        /\ agent' = [agent EXCEPT ![n] = r] /\ r.pc = "prepare" /\ r.base = b /\ r.mem = NoThread
        /\ r.completed = {} /\ r.got = {} /\ r.report = "none"
  <2> DEFINE s == [o EXCEPT !.pc = "prepare", !.base = b]
  <2>1. s \in Agent
    BY <1>4 DEF Agent
  <2>2. /\ s.pc = "prepare" /\ s.base = b /\ s.mem = NoThread
        /\ s.completed = {} /\ s.got = {} /\ s.report = "none"
    BY <1>5 DEF Agent
  <2>3. agent' = [agent EXCEPT ![n] = s]
    BY <1>2, <1>5
  <2> HIDE DEF s
  <2> QED
    BY <2>1, <2>2, <2>3
<1>7. \A m \in Attempts : agent'[m] = IF m = n THEN r ELSE agent[m]
  BY <1>1, <1>6
<1>8. \A root \in 0..MaxAttempts : Claimed(root) => Claimed(root)' /\ root # no
  BY <1>1, <1>2, <1>6, <1>7, Sizes DEF Claimed, Attempts
<1>9. \A root \in 0..MaxAttempts : \A S : Claimed(root) /\ Backed(root, S) => Backed(root, S)'
  BY <1>2, <1>8 DEF Backed
<1>10. \A t \in Thread : HistoryOK(t) => HistoryOK(t)'
  BY <1>8, <1>9 DEF HistoryOK, Thread
<1>11. \A a \in Agent : WorkerOK(a) => WorkerOK(a)'
  <2> SUFFICES ASSUME NEW a \in Agent, WorkerOK(a) PROVE WorkerOK(a)'
    OBVIOUS
  <2>1. a.mem \in Thread /\ a.mem.root \in 0..MaxAttempts
    BY DEF Agent, Thread
  <2>2. HistoryOK(a.mem)' /\ Claimed(a.mem.root)
    BY <1>10, <2>1 DEF WorkerOK, HistoryOK
  <2>3. a.pc = "answer" => Backed(a.mem.root, a.got)'
    BY <1>9, <2>1, <2>2 DEF WorkerOK
  <2> QED
    BY <2>2, <2>3 DEF WorkerOK, CacheOK, Clean
<1>12. WorkerOK(r) /\ WorkerOK(r)'
  <2>1. HistoryOK(r.mem)
    BY <1>6, NoRecords, EmptyHistory DEF Claimed
  <2>2. WorkerOK(r)
    BY <1>4, <1>6, <2>1 DEF WorkerOK, CacheOK
  <2> QED
    BY <1>11, <2>2
<1>13. OwnerOK(n, r)'
  BY <1>2, <1>4, <1>6 DEF OwnerOK, Working
<1>14. TypeOK'
  BY <1>1, <1>2, <1>6 DEF TypeOK
<1>15. PlatformOK'
  <2>1. Claimed(checkpoint.lineage)'
    BY <1>1, <1>2, <1>8 DEF PlatformOK, Claimed, Checkpoint
  <2> QED
    BY <1>1, <1>2, <2>1 DEF PlatformOK, CacheOK, Clean
<1>16. HistoryOK(thread)'
  BY <1>1, <1>2, <1>10 DEF HistoryOK, Claimed, Backed, FreshUnsaved
<1>17. ASSUME NEW m \in Attempts
       PROVE  /\ WorkerOK(agent[m])' /\ OwnerOK(m, agent[m])'
              /\ m > no' => agent'[m].pc = "none"
  <2>1. PICK a \in Agent : a = agent'[m] /\ WorkerOK(a)'
    BY <1>1, <1>7, <1>11, <1>12 DEF AgentInv
  <2>2. WorkerOK(agent[m])'
    BY <2>1 DEF WorkerOK, CacheOK, HistoryOK, Claimed, Backed, FreshUnsaved, Clean
  <2>3. OwnerOK(m, agent[m])'
    <3>1. CASE m = n
      BY <1>7, <1>13, <3>1 DEF OwnerOK
    <3>2. CASE m # n
      BY <1>1, <1>2, <3>2 DEF OwnerOK
    <3> QED
      BY <3>1, <3>2
  <2>4. m > no' => agent'[m].pc = "none"
    <3>1. m > no => m # n
      BY <1>1, Sizes DEF Attempts
    <3> QED
      BY <1>2, <1>7, <3>1 DEF AgentInv
  <2> QED
    BY <2>2, <2>3, <2>4
<1> QED
  BY <1>14, <1>15, <1>16, <1>17 DEF AgentInv

(* The owner saves: the checkpoint moves on within its start, or to the     *)
(* owner's own new start, of which no history claims anything yet.          *)
LEMMA SaveInv ==
    ASSUME AgentInv, NEW n \in Attempts, NEW r \in Agent, agent' = [agent EXCEPT ![n] = r],
           HoldsLease(n), agent[n].pc = "save", checkpoint' = CheckpointOf(agent[n]),
           UNCHANGED <<kind, status, no, command, blocked, delivered, unsettled, asked, thread>>,
           r.pc \in {"report", "tools", "answer"}, r.report # "SUCCEEDED",
           r.base.lineage \in {agent[n].base.lineage, 0},
           r.pc # "report" => r.base = agent[n].base /\ r.ws = agent[n].ws,
           CacheOK(r), CacheOK(r.base), r.got \subseteq r.ws, HistoryOK(r.mem)
    PROVE  AgentInv'
<1> DEFINE a == agent[n]
           c == CheckpointOf(a)
<1>1. /\ TypeOK /\ no = n /\ n # 0 /\ agent \in [Attempts -> Agent] /\ status = "RUNNING"
      /\ PlatformOK /\ checkpoint \in Checkpoint /\ command \in Checkpoint
      /\ thread \in Thread /\ HistoryOK(thread) /\ WorkerOK(a) /\ OwnerOK(n, a) /\ a \in Agent
  BY Sizes DEF AgentInv, TypeOK, Attempts, HoldsLease
<1>2. c \in Checkpoint /\ c.lineage = a.base.lineage /\ c.ws = a.ws /\ c.completed = a.completed
  <2>1. a.base.lineage \in 0..MaxAttempts /\ a.ws \in SUBSET Content
        /\ a.completed \in SUBSET Patches
    BY <1>1 DEF Agent, Checkpoint
  <2> QED
    BY <2>1 DEF CheckpointOf, Checkpoint
<1>3. /\ a.base.lineage \in {n, checkpoint.lineage}
      /\ a.base.lineage = checkpoint.lineage => checkpoint.ws \subseteq a.ws
  BY <1>1 DEF OwnerOK, Working
<1>4. \A m \in Attempts : agent'[m] = IF m = n THEN r ELSE agent[m]
  BY <1>1
<1>5. checkpoint' = c
  OBVIOUS
<1> HIDE DEF c
<1>6. ~ FreshUnsaved'
  BY <1>1, <1>2, <1>4, <1>5 DEF FreshUnsaved
<1>7. \A root \in 0..MaxAttempts : Claimed(root) => Claimed(root)'
  BY <1>4, Sizes DEF Claimed, Attempts
<1>8. \A root, S : Backed(root, S) => Backed(root, S)'
  <2> SUFFICES ASSUME NEW root, NEW S, Backed(root, S), root = a.base.lineage
               PROVE  S \subseteq a.ws
    BY <1>2, <1>5, <1>6 DEF Backed
  <2>1. CASE a.base.lineage = checkpoint.lineage
    BY <1>3, <2>1 DEF Backed
  <2>2. CASE a.base.lineage # checkpoint.lineage
    BY <1>1, <1>3, <2>2 DEF Backed, FreshUnsaved
  <2> QED
    BY <2>1, <2>2
<1>9. \A t \in Thread : HistoryOK(t) => HistoryOK(t)'
  BY <1>7, <1>8 DEF HistoryOK, Thread
<1>10. \A w \in Agent : WorkerOK(w) => WorkerOK(w)'
  BY <1>8, <1>9 DEF WorkerOK, Agent, CacheOK, Clean
<1>11. TypeOK'
  BY <1>1, <1>2, <1>5 DEF TypeOK
<1>12. WorkerOK(r)'
  <2>1. r.mem \in Thread
    BY DEF Agent
  <2>2. HistoryOK(r.mem)'
    BY <1>9, <2>1
  <2>3. r.pc = "answer" => Backed(r.mem.root, r.got)'
    BY <1>2, <1>5, <1>6 DEF Backed
  <2> QED
    BY <2>2, <2>3 DEF WorkerOK, CacheOK
<1>13. OwnerOK(n, r)'
  BY <1>2, <1>5 DEF OwnerOK, Working
<1>14. PlatformOK'
  <2>1. Claimed(checkpoint.lineage)'
    BY <1>1, <1>2, <1>3, <1>4, <1>5, <1>7 DEF PlatformOK, Claimed, Checkpoint
  <2>2. CacheOK(checkpoint)'
    BY <1>1, <1>2, <1>5 DEF WorkerOK, CacheOK
  <2> QED
    BY <1>1, <2>1, <2>2 DEF PlatformOK, CacheOK, Clean
<1>15. HistoryOK(thread)'
  BY <1>1, <1>9 DEF HistoryOK, Claimed, Backed, FreshUnsaved
<1>16. ASSUME NEW m \in Attempts
       PROVE  /\ WorkerOK(agent[m])' /\ OwnerOK(m, agent[m])'
              /\ m > no' => agent'[m].pc = "none"
  <2>1. PICK w \in Agent : w = agent'[m] /\ WorkerOK(w)'
    BY <1>1, <1>4, <1>10, <1>12 DEF AgentInv
  <2>2. WorkerOK(agent[m])'
    BY <2>1 DEF WorkerOK, CacheOK, HistoryOK, Claimed, Backed, FreshUnsaved, Clean
  <2>3. OwnerOK(m, agent[m])'
    <3>1. CASE m = n
      BY <1>4, <1>13, <3>1 DEF OwnerOK
    <3>2. CASE m # n
      BY <1>1, <3>2 DEF OwnerOK
    <3> QED
      BY <3>1, <3>2
  <2>4. m > no' => agent'[m].pc = "none"
    <3>1. m > no => m # n
      BY <1>1, Sizes DEF Attempts
    <3> QED
      BY <1>4, <3>1 DEF AgentInv
  <2> QED
    BY <2>2, <2>3, <2>4
<1> QED
  BY <1>11, <1>14, <1>15, <1>16 DEF AgentInv

LEMMA OnCheckpointInv ==
    ASSUME AgentInv, NEW n \in Attempts, OnCheckpoint(n)
    PROVE  AgentInv'
<1> DEFINE a == agent[n]
<1>1. a.pc = "save" /\ a.pc \in Working
  BY DEF OnCheckpoint, At, Working
<1>2. /\ a \in Agent /\ a.pc # "none" /\ a.report # "SUCCEEDED" /\ a.completed \subseteq a.ws
      /\ a.got \subseteq a.ws /\ HistoryOK(a.mem) /\ a.mem \in Thread /\ HistoryOK(thread)
      /\ thread \in Thread /\ unsettled \subseteq Attempts /\ asked \subseteq Patches
  BY <1>1, AtWork
<1>3. /\ UNCHANGED <<kind, status, no, command, blocked, delivered, unsettled, asked, thread>>
  BY DEF OnCheckpoint
<1>4. CASE ~ HoldsLease(n)
  <2>1. /\ agent' = [agent EXCEPT ![n] = Raised("TOOL_EXEC_ERROR")]
        /\ checkpoint' = checkpoint
    BY <1>4 DEF OnCheckpoint
  <2>2. "TOOL_EXEC_ERROR" \in FailureCode
    BY DEF FailureCode, ResumableCode
  <2> QED
    BY <1>2, <1>3, <2>1, <2>2, RaisedStep
<1>5. CASE HoldsLease(n) /\ a.report # "none"
  <2>1. /\ agent' = [agent EXCEPT ![n] = Over({}, a.report)]
        /\ checkpoint' = CheckpointOf(agent[n])
    BY <1>5 DEF OnCheckpoint
  <2>2. PICK report \in Reports : report = a.report
    BY <1>2 DEF Agent, Reports
  <2>3. {} \in SUBSET Content
    OBVIOUS
  <2>4. PICK r \in Agent :
          /\ r = Over({}, report) /\ r.pc = "report" /\ r.base = NoCheckpoint
          /\ r.mem = NoThread /\ r.ws = {} /\ r.completed = {} /\ r.got = {}
          /\ r.report = report /\ r.todo = {}
    BY <2>3, OverRecord, Zenon
  <2>5. HistoryOK(r.mem)
    BY <2>4, NoRecords, EmptyHistory DEF Claimed
  <2>6. /\ r.base.lineage \in {agent[n].base.lineage, 0} /\ CacheOK(r) /\ CacheOK(r.base)
        /\ r.got \subseteq r.ws /\ r.report # "SUCCEEDED"
        /\ agent' = [agent EXCEPT ![n] = r]
    BY <1>2, <2>1, <2>2, <2>4, NoRecords DEF CacheOK
  <2> QED
    BY <1>1, <1>3, <1>5, <2>1, <2>4, <2>5, <2>6, SaveInv
<1>6. CASE HoldsLease(n) /\ a.report = "none"
  <2>1. checkpoint' = CheckpointOf(agent[n])
    BY <1>6 DEF OnCheckpoint
  <2>2. PICK pc \in {"tools", "answer"} : agent' = [agent EXCEPT ![n] = [a EXCEPT !.pc = pc]]
    BY <1>6 DEF OnCheckpoint
  <2> DEFINE s == [a EXCEPT !.pc = pc]
  <2>3. s \in Agent
    BY <1>2 DEF Agent
  <2>4. /\ s.pc = pc /\ s.mem = a.mem /\ s.base = a.base /\ s.ws = a.ws /\ s.got = a.got
        /\ s.completed = a.completed /\ s.report = a.report
    BY <1>2 DEF Agent
  <2>5. PICK r \in Agent : r = s
    BY <2>3
  <2>6. agent' = [agent EXCEPT ![n] = r]
    BY <2>2, <2>5
  <2> HIDE DEF s
  <2>7. CacheOK(a.base)
    BY DEF AgentInv, WorkerOK
  <2>8. /\ r.pc \in {"report", "tools", "answer"} /\ r.report # "SUCCEEDED"
        /\ r.base.lineage \in {agent[n].base.lineage, 0}
        /\ r.base = agent[n].base /\ r.ws = agent[n].ws
        /\ CacheOK(r) /\ CacheOK(r.base) /\ r.got \subseteq r.ws /\ HistoryOK(r.mem)
    BY <1>2, <2>4, <2>5, <2>7 DEF CacheOK
  <2> QED
    BY <1>1, <1>3, <1>6, <2>1, <2>6, <2>8, SaveInv
<1> QED
  BY <1>4, <1>5, <1>6

(* Every step keeps the invariant. *)
LEMMA NextInv == AgentInv /\ [Next]_vars => AgentInv'
<1> SUFFICES ASSUME AgentInv, [Next]_vars PROVE AgentInv'
  OBVIOUS
<1>1. CASE LeaseExpires \/ Resume
  BY <1>1, LeaseExpiresInv
<1>2. ASSUME NEW n \in Attempts, Claim(n) \/ Crash(n) PROVE AgentInv'
  BY <1>2, ClaimInv, CrashInv
<1>3. ASSUME NEW n \in Attempts, Replay(n) \/ RunTool(n) PROVE AgentInv'
  <2>1. agent[n].pc \in Working
    BY <1>3 DEF Replay, RunTool, At, Working
  <2> QED
    BY <1>3, <2>1, DispatchInv DEF Replay, RunTool
<1>4. ASSUME NEW n \in Attempts, Work(n) PROVE AgentInv'
  BY <1>3, <1>4, PrepareInv, BaselineRefusedInv, BeginInv, UpdateStateInv, InvokeInv,
     CallModelInv, CallEndsInv, RespondInv, PersistInv, OnCheckpointInv, ToolsAnsweredInv,
     VerifyInv, ReportInv DEF Work
<1>5. CASE UNCHANGED vars
  BY <1>5 DEF vars, platform, AgentInv, TypeOK, PlatformOK, HistoryOK, WorkerOK, OwnerOK, Claimed,
        Backed, FreshUnsaved, CacheOK, Clean
<1> QED
  BY <1>1, <1>2, <1>4, <1>5 DEF Next

-----------------------------------------------------------------------------
(* Theorems *)

(* AgentInv is an invariant: caches, workspaces and checkpoints agree with  *)
(* what the histories in workers and thread say since their last start.     *)
THEOREM AgentInvariance == Spec => []AgentInv
<1>1. Init => AgentInv
  BY InitInv
<1>2. AgentInv /\ [Next]_vars => AgentInv'
  BY NextInv
<1> QED
  BY <1>1, <1>2, PTL DEF Spec

(* The types; in particular the turn kept in the thread stays within the    *)
(* budget of graph.py's _agent_node over all resumes, and applyPolicy       *)
(* commands no attempt beyond run.maxAttempts.                              *)
THEOREM AgentTypeCorrect == Spec => []TypeOK
<1>1. AgentInv => TypeOK
  BY DEF AgentInv
<1> QED
  BY <1>1, AgentInvariance, PTL

(* A cached call has its patch in the workspace and in the checkpoint, and  *)
(* what the tools node answered since the last start of the agent, in the   *)
(* owner's history, is in its workspace.                                    *)
THEOREM PatchesAreThere == Spec => []WorkspaceHolds
<1>1. ASSUME AgentInv PROVE WorkspaceHolds
  <2>1. CacheOK(checkpoint) /\ no \in Attempts
    BY <1>1 DEF AgentInv, PlatformOK, TypeOK
  <2>2. ASSUME NEW n \in Attempts PROVE agent[n].completed \subseteq agent[n].ws
    BY <1>1 DEF AgentInv, WorkerOK, CacheOK
  <2>3. ASSUME NEW n \in Attempts, n = no, status = "RUNNING", agent[n].pc \in Histories,
               agent[n].mem.root = agent[n].base.lineage
        PROVE  agent[n].mem.applied \ agent[n].mem.replayed \subseteq agent[n].ws
    <3>1. /\ OwnerOK(n, agent[n])
          /\ Backed(agent[n].mem.root, agent[n].mem.applied \ agent[n].mem.replayed)
      BY <1>1 DEF AgentInv, WorkerOK, HistoryOK
    <3>2. agent[n].pc \in Working
      BY <2>3 DEF Histories, Working
    <3>3. CASE agent[n].base.lineage = checkpoint.lineage
      BY <2>3, <3>1, <3>2, <3>3 DEF OwnerOK, Backed
    <3>4. CASE agent[n].base.lineage # checkpoint.lineage
      BY <2>3, <3>1, <3>2, <3>4 DEF OwnerOK, Backed, FreshUnsaved
    <3> QED
      BY <3>3, <3>4
  <2> QED
    BY <2>1, <2>2, <2>3 DEF WorkspaceHolds, CacheOK
<1>2. AgentInv => WorkspaceHolds
  BY <1>1
<1> QED
  BY <1>2, AgentInvariance, PTL

(* A delivered patch passed V1, V2 and V6 as it is delivered, whatever      *)
(* earlier attempts left in workspaces and checkpoints.                     *)
THEOREM DeliveredIsClean == Spec => []SuccessIsClean
<1>1. AgentInv => SuccessIsClean
  BY DEF AgentInv, PlatformOK, SuccessIsClean, Clean
<1> QED
  BY <1>1, AgentInvariance, PTL

(* saveCheckpoint never replaces a checkpoint by one of the same start that *)
(* lacks a patch, since only the owner's request passes the lease check and *)
(* the owner restored what was saved.                                       *)
THEOREM CheckpointsKeepPatches == Spec => ProgressKept
<1>1. ASSUME AgentInv, [Next]_vars
      PROVE  [checkpoint'.lineage = checkpoint.lineage
                 => checkpoint.ws \subseteq checkpoint'.ws]_vars
  <2>1. ASSUME NEW n \in Attempts, OnCheckpoint(n), checkpoint' # checkpoint,
               checkpoint'.lineage = checkpoint.lineage
        PROVE  checkpoint.ws \subseteq checkpoint'.ws
    <3>1. /\ HoldsLease(n) /\ checkpoint' = CheckpointOf(agent[n]) /\ agent[n].pc = "save"
          /\ OwnerOK(n, agent[n])
      BY <1>1, <2>1 DEF OnCheckpoint, At, AgentInv
    <3>2. checkpoint'.lineage = agent[n].base.lineage /\ checkpoint'.ws = agent[n].ws
      BY <3>1 DEF CheckpointOf
    <3> QED
      BY <2>1, <3>1, <3>2 DEF OwnerOK, HoldsLease, Working
  <2>2. checkpoint' = checkpoint \/ \E n \in Attempts : OnCheckpoint(n)
    BY <1>1 DEF Next, vars, platform, LeaseExpires, Resume, Recover, Claim, Crash, Work, Prepare,
          BaselineRefused, Begin, Replay, RunTool, Dispatch, UpdateState, Invoke, CallModel,
          CallFails, CallStops, Respond, Persist, ToolsAnswered, Verify, Report
  <2> QED
    BY <2>1, <2>2
<1>2. AgentInv /\ [Next]_vars
        => [checkpoint'.lineage = checkpoint.lineage
               => checkpoint.ws \subseteq checkpoint'.ws]_vars
  BY <1>1
<1> QED
  BY <1>2, AgentInvariance, PTL DEF Spec, ProgressKept

=============================================================================
