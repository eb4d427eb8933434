----------------------------- MODULE WorkerHost -----------------------------
(***************************************************************************)
(* What the workers of one host share: the evidence spool (rt/evidence.py), *)
(* the images of prepared environments (rt/environment/builder.py) and the *)
(* sandbox containers (rt/sandbox/provider.py), which a starting worker    *)
(* sweeps (rt/worker.py).  rt is apps/agent-runtime/src/arp_runtime.       *)
(*                                                                         *)
(* A worker is between two entries (it flushes the spool), or it executes  *)
(* one attempt of a snapshot task: environment, sandbox, evidence, report. *)
(* All tasks have the same dependencies, hence one fingerprint, one lock   *)
(* and one tag; an image is the number of the build that made it.          *)
(***************************************************************************)
EXTENDS Naturals, FiniteSets

CONSTANTS
    Workers,
    MaxAttempts,  \* attempts take turns between two runs
    Savers,       \* attempts that come to save evidence
    MaxSaves,     \* evidence such an attempt saves
    MaxFaults     \* crashes, lost answers and late heartbeats

ASSUME HostAssumption ==
    /\ MaxAttempts \in Nat \ {0} /\ MaxSaves \in Nat \ {0} /\ MaxFaults \in Nat
    /\ IsFiniteSet(Workers) /\ Savers \subseteq 1 .. MaxAttempts

VARIABLES
    lease,       \* of each attempt: new, live, lapsed, revived, ended
    pinned,      \* run.imageId, 0 when unset
    row,         \* imageId of the EnvironmentVersion, 0 when there is none
    uploaded,    \* evidence of each attempt that the control plane has
    spool,       \* version in the attempt's file, 0 when there is no file
    saves,       \* versions saved so far
    containers,  \* attempts that have a sandbox container
    lock,        \* holder of the environment's lock file
    tag,         \* image the environment's tag names, 0 when there is none
    builds,      \* images built
    orphan,      \* a build that went on without its worker
    worker,      \* what each worker does
    faults

server == <<lease, pinned, row, uploaded>>
files == <<spool, saves>>
images == <<lock, tag, builds, orphan>>
vars == <<server, files, containers, images, worker, faults>>

Attempts == 1 .. MaxAttempts
RunOf(a) == a % 2
Runs == {RunOf(a) : a \in Attempts}

(* att: the attempt it executes; img: its image; list: files or containers  *)
(* it goes through; item, seen: the one in hand and the version it read.    *)
Resting(pc) == [pc |-> pc, att |-> 0, img |-> 0, list |-> {}, item |-> 0, seen |-> 0]

Init ==
    /\ lease = [a \in Attempts |-> "new"]
    /\ pinned = [r \in Runs |-> 0] /\ row = 0
    /\ uploaded = [a \in Attempts |-> {}]
    /\ spool = [a \in Attempts |-> 0] /\ saves = [a \in Attempts |-> 0]
    /\ containers = {}
    /\ lock = {} /\ tag = 0 /\ builds = 0 /\ orphan = "none"
    /\ worker = [w \in Workers |-> Resting("down")]
    /\ faults = 0

At(w, pc) == worker[w].pc = pc
Goes(w, state) == worker' = [worker EXCEPT ![w] = state]

(* GET attempts/:id/active *)
Active(a) == lease[a] \in {"live", "revived"}

Fault == faults < MaxFaults /\ faults' = faults + 1

-----------------------------------------------------------------------------
(* cleanup_orphan_sandboxes: list the containers, ask for each attempt,     *)
(* remove those of inactive ones.  Any error ends the sweep.                *)

Start(w) ==
    /\ At(w, "down")
    /\ Goes(w, [Resting("sweep") EXCEPT !.list = containers])
    /\ UNCHANGED <<server, files, containers, images, faults>>

(* Slip: every labelled container counts as left over. *)
LeftOverAny(a) == TRUE

LeftOver(a) == ~ Active(a)

SweepAsk(w) ==
    /\ At(w, "sweep")
    /\ \E a \in worker[w].list :
           Goes(w, IF LeftOver(a) THEN [worker[w] EXCEPT !.pc = "remove", !.item = a]
                                  ELSE [worker[w] EXCEPT !.list = @ \ {a}])
    /\ UNCHANGED <<server, files, containers, images, faults>>

SweepRemove(w) ==
    /\ At(w, "remove")
    /\ containers' = containers \ {worker[w].item}
    /\ Goes(w, IF worker[w].item \in containers
               THEN [Resting("sweep") EXCEPT !.list = worker[w].list \ {worker[w].item}]
               ELSE Resting("ready"))
    /\ UNCHANGED <<server, files, images, faults>>

SweepEnds(w) ==
    /\ At(w, "sweep")
    /\ \/ worker[w].list = {} /\ UNCHANGED faults
       \/ Fault
    /\ Goes(w, Resting("ready"))
    /\ UNCHANGED <<server, files, containers, images>>

-----------------------------------------------------------------------------
(* flush_evidence, at the head of every round of run_forever.  The first    *)
(* error ends the flush; files stay where they are.                         *)

Flush(w) ==
    /\ At(w, "ready")
    /\ \E a \in Attempts : spool[a] # 0
    /\ Goes(w, [Resting("flush") EXCEPT !.list = {a \in Attempts : spool[a] # 0}])
    /\ UNCHANGED <<server, files, containers, images, faults>>

FlushRead(w) ==
    /\ At(w, "flush")
    /\ \/ \E a \in worker[w].list :
              Goes(w, IF spool[a] = 0 THEN Resting("ready")
                      ELSE [worker[w] EXCEPT !.pc = "post", !.item = a, !.seen = spool[a]])
       \/ worker[w].list = {} /\ Goes(w, Resting("ready"))
    /\ UNCHANGED <<server, files, containers, images, faults>>

(* The control plane keeps every version it is sent (evidence upsert). *)
FlushPost(w) ==
    /\ At(w, "post")
    /\ uploaded' = [uploaded EXCEPT ![worker[w].item] = @ \union {worker[w].seen}]
    /\ Goes(w, [worker[w] EXCEPT !.pc = "unlink"])
    /\ UNCHANGED <<lease, pinned, row, files, containers, images, faults>>

(* Slip: an error answer is not raised. *)
AfterRefusalUnlink(me) == [me EXCEPT !.pc = "unlink"]

AfterRefusal(me) == Resting("ready")

FlushFails(w) ==
    /\ At(w, "post") /\ Fault
    /\ Goes(w, AfterRefusal(worker[w]))
    /\ UNCHANGED <<server, files, containers, images>>

(* unlink removes whatever the file holds by now. *)
FlushUnlink(w) ==
    LET a == worker[w].item
    IN  /\ At(w, "unlink")
        /\ spool' = [spool EXCEPT ![a] = 0]
        /\ Goes(w, IF spool[a] = 0 THEN Resting("ready")
                   ELSE [Resting("flush") EXCEPT !.list = worker[w].list \ {a}])
        /\ UNCHANGED <<server, saves, containers, images, faults>>

-----------------------------------------------------------------------------
(* prepare_environment and the pin of the run's image *)

(* External: an attempt is claimed once the one before it has ended. *)
Claim(w) ==
    /\ At(w, "ready")
    /\ \E a \in Attempts :
           /\ lease[a] = "new"
           /\ \A b \in Attempts : b < a /\ RunOf(b) = RunOf(a) => lease[b] = "ended"
           /\ lease' = [lease EXCEPT ![a] = "live"]
           /\ Goes(w, [Resting("look") EXCEPT !.att = a])
    /\ UNCHANGED <<pinned, row, uploaded, files, containers, images, faults>>

(* pause(ENVIRONMENT_ERROR) ends the attempt; without a lease it is refused. *)
Ended(a) == lease' = IF Active(a) THEN [lease EXCEPT ![a] = "ended"] ELSE lease

Gives(w) == Ended(worker[w].att) /\ Goes(w, Resting("ready")) /\ UNCHANGED <<pinned, row, uploaded>>

Uses(w, img) == Goes(w, [worker[w] EXCEPT !.pc = "pin", !.img = img])

(* The pinned image of the run, else the cached one, else a build. *)
Look(w) ==
    LET pin == pinned[RunOf(worker[w].att)]
    IN  /\ At(w, "look")
        /\ IF ~ Active(worker[w].att) THEN Gives(w)
           ELSE /\ CASE pin # 0 -> Uses(w, pin)
                     [] pin = 0 /\ tag # 0 -> Uses(w, tag)
                     [] OTHER -> Goes(w, [worker[w] EXCEPT !.pc = "lock"])
                /\ UNCHANGED server
        /\ UNCHANGED <<files, containers, images, faults>>

(* Slip: the lock is shared (LOCK_SH). *)
LockFreeToAll == TRUE

LockFree == lock = {}

(* The loop around flock checks the lease and the deadline. *)
Lock(w) ==
    /\ At(w, "lock")
    /\ Active(worker[w].att) /\ LockFree
    /\ lock' = lock \union {w}
    /\ Goes(w, [worker[w] EXCEPT !.pc = "recheck"])
    /\ UNCHANGED <<server, files, containers, tag, builds, orphan, faults>>

LockGivenUp(w) ==
    /\ At(w, "lock")
    /\ lock # {} \/ ~ Active(worker[w].att)
    /\ Gives(w)
    /\ UNCHANGED <<files, containers, images, faults>>

(* Slip: the look under the lock is left out. *)
CachedNever == FALSE

Cached == tag # 0

(* Under the lock the cache is looked at again before a build begins. *)
Recheck(w) ==
    /\ At(w, "recheck")
    /\ IF Cached THEN Uses(w, tag) /\ lock' = {}
                 ELSE Goes(w, [worker[w] EXCEPT !.pc = "build"]) /\ UNCHANGED lock
    /\ UNCHANGED <<server, files, containers, tag, builds, orphan, faults>>

(* docker build tags a complete image only. *)
BuildEnds(w) ==
    /\ At(w, "build")
    /\ builds' = builds + 1 /\ tag' = builds'
    /\ Goes(w, [worker[w] EXCEPT !.pc = "built"])
    /\ UNCHANGED <<server, files, containers, lock, orphan, faults>>

(* After its build the worker asks the tag for the image. *)
Built(w) ==
    /\ At(w, "built")
    /\ Uses(w, tag) /\ lock' = {}
    /\ UNCHANGED <<server, files, containers, tag, builds, orphan, faults>>

(* The build fails, the deadline passes or the lease is lost: the process   *)
(* is stopped before the lock is released.                                  *)
BuildFails(w) ==
    /\ At(w, "build")
    /\ lock' = {} /\ Gives(w)
    /\ UNCHANGED <<files, containers, tag, builds, orphan, faults>>

(* Slip: the recorded image of the fingerprint is not compared. *)
MayPinUnchecked(r, img) == pinned[r] \in {0, img}

MayPin(r, img) == pinned[r] \in {0, img} /\ row \in {0, img}

(* RunControlService.environment *)
Pin(w) ==
    LET r == RunOf(worker[w].att)
        img == worker[w].img
    IN  /\ At(w, "pin")
        /\ IF Active(worker[w].att) /\ MayPin(r, img)
           THEN /\ row' = IF row = 0 THEN img ELSE row
                /\ pinned' = [pinned EXCEPT ![r] = img]
                /\ Goes(w, [worker[w] EXCEPT !.pc = "start"])
                /\ UNCHANGED <<lease, uploaded>>
           ELSE Gives(w)
        /\ UNCHANGED <<files, containers, images, faults>>

-----------------------------------------------------------------------------
(* The attempt itself *)

StartSandbox(w) ==
    /\ At(w, "start")
    /\ containers' = containers \union {worker[w].att}
    /\ Goes(w, [worker[w] EXCEPT !.pc = "work"])
    /\ UNCHANGED <<server, files, images, faults>>

(* save_evidence replaces the attempt's file; it asks nobody. *)
SaveEvidence(w) ==
    LET a == worker[w].att
    IN  /\ worker[w].pc \in {"work", "report"}
        /\ a \in Savers /\ saves[a] < MaxSaves
        /\ saves' = [saves EXCEPT ![a] = @ + 1]
        /\ spool' = [spool EXCEPT ![a] = saves'[a]]
        /\ UNCHANGED <<server, containers, images, worker, faults>>

Destroy(w) ==
    /\ At(w, "work")
    /\ containers' = containers \ {worker[w].att}
    /\ Goes(w, [worker[w] EXCEPT !.pc = "report"])
    /\ UNCHANGED <<server, files, images, faults>>

(* complete_attempt *)
Report(w) ==
    /\ At(w, "report")
    /\ Gives(w)
    /\ UNCHANGED <<files, containers, images, faults>>

-----------------------------------------------------------------------------
(* Faults and the control plane *)

(* The lock is released with the process; its docker build may go on. *)
Crash(w) ==
    /\ ~ At(w, "down") /\ Fault
    /\ lock' = lock \ {w}
    /\ orphan' \in IF At(w, "build") /\ orphan = "none" THEN {"none", "running"} ELSE {orphan}
    /\ Goes(w, Resting("down"))
    /\ UNCHANGED <<server, files, containers, tag, builds>>

OrphanEnds ==
    /\ orphan = "running" /\ orphan' = "over"
    /\ builds' = builds + 1 /\ tag' = builds'
    /\ UNCHANGED <<server, files, containers, lock, worker, faults>>

(* A lease lapses; a heartbeat that passed the lease check before may bring *)
(* it back, else the monitor ends the attempt.                              *)
LeaseStep(a) ==
    /\ \/ lease[a] = "live" /\ lease' = [lease EXCEPT ![a] = "lapsed"] /\ UNCHANGED faults
       \/ lease[a] = "lapsed" /\ lease' = [lease EXCEPT ![a] = "revived"] /\ Fault
       \/ /\ lease[a] \in {"lapsed", "revived"}
          /\ lease' = [lease EXCEPT ![a] = "ended"] /\ UNCHANGED faults
    /\ UNCHANGED <<pinned, row, uploaded, files, containers, images, worker>>

Work(w) ==
    \/ SweepAsk(w) \/ SweepRemove(w) \/ SweepEnds(w)
    \/ Flush(w) \/ FlushRead(w) \/ FlushPost(w) \/ FlushFails(w) \/ FlushUnlink(w)
    \/ Look(w) \/ Lock(w) \/ LockGivenUp(w) \/ Recheck(w)
    \/ BuildEnds(w) \/ Built(w) \/ BuildFails(w) \/ Pin(w)
    \/ StartSandbox(w) \/ SaveEvidence(w) \/ Destroy(w) \/ Report(w)

Next ==
    \/ \E w \in Workers : Start(w) \/ Claim(w) \/ Work(w) \/ Crash(w)
    \/ OrphanEnds
    \/ \E a \in Attempts : LeaseStep(a)

(* Workers are started again and go on. *)
Fairness == \A w \in Workers : WF_vars(Start(w)) /\ WF_vars(Work(w))

Spec == Init /\ [][Next]_vars /\ Fairness

-----------------------------------------------------------------------------
MaxBuilds == MaxAttempts + 1

(* The variables have their types; every attempt builds at most one image,  *)
(* and a build left alone one more.                                         *)
TypeOK ==
    /\ lease \in [Attempts -> {"new", "live", "lapsed", "revived", "ended"}]
    /\ pinned \in [Runs -> 0 .. MaxBuilds] /\ row \in 0 .. MaxBuilds
    /\ uploaded \in [Attempts -> SUBSET (1 .. MaxSaves)]
    /\ spool \in [Attempts -> 0 .. MaxSaves] /\ saves \in [Attempts -> 0 .. MaxSaves]
    /\ containers \subseteq Attempts
    /\ lock \subseteq Workers /\ Cardinality(lock) <= 1
    /\ tag \in 0 .. MaxBuilds /\ builds \in 0 .. MaxBuilds
    /\ orphan \in {"none", "running", "over"}
    /\ worker \in [Workers ->
           [pc : {"down", "sweep", "remove", "ready", "flush", "post", "unlink", "look",
                  "lock", "recheck", "build", "built", "pin", "start", "work", "report"},
            att : 0 .. MaxAttempts, img : 0 .. MaxBuilds, list : SUBSET Attempts,
            item : 0 .. MaxAttempts, seen : 0 .. MaxSaves]]
    /\ faults \in 0 .. MaxFaults

(* cleanup_orphan_sandboxes of a starting worker never takes the sandbox    *)
(* from an attempt at work whose lease has not lapsed, however the attempts *)
(* of the other workers start and end between its listing, its questions    *)
(* and its removals.                                                        *)
LiveSandboxKept ==
    \A w \in Workers :
        At(w, "work") /\ lease[worker[w].att] = "live" => worker[w].att \in containers

(* All attempts of a run, and all runs with the same dependencies, work in  *)
(* the image recorded for the fingerprint, even when a build left alone by  *)
(* its worker moves the tag.                                                *)
ImagesAgree ==
    /\ \A r \in Runs : pinned[r] \in {0, row}
    /\ \A w \in Workers : worker[w].pc \in {"start", "work"} => worker[w].img = row

(* "flock merges concurrent workers" (builder.py:57): the tag of an         *)
(* environment moves to another image only after a build was left alone.    *)
BuildMerged == [][tag # 0 /\ tag' # tag => orphan # "none"]_vars

(* Evidence that was saved reaches the control plane, in some version, over *)
(* crashes, lost answers and another worker that flushes the same files.    *)
EvidenceArrives ==
    \A a \in Attempts : saves[a] > 0 ~> uploaded[a] # {}
=============================================================================
