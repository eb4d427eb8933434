------------------------------ MODULE Dispatch ------------------------------
(***************************************************************************)
(* How the command of an attempt reaches a worker: the transactional       *)
(* outbox and its publisher (OutboxPublisher), the Redis stream with its   *)
(* consumer group (external), and the worker processes that read, reclaim, *)
(* claim, execute and acknowledge (worker.py).                             *)
(*                                                                         *)
(* The run itself takes the steps of RunContract, which RunLifecycle       *)
(* implements; a command row is written in the transaction that makes the  *)
(* run wait, as there.                                                     *)
(*                                                                         *)
(* Worker crashes, control-plane restarts, failed or unanswered calls and  *)
(* the loss of Redis' data are faults, at most MaxFaults of them.  Ages    *)
(* (60 s before a row is published again, the idle time before an entry is *)
(* reclaimed, the hour a key lives) may be reached at any time.            *)
(***************************************************************************)
EXTENDS Naturals, Sequences, FiniteSets

CONSTANTS
    MaxAttempts,    \* run.maxAttempts
    Workers,        \* worker processes (consumers of the group)
    Slots,          \* identities of delivered stream entries
    Kinds,          \* subset of BOOLEAN: TRUE, a fixture run (no snapshot)
    MaxStream,      \* bound on the undelivered entries
    MaxFaults       \* bound on the faults

ASSUME DispatchAssumption ==
    /\ MaxAttempts \in Nat \ {0}
    /\ MaxStream \in Nat \ {0}
    /\ MaxFaults \in Nat
    /\ Kinds \subseteq BOOLEAN

VARIABLES
    legacy,         \* command.snapshot is None
    mode, epoch,    \* the run, as in RunContract
    msg,            \* OutboxMessage.status by attempt number ("NONE": no row)
    due,            \* attempts whose message has notBefore in the past
    pub,            \* OutboxPublisher.tick: where it is, the rows it has yet to do
    stream,         \* undelivered entries of run-commands (attempt numbers)
    pel,            \* pending entries of the group, by identity (0: none)
    key,            \* attempts whose cmd:{commandId} key exists
    worker,         \* the worker processes
    lost,           \* history: Redis has lost its data
    faults

runState == <<mode, epoch>>
redis == <<stream, pel, key, lost>>
vars == <<legacy, runState, msg, due, pub, redis, worker, faults>>

Run == INSTANCE RunContract

Attempts == 1..MaxAttempts
Idle == [pc |-> "idle", entry |-> <<>>, todo |-> {}]
Down == [pc |-> "down", entry |-> <<>>, todo |-> {}]
PublisherIdle == [pc |-> "idle", batch |-> {}]
Reconciled == [pc |-> "read", batch |-> {}]
Entries == Slots \X Attempts
Pending == {s \in Slots : pel[s] # 0}

(* The slots a worker knows of, acknowledged by another worker or not. *)
Held(w) == {e[1] : e \in worker[w].todo}
    \union (IF worker[w].entry = <<>> THEN {} ELSE {worker[w].entry[1]})
FreeSlots == Slots \ (Pending \union UNION {Held(w) : w \in Workers})

(* TypeOK: every row, entry and process keeps its type; a worker holds an  *)
(* entry exactly while it handles one.                                     *)
TypeOK ==
    /\ legacy \in BOOLEAN
    /\ mode \in {"waiting", "working", "parked"} \union Run!Ends
    /\ epoch \in 0..MaxAttempts
    /\ msg \in [Attempts -> {"NONE", "PENDING", "PUBLISHED"}]
    /\ due \subseteq Attempts
    /\ pub.pc \in {"idle", "find", "repend", "read", "publish", "mark"}
    /\ pub.batch \subseteq Attempts
    /\ (pub.pc \in {"repend", "publish", "mark"}) <=> (pub.batch # {})
    /\ stream \in Seq(Attempts)
    /\ pel \in [Slots -> 0..MaxAttempts]
    /\ key \subseteq Attempts
    /\ \A w \in Workers :
          /\ worker[w].pc \in {"down", "idle", "got", "claim", "execute", "ack"}
          /\ worker[w].todo \subseteq Entries
          /\ IF worker[w].pc \in {"down", "idle"} THEN worker[w].entry = <<>>
                                                 ELSE worker[w].entry \in Entries
    /\ lost \in BOOLEAN
    /\ faults \in 0..MaxFaults

(* createTask and confirm write the first command with the run. *)
Init ==
    /\ legacy \in Kinds
    /\ mode = "waiting" /\ epoch = 0
    /\ msg = [n \in Attempts |-> IF n = 1 THEN "PENDING" ELSE "NONE"]
    /\ due = {1}
    /\ pub = PublisherIdle
    /\ stream = <<>> /\ pel = [s \in Slots |-> 0] /\ key = {} /\ lost = FALSE
    /\ worker = [w \in Workers |-> Idle]
    /\ faults = 0

Fault == faults < MaxFaults /\ faults' = faults + 1
NoFault == UNCHANGED faults

-----------------------------------------------------------------------------
(* The run. *)

(* Recovery or a manual resume: the run waits again, its command is in the *)
(* outbox, perhaps not to be published before a back-off has passed.       *)
RunWaitsAgain ==
    /\ Run!Retry
    /\ msg' = [msg EXCEPT ![epoch + 1] = "PENDING"]
    /\ due' \in {due, due \union {epoch + 1}}

AttemptEnds == RunWaitsAgain \/ (Run!Finish /\ UNCHANGED <<msg, due>>)

LeaseExpires ==
    /\ mode = "working" /\ AttemptEnds
    /\ NoFault /\ UNCHANGED <<legacy, pub, redis, worker>>

Resume ==
    /\ mode = "parked" /\ RunWaitsAgain
    /\ NoFault /\ UNCHANGED <<legacy, pub, redis, worker>>

Cancel ==
    /\ Run!Cancel
    /\ NoFault /\ UNCHANGED <<legacy, msg, due, pub, redis, worker>>

BackoffEnds ==
    /\ \E n \in Attempts \ due : msg[n] # "NONE" /\ due' = due \union {n}
    /\ NoFault /\ UNCHANGED <<legacy, runState, msg, pub, redis, worker>>

-----------------------------------------------------------------------------
(* The publisher.  A tick that was entered is not entered again (running). *)

Latest == CHOOSE n \in Attempts :
    msg[n] # "NONE" /\ \A m \in Attempts : msg[m] # "NONE" => m <= n
Queued == {n \in due : msg[n] = "PENDING"}

(* Rows are taken in the order they were created in, by attempt number. *)
Message == CHOOSE n \in pub.batch : \A m \in pub.batch : n <= m

(* Reconciliation: read the waiting runs, then the newest command of each, *)
(* and make a command that was published but not claimed PENDING again.    *)
(* The tick then goes on to the queue; most ticks start there.             *)
ReconcileRuns ==
    /\ pub.pc = "idle" /\ mode = "waiting"
    /\ pub' = [pub EXCEPT !.pc = "find"]
    /\ NoFault /\ UNCHANGED <<legacy, runState, msg, due, redis, worker>>

ReconcileFind ==
    /\ pub.pc = "find"
    /\ \/ msg[Latest] = "PUBLISHED" /\ pub' = [pc |-> "repend", batch |-> {Latest}]
       \/ pub' = Reconciled              \* still PENDING, or published lately
    /\ NoFault /\ UNCHANGED <<legacy, runState, msg, due, redis, worker>>

ReconcileMarkNothing ==
    /\ pub.pc = "repend"
    /\ pub' = Reconciled
    /\ NoFault /\ UNCHANGED <<legacy, runState, msg, due, redis, worker>>
ReconcileMark ==
    /\ pub.pc = "repend"
    /\ msg' = [msg EXCEPT ![Message] = "PENDING"]
    /\ pub' = Reconciled
    /\ NoFault /\ UNCHANGED <<legacy, runState, due, redis, worker>>

ReadQueued ==
    /\ pub.pc = "read" \/ (pub.pc = "idle" /\ Queued # {})
    /\ pub' = IF Queued = {} THEN PublisherIdle ELSE [pc |-> "publish", batch |-> Queued]
    /\ NoFault /\ UNCHANGED <<legacy, runState, msg, due, redis, worker>>

NextMessageUnchecked == pub' = [pc |-> "publish", batch |-> pub.batch \ {Message}]
NextMessage ==
    pub' = IF pub.batch = {Message} THEN PublisherIdle
                                    ELSE [pc |-> "publish", batch |-> pub.batch \ {Message}]

XAdd ==
    /\ pub.pc = "publish" /\ Len(stream) < MaxStream
    /\ stream' = Append(stream, Message)
    /\ pub' = [pub EXCEPT !.pc = "mark"]
    /\ NoFault /\ UNCHANGED <<legacy, runState, msg, due, pel, key, lost, worker>>

(* Nothing was appended, or it was and the answer or the update of the row *)
(* failed: the row stays PENDING and a later tick publishes it (again).    *)
PublishFailsMarked ==
    /\ pub.pc \in {"publish", "mark"}
    /\ NextMessage
    /\ msg' = [msg EXCEPT ![Message] = "PUBLISHED"]
    /\ Fault /\ UNCHANGED <<legacy, runState, due, redis, worker>>
PublishFails ==
    /\ pub.pc \in {"publish", "mark"}
    /\ NextMessage
    /\ Fault /\ UNCHANGED <<legacy, runState, msg, due, redis, worker>>

MarkPublished ==
    /\ pub.pc = "mark"
    /\ msg' = [msg EXCEPT ![Message] = "PUBLISHED"]
    /\ NextMessage
    /\ NoFault /\ UNCHANGED <<legacy, runState, due, redis, worker>>

ControlPlaneRestarts ==
    /\ pub # PublisherIdle /\ pub' = PublisherIdle
    /\ Fault /\ UNCHANGED <<legacy, runState, msg, due, redis, worker>>

-----------------------------------------------------------------------------
(* Redis. *)

KeyExpires ==
    /\ \E n \in key : key' = key \ {n}
    /\ NoFault /\ UNCHANGED <<legacy, runState, msg, due, pub, stream, pel, lost, worker>>

RedisLosesData ==
    /\ stream' = <<>> /\ pel' = [s \in Slots |-> 0] /\ key' = {} /\ lost' = TRUE
    /\ Fault /\ UNCHANGED <<legacy, runState, msg, due, pub, worker>>

Ack(w) == pel' = [pel EXCEPT ![worker[w].entry[1]] = 0]

-----------------------------------------------------------------------------
(* A worker.  One process handles one entry at a time; Done(w) returns it  *)
(* to its loop, or to the rest of the entries it has reclaimed.            *)

No(w) == worker[w].entry[2]
Goto(w, pc) == worker' = [worker EXCEPT ![w].pc = pc]
Done(w) == worker' = [worker EXCEPT ![w].pc = "idle", ![w].entry = <<>>]

(* XREADGROUP with count 1: the oldest undelivered entry becomes pending.  *)
ReadGroup(w) ==
    /\ worker[w].pc = "idle" /\ worker[w].todo = {} /\ stream # <<>> /\ FreeSlots # {}
    /\ LET s == CHOOSE t \in FreeSlots : TRUE IN
         /\ pel' = [pel EXCEPT ![s] = Head(stream)]
         /\ worker' = [worker EXCEPT ![w].pc = "got", ![w].entry = <<s, Head(stream)>>]
    /\ stream' = Tail(stream)
    /\ NoFault /\ UNCHANGED <<legacy, runState, msg, due, pub, key, lost>>

(* XAUTOCLAIM: whichever pending entries have been idle for long enough,   *)
(* those another worker is still executing included.                       *)
reclaim_pending(w) ==
    /\ worker[w].pc = "idle" /\ worker[w].todo = {}
    /\ \E S \in SUBSET Pending \ {{}} :
          worker' = [worker EXCEPT ![w].todo = {<<s, pel[s]>> : s \in S}]
    /\ NoFault /\ UNCHANGED <<legacy, runState, msg, due, pub, redis>>

TakeReclaimed(w) ==
    /\ worker[w].pc = "idle"
    /\ \E e \in worker[w].todo :
          worker' = [worker EXCEPT ![w] = [pc |-> "got", entry |-> e, todo |-> @.todo \ {e}]]
    /\ NoFault /\ UNCHANGED <<legacy, runState, msg, due, pub, redis>>

(* SET cmd:{commandId} NX, for the commands of fixture runs only. *)
CommandIsNew(w) ==
    /\ worker[w].pc = "got" /\ ~(legacy /\ No(w) \in key)
    /\ key' = IF legacy THEN key \union {No(w)} ELSE key
    /\ Goto(w, "claim")
    /\ NoFault /\ UNCHANGED <<legacy, runState, msg, due, pub, stream, pel, lost>>

CommandIsDuplicate(w) ==
    /\ worker[w].pc = "got" /\ legacy /\ No(w) \in key
    /\ Ack(w) /\ Done(w)
    /\ NoFault /\ UNCHANGED <<legacy, runState, msg, due, pub, stream, key, lost>>

(* POST /internal/attempts/claim *)
ClaimGranted(w) ==
    /\ worker[w].pc = "claim" /\ No(w) = epoch + 1
    /\ Run!Grant
    /\ Goto(w, "execute")
    /\ NoFault /\ UNCHANGED <<legacy, msg, due, pub, redis>>

(* The attempt exists (duplicate: true) or is not dispatchable (409). *)
ClaimRefusedExecuted(w) ==
    /\ worker[w].pc = "claim" /\ ~(mode = "waiting" /\ No(w) = epoch + 1)
    /\ Goto(w, "execute")
    /\ NoFault /\ UNCHANGED <<legacy, runState, msg, due, pub, redis>>
ClaimRefusedKept(w) ==
    /\ worker[w].pc = "claim" /\ ~(mode = "waiting" /\ No(w) = epoch + 1)
    /\ Done(w)
    /\ NoFault /\ UNCHANGED <<legacy, runState, msg, due, pub, redis>>
ClaimRefused(w) ==
    /\ worker[w].pc = "claim" /\ ~(mode = "waiting" /\ No(w) = epoch + 1)
    /\ Ack(w) /\ Done(w)
    /\ NoFault /\ UNCHANGED <<legacy, runState, msg, due, pub, stream, key, lost>>

(* A 5xx answer or no connection: the exception leaves the entry pending.  *)
ClaimFailsAcked(w) ==
    /\ worker[w].pc = "claim"
    /\ Ack(w) /\ Done(w)
    /\ Fault /\ UNCHANGED <<legacy, runState, msg, due, pub, stream, key, lost>>
ClaimFails(w) ==
    /\ worker[w].pc = "claim"
    /\ Done(w)
    /\ Fault /\ UNCHANGED <<legacy, runState, msg, due, pub, redis>>

(* The attempt is created but the worker never sees the answer. *)
ClaimAnswerLost(w) ==
    /\ worker[w].pc = "claim" /\ No(w) = epoch + 1
    /\ Run!Grant
    /\ Done(w)
    /\ Fault /\ UNCHANGED <<legacy, msg, due, pub, redis>>

(* The execution ends and is reported: complete_attempt or pause end the   *)
(* attempt if it is still the one at work, and are refused otherwise.      *)
Report(w) ==
    /\ worker[w].pc = "execute"
    /\ IF mode = "working" /\ No(w) = epoch
       THEN AttemptEnds
       ELSE UNCHANGED <<runState, msg, due>>
    /\ Goto(w, "ack")
    /\ NoFault /\ UNCHANGED <<legacy, pub, redis>>

(* Neither report gets through; the lease decides. *)
ReportFails(w) ==
    /\ worker[w].pc = "execute"
    /\ Goto(w, "ack")
    /\ Fault /\ UNCHANGED <<legacy, runState, msg, due, pub, redis>>

Acknowledge(w) ==
    /\ worker[w].pc = "ack"
    /\ Ack(w) /\ Done(w)
    /\ NoFault /\ UNCHANGED <<legacy, runState, msg, due, pub, stream, key, lost>>

AcknowledgeFails(w) ==
    /\ worker[w].pc = "ack"
    /\ Done(w)
    /\ Fault /\ UNCHANGED <<legacy, runState, msg, due, pub, redis>>

(* A crash or a forced exit; a graceful stop with an entry just read also  *)
(* leaves that entry pending.  What is left in todo stays pending as well. *)
Crash(w) ==
    /\ worker[w].pc # "down"
    /\ worker' = [worker EXCEPT ![w] = Down]
    /\ Fault /\ UNCHANGED <<legacy, runState, msg, due, pub, redis>>

Start(w) ==
    /\ worker[w].pc = "down"
    /\ worker' = [worker EXCEPT ![w] = Idle]
    /\ NoFault /\ UNCHANGED <<legacy, runState, msg, due, pub, redis>>

-----------------------------------------------------------------------------
RunStep == LeaseExpires \/ Resume \/ Cancel

PublisherStep ==
    \/ ReconcileRuns \/ ReconcileFind \/ ReconcileMark
    \/ ReadQueued \/ XAdd \/ MarkPublished

handle_entry(w) ==
    \/ CommandIsNew(w) \/ CommandIsDuplicate(w)
    \/ ClaimGranted(w) \/ ClaimRefused(w)
    \/ Report(w) \/ Acknowledge(w)

run_forever(w) == ReadGroup(w) \/ reclaim_pending(w) \/ TakeReclaimed(w) \/ handle_entry(w)

Failure ==
    \/ PublishFails \/ ControlPlaneRestarts \/ RedisLosesData
    \/ \E w \in Workers : \/ ClaimFails(w) \/ ClaimAnswerLost(w) \/ ReportFails(w)
                          \/ AcknowledgeFails(w) \/ Crash(w)

Next ==
    \/ RunStep \/ BackoffEnds \/ PublisherStep \/ KeyExpires \/ Failure
    \/ \E w \in Workers : run_forever(w) \/ Start(w)

Spec == Init /\ [][Next]_vars

(* The publisher's timer, back-off and key expiry fire, and sooner or later *)
(* a reconciliation finds the row old enough.  A worker that is up keeps   *)
(* looping: it handles what it has, reads what is new, reclaims what stays *)
(* pending, and its execution ends (turns, time and commands are bounded). *)
(* Nothing makes a lease expire, a run resume or a stopped worker start.   *)
Fairness ==
    /\ WF_vars(BackoffEnds) /\ WF_vars(KeyExpires) /\ WF_vars(PublisherStep)
    /\ SF_vars(ReconcileFind /\ pub'.pc = "repend")
    /\ \A w \in Workers :
          /\ WF_vars(handle_entry(w) \/ TakeReclaimed(w))
          /\ SF_vars(ReadGroup(w)) /\ SF_vars(reclaim_pending(w) /\ Pending \subseteq Held(w)')

FairSpec == Spec /\ Fairness

-----------------------------------------------------------------------------
(* ExecutedOnce: however often a command is published, delivered and       *)
(* reclaimed, no two workers execute the same attempt, and none executes   *)
(* an attempt that was not claimed.                                        *)
ExecutedOnce ==
    \A w \in Workers : worker[w].pc = "execute" =>
        /\ No(w) <= epoch
        /\ \A v \in Workers \ {w} : worker[v].pc = "execute" => No(v) # No(w)

(* A command that was published for a waiting run is still in the stream,  *)
(* undelivered or pending, as long as Redis keeps its data.                *)
StillInStream ==
    mode = "waiting" /\ ~lost /\ msg[epoch + 1] = "PUBLISHED" =>
        \/ \E i \in 1..Len(stream) : stream[i] = epoch + 1
        \/ \E s \in Slots : pel[s] = epoch + 1

(* CommandKept: handle_entry acknowledges the command of a snapshot run    *)
(* only when nobody needs it any more: crashes, failed claims and          *)
(* reclaiming never lose the command a waiting run depends on.             *)
CommandKept == ~legacy => StillInStream

(* FixtureCommandKept: what worker.py says of every command: a command     *)
(* that was not consumed stays pending until it is.                        *)
FixtureCommandKept == legacy => StillInStream

AllDown == \A w \in Workers : worker[w].pc = "down"

(* WaitingIsClaimed: whatever was lost, failed or crashed on the way, a    *)
(* waiting run is given its next attempt (or cancelled) as long as a       *)
(* worker is up: the publisher repeats the command until it is claimed.    *)
WaitingIsClaimed == mode = "waiting" ~> (mode # "waiting" \/ AllDown)

(* PendingDrains: an entry left pending by a crash or an error is          *)
(* reclaimed and acknowledged in the end: none circulates for ever, and    *)
(* what is delivered meanwhile does not keep the list from emptying.       *)
PendingDrains == Pending # {} ~> (Pending = {} \/ AllDown)
=============================================================================
