--------------------------- MODULE DispatchProofs ---------------------------
(***************************************************************************)
(* Proofs about Dispatch for every number of attempts, workers, entries    *)
(* and faults.                                                             *)
(*                                                                         *)
(* ExecutedOnce rests on the epoch: a claim is granted for the next        *)
(* attempt only, and what is executed already is not newer than the epoch. *)
(* CommandKept needs three more facts: what a worker holds is still what   *)
(* its slot of the pending list says (WorkerOK), rows exist up to the      *)
(* attempt the run waits for and no further (RowsOK), and a row about to   *)
(* be marked is already in the stream (CommandOnItsWay).                   *)
(***************************************************************************)
EXTENDS Dispatch, WellFoundedInduction, TLAPS

Busy == {"got", "claim", "execute", "ack"}
WorkerState ==
    [pc : {"down", "idle"} \union Busy, entry : Entries \union {<<>>}, todo : SUBSET Entries]

RowsOK ==
    /\ legacy \in BOOLEAN
    /\ mode \in {"waiting", "working", "parked"} \union Run!Ends
    /\ epoch \in 0..MaxAttempts
    /\ msg \in [Attempts -> {"NONE", "PENDING", "PUBLISHED"}]
    /\ due \subseteq Attempts
    /\ msg[1] # "NONE"
    /\ \A n \in Attempts : n <= epoch => msg[n] # "NONE"
    /\ \A n \in Attempts : n > epoch /\ msg[n] # "NONE"
          => n = epoch + 1 /\ mode \notin {"working", "parked"}
    /\ mode = "waiting" => epoch < MaxAttempts /\ msg[epoch + 1] # "NONE"

PublisherOK ==
    /\ pub \in [pc : {"idle", "find", "repend", "read", "publish", "mark"}, batch : SUBSET Attempts]
    /\ (pub.pc \in {"repend", "publish", "mark"}) <=> (pub.batch # {})
    /\ \A n \in pub.batch : msg[n] # "NONE"

RedisOK ==
    /\ stream \in Seq(Attempts)
    /\ pel \in [Slots -> 0..MaxAttempts]
    /\ key \subseteq Attempts
    /\ lost \in BOOLEAN
    /\ faults \in 0..MaxFaults

(* A worker with record me holds what the pending list says of the slot. *)
WorkerOK(me) ==
    /\ me.pc \in Busy => me.entry \in Entries /\ pel[me.entry[1]] \in {0, me.entry[2]}
    /\ me.pc \notin Busy => me.entry = <<>>
    /\ \A e \in me.todo : pel[e[1]] \in {0, e[2]}
    /\ me.pc \in {"execute", "ack"} => me.entry[2] <= epoch

(* The command of attempt n is in the stream, delivered or not. *)
InStream(n) ==
    \/ \E i \in 1..Len(stream) : stream[i] = n
    \/ \E s \in Slots : pel[s] = n

CommandOnItsWay ==
    /\ ~legacy /\ mode = "waiting" /\ ~lost
    /\ msg[epoch + 1] = "PUBLISHED" \/ (pub.pc = "mark" /\ Message = epoch + 1)
    => InStream(epoch + 1)

DispatchInv ==
    /\ RowsOK /\ PublisherOK /\ RedisOK
    /\ worker \in [Workers -> WorkerState]
    /\ \A w \in Workers : WorkerOK(worker[w])
    /\ ExecutedOnce /\ CommandOnItsWay

-----------------------------------------------------------------------------
(* Operators *)

(* The row the publisher is at is the first of those it has yet to do. *)
LEMMA MessageFirst ==
    ASSUME PublisherOK, pub.batch # {}
    PROVE  Message \in pub.batch /\ \A m \in pub.batch : Message <= m
<1> DEFINE T == pub.batch
<1>1. T \subseteq Nat /\ T # {}
  BY DispatchAssumption DEF PublisherOK, Attempts
<1>2. PICK n \in T : \A m \in T : <<m, n>> \notin OpToRel(<, Nat)
  <2> HIDE DEF T
  <2> QED
    BY <1>1, WFMin, NatLessThanWellFounded
<1>3. \A m \in T : ~(m < n)
  <2> HIDE DEF T
  <2> QED
    BY <1>1, <1>2 DEF OpToRel
<1>4. \A m \in pub.batch : n <= m
  BY <1>1, <1>3
<1> QED
  BY <1>4 DEF Message

(* The newest row is one of the run's. *)
LEMMA LatestRow ==
    ASSUME RowsOK
    PROVE  Latest \in Attempts /\ msg[Latest] # "NONE"
<1>1. MaxAttempts \in Nat \ {0} /\ epoch \in Nat /\ epoch <= MaxAttempts
  BY DispatchAssumption DEF RowsOK
<1>2. \E n \in Attempts : msg[n] # "NONE" /\ \A m \in Attempts : msg[m] # "NONE" => m <= n
  <2>1. CASE epoch + 1 \in Attempts /\ msg[epoch + 1] # "NONE"
    <3>1. \A m \in Attempts : msg[m] # "NONE" => m <= epoch + 1
      BY <1>1 DEF RowsOK, Attempts
    <3> QED
      BY <2>1, <3>1
  <2>2. CASE ~(epoch + 1 \in Attempts /\ msg[epoch + 1] # "NONE")
    <3>1. epoch \in Attempts /\ msg[epoch] # "NONE"
      BY <1>1, <2>2 DEF RowsOK, Attempts
    <3>2. \A m \in Attempts : msg[m] # "NONE" => m <= epoch
      BY <1>1, <2>2 DEF RowsOK, Attempts
    <3> QED
      BY <3>1, <3>2
  <2> QED
    BY <2>1, <2>2
<1> QED
  BY <1>2 DEF Latest

(* A fault is counted up to its bound. *)
LEMMA FaultType ==
    ASSUME DispatchInv, Fault \/ NoFault
    PROVE  faults' \in 0..MaxFaults
BY DispatchAssumption DEF DispatchInv, RedisOK, Fault, NoFault

(* The worker's record after going on, or after finishing an entry. *)
LEMMA GotoState ==
    ASSUME DispatchInv, NEW w \in Workers, NEW pc \in Busy, Goto(w, pc)
    PROVE  \E s \in WorkerState :
              /\ worker' = [worker EXCEPT ![w] = s]
              /\ s.pc = pc /\ s.entry = worker[w].entry /\ s.todo = worker[w].todo
<1> DEFINE s == [worker[w] EXCEPT !.pc = pc]
<1>1. worker[w] \in WorkerState
  BY DEF DispatchInv
<1>2. s \in WorkerState /\ s.pc = pc /\ s.entry = worker[w].entry /\ s.todo = worker[w].todo
  BY <1>1 DEF WorkerState
<1>3. worker' = [worker EXCEPT ![w] = s]
  BY <1>1 DEF Goto
<1> HIDE DEF s
<1> QED
  BY <1>2, <1>3, Zenon

(* As above. *)
LEMMA DoneState ==
    ASSUME DispatchInv, NEW w \in Workers, Done(w)
    PROVE  \E s \in WorkerState :
              /\ worker' = [worker EXCEPT ![w] = s]
              /\ s.pc = "idle" /\ s.entry = <<>> /\ s.todo = worker[w].todo
<1> DEFINE s == [worker[w] EXCEPT !.pc = "idle", !.entry = <<>>]
<1>1. worker[w] \in WorkerState
  BY DEF DispatchInv
<1>2. s \in WorkerState /\ s.pc = "idle" /\ s.entry = <<>> /\ s.todo = worker[w].todo
  BY <1>1 DEF WorkerState
<1>3. worker' = [worker EXCEPT ![w] = s]
  BY <1>1 DEF Done
<1> HIDE DEF s
<1> QED
  BY <1>2, <1>3, Zenon

(* An entry is a slot and an attempt number. *)
LEMMA EntryParts ==
    ASSUME NEW e \in Entries
    PROVE  e[1] \in Slots /\ e[2] \in Attempts /\ e[2] \in Nat /\ e[2] # 0
BY DispatchAssumption DEF Entries, Attempts

-----------------------------------------------------------------------------
(* Steps in general *)

(* A step that leaves the workers and their entries alone. *)
LEMMA OutsideStep ==
    ASSUME DispatchInv, UNCHANGED <<worker, epoch>>,
           \A t \in Slots : pel'[t] \in {0, pel[t]},
           RowsOK', PublisherOK', RedisOK', CommandOnItsWay'
    PROVE  DispatchInv'
<1>1. ASSUME NEW v \in Workers PROVE WorkerOK(worker[v])'
  <2>1. worker[v] \in WorkerState /\ WorkerOK(worker[v])
    BY DEF DispatchInv
  <2>2. \A e \in worker[v].todo : e \in Entries /\ e[1] \in Slots
    BY <2>1, EntryParts DEF WorkerState
  <2>3. worker[v].pc \in Busy => worker[v].entry[1] \in Slots
    BY <2>1, EntryParts DEF WorkerOK
  <2> QED
    BY <2>1, <2>2, <2>3 DEF WorkerOK
<1>2. ExecutedOnce'
  BY DEF DispatchInv, ExecutedOnce, No
<1> QED
  BY <1>1, <1>2 DEF DispatchInv

(* A step of worker w: the slots it fills are nobody else's, and what it   *)
(* starts to execute is the attempt it has just been granted.              *)
LEMMA WorkerStep ==
    ASSUME DispatchInv, NEW w \in Workers, NEW s \in WorkerState,
           worker' = [worker EXCEPT ![w] = s], WorkerOK(s)',
           \A t \in Slots :
              pel'[t] \in {0, pel[t]} \/ \A v \in Workers \ {w} : t \notin Held(v),
           epoch' >= epoch,
           s.pc = "execute" =>
              \/ worker[w].pc = "execute" /\ s.entry = worker[w].entry
              \/ s.entry[2] = epoch + 1,
           RowsOK', PublisherOK', RedisOK', CommandOnItsWay'
    PROVE  DispatchInv'
<1>1. worker \in [Workers -> WorkerState] /\ worker' \in [Workers -> WorkerState]
  BY DEF DispatchInv
<1>2. epoch \in Nat /\ epoch' \in Nat
  BY DispatchAssumption DEF DispatchInv, RowsOK
<1>3. \A v \in Workers \ {w} : worker'[v] = worker[v]
  BY <1>1
<1>4. worker'[w] = s
  BY <1>1
<1>5. ASSUME NEW v \in Workers PROVE WorkerOK(worker[v])'
  <2>1. CASE v = w
    BY <1>4, <2>1
  <2>2. CASE v # w
    <3>1. worker[v] \in WorkerState /\ WorkerOK(worker[v]) /\ worker'[v] = worker[v]
      BY <1>1, <1>3, <2>2 DEF DispatchInv
    <3>2. ASSUME NEW e \in worker[v].todo PROVE pel'[e[1]] \in {0, e[2]}
      <4>1. e[1] \in Slots /\ pel[e[1]] \in {0, e[2]} /\ e[1] \in Held(v)
        BY <3>1, EntryParts DEF WorkerState, WorkerOK, Held
      <4> QED
        BY <2>2, <4>1
    <3>3. CASE worker[v].pc \in Busy
      <4>1. worker[v].entry \in Entries /\ worker[v].entry[1] \in Slots
        BY <3>1, <3>3, EntryParts DEF WorkerOK
      <4>2. worker[v].entry # <<>>
        BY <4>1 DEF Entries
      <4>3. worker[v].entry[1] \in Held(v)
        BY <4>2 DEF Held
      <4>4. pel'[worker[v].entry[1]] \in {0, worker[v].entry[2]}
        BY <2>2, <3>1, <3>3, <4>1, <4>3 DEF WorkerOK
      <4>5. worker[v].entry[2] \in Nat
        BY <4>1, EntryParts
      <4> QED
        BY <1>2, <3>1, <3>2, <3>3, <4>1, <4>4, <4>5 DEF WorkerOK
    <3>4. CASE worker[v].pc \notin Busy
      BY <3>1, <3>2, <3>4 DEF WorkerOK, Busy
    <3> QED
      BY <3>3, <3>4
  <2> QED
    BY <2>1, <2>2
<1>6. ASSUME NEW v \in Workers, worker[v].pc = "execute"
      PROVE  worker[v].entry[2] \in Nat /\ worker[v].entry[2] <= epoch
  BY <1>6, EntryParts DEF DispatchInv, WorkerOK, Busy
<1>7. ASSUME NEW v \in Workers, NEW u \in Workers \ {v},
             worker'[v].pc = "execute", worker'[u].pc = "execute"
      PROVE  worker'[v].entry[2] # worker'[u].entry[2]
  <2>1. CASE v # w /\ u # w
    BY <1>3, <1>7, <2>1 DEF DispatchInv, ExecutedOnce, No
  <2>2. CASE v = w
    BY <1>2, <1>3, <1>4, <1>6, <1>7, <2>2 DEF DispatchInv, ExecutedOnce, No
  <2>3. CASE u = w
    BY <1>2, <1>3, <1>4, <1>6, <1>7, <2>3 DEF DispatchInv, ExecutedOnce, No
  <2> QED
    BY <2>1, <2>2, <2>3
<1>8. ExecutedOnce'
  BY <1>5, <1>7 DEF ExecutedOnce, No, WorkerOK
<1> QED
  BY <1>1, <1>5, <1>8 DEF DispatchInv

(* A step that changes neither rows nor publisher keeps the command on its *)
(* way if it keeps it in the stream.                                       *)
LEMMA StaysOnItsWay ==
    ASSUME DispatchInv, UNCHANGED <<legacy, mode, epoch, msg, pub>>, lost => lost',
           ~legacy /\ mode = "waiting" /\ InStream(epoch + 1) => lost' \/ InStream(epoch + 1)'
    PROVE  CommandOnItsWay'
<1>1. Message' = Message
  BY DEF Message
<1> QED
  BY <1>1 DEF DispatchInv, CommandOnItsWay

(* The invariant holds at the start. *)
LEMMA InitInv == Init => DispatchInv
<1> SUFFICES ASSUME Init PROVE DispatchInv
  OBVIOUS
<1>1. MaxAttempts \in Nat \ {0} /\ MaxFaults \in Nat /\ 1 \in Attempts /\ legacy \in BOOLEAN
  BY DispatchAssumption DEF Attempts, Init
<1>2. RowsOK
  <2>1. \A n \in Attempts : n \in Nat /\ n > 0
    BY <1>1 DEF Attempts
  <2>2. /\ msg \in [Attempts -> {"NONE", "PENDING", "PUBLISHED"}] /\ msg[1] = "PENDING"
        /\ \A n \in Attempts : msg[n] # "NONE" => n = 1
    BY <1>1 DEF Init
  <2>3. mode = "waiting" /\ epoch = 0 /\ due = {1}
    BY DEF Init
  <2> QED
    BY <1>1, <2>1, <2>2, <2>3 DEF RowsOK
<1>3. PublisherOK
  BY DEF Init, PublisherOK, PublisherIdle
<1>4. RedisOK
  <2>1. lost \in BOOLEAN /\ key = {} /\ stream = <<>>
    BY Zenon DEF Init
  <2>2. pel \in [Slots -> 0..MaxAttempts] /\ faults \in 0..MaxFaults
    BY <1>1 DEF Init
  <2>3. stream \in Seq(Attempts)
    BY <2>1
  <2> QED
    BY <2>1, <2>2, <2>3 DEF RedisOK
<1>5. Idle \in WorkerState /\ Idle.pc = "idle" /\ Idle.entry = <<>> /\ Idle.todo = {}
  BY DEF Idle, WorkerState
<1>6. worker \in [Workers -> WorkerState] /\ \A w \in Workers : worker[w] = Idle
  BY <1>5 DEF Init
<1>7. \A w \in Workers : WorkerOK(worker[w])
  BY <1>5, <1>6 DEF WorkerOK, Busy
<1>8. ExecutedOnce
  BY <1>5, <1>6 DEF ExecutedOnce
<1>9. CommandOnItsWay
  BY <1>1 DEF Init, CommandOnItsWay, PublisherIdle
<1> QED
  BY <1>2, <1>3, <1>4, <1>6, <1>7, <1>8, <1>9 DEF DispatchInv

-----------------------------------------------------------------------------
(* The run *)

(* When an attempt ends or a run is resumed, the only new row is that of   *)
(* the attempt the run waits for, and it has not been published.           *)
LEMMA RunWaits ==
    ASSUME DispatchInv, RunWaitsAgain, UNCHANGED <<legacy, pub>>
    PROVE  RowsOK' /\ PublisherOK' /\ CommandOnItsWay' /\ epoch' = epoch
<1>1. /\ MaxAttempts \in Nat \ {0} /\ epoch \in Nat /\ epoch < MaxAttempts /\ epoch' = epoch
      /\ mode' = "waiting" /\ mode \in {"working", "parked"}
      /\ msg \in [Attempts -> {"NONE", "PENDING", "PUBLISHED"}]
  BY DispatchAssumption DEF DispatchInv, RowsOK, RunWaitsAgain, Run!Retry
<1>2. epoch + 1 \in Attempts
  BY <1>1 DEF Attempts
<1>3. msg[epoch + 1] = "NONE"
  BY <1>1, <1>2 DEF DispatchInv, RowsOK
<1>4. msg' = [msg EXCEPT ![epoch + 1] = "PENDING"] /\ due' \subseteq Attempts
  BY <1>2 DEF DispatchInv, RowsOK, RunWaitsAgain
<1>5. \A n \in Attempts : msg'[n] = IF n = epoch + 1 THEN "PENDING" ELSE msg[n]
  BY <1>1, <1>4
<1>6. RowsOK'
  <2>1. msg' \in [Attempts -> {"NONE", "PENDING", "PUBLISHED"}]
    BY <1>1, <1>4
  <2>2. 1 \in Attempts
    BY <1>1 DEF Attempts
  <2> QED
    BY <1>1, <1>2, <1>4, <1>5, <2>1, <2>2 DEF DispatchInv, RowsOK
<1>7. pub \in [pc : {"idle", "find", "repend", "read", "publish", "mark"}, batch : SUBSET Attempts]
  BY DEF DispatchInv, PublisherOK
<1>8. PublisherOK'
  BY <1>5, <1>7 DEF DispatchInv, PublisherOK
<1>9. ~(pub.pc = "mark" /\ Message = epoch + 1)
  BY <1>3, MessageFirst DEF DispatchInv, PublisherOK
<1>10. Message' = Message
  BY DEF Message
<1>11. CommandOnItsWay'
  BY <1>1, <1>2, <1>5, <1>9, <1>10 DEF CommandOnItsWay
<1> QED
  BY <1>1, <1>6, <1>8, <1>11

(* A run that stops waiting or working waits for no command. *)
LEMMA RunStops ==
    ASSUME DispatchInv, Run!Finish \/ Run!Cancel, UNCHANGED <<legacy, msg, due, pub>>
    PROVE  RowsOK' /\ PublisherOK' /\ CommandOnItsWay' /\ epoch' = epoch
<1>1. /\ epoch' = epoch /\ mode' \in {"parked"} \union Run!Ends
      /\ (mode' = "parked" => mode = "working") /\ mode' # "working" /\ mode' # "waiting"
  BY DEF Run!Finish, Run!Cancel, Run!Ends
<1>2. RowsOK'
  BY <1>1 DEF DispatchInv, RowsOK
<1>3. PublisherOK'
  BY DEF DispatchInv, PublisherOK
<1> QED
  BY <1>1, <1>2, <1>3 DEF CommandOnItsWay

(* The end of an attempt is one of the two. *)
LEMMA AttemptEndsOK ==
    ASSUME DispatchInv, AttemptEnds, UNCHANGED <<legacy, pub>>
    PROVE  RowsOK' /\ PublisherOK' /\ CommandOnItsWay' /\ epoch' = epoch
BY RunWaits, RunStops DEF AttemptEnds

(* A granted claim: the row of the attempt exists, no other is awaited. *)
LEMMA GrantRows ==
    ASSUME DispatchInv, mode = "waiting", mode' = "working", epoch' = epoch + 1,
           UNCHANGED <<legacy, msg, due, pub>>
    PROVE  RowsOK' /\ PublisherOK' /\ CommandOnItsWay'
<1>1. epoch \in Nat /\ MaxAttempts \in Nat /\ epoch < MaxAttempts
  BY DispatchAssumption DEF DispatchInv, RowsOK
<1>2. \A n \in Attempts : n \in Nat
  BY <1>1 DEF Attempts
<1>3. RowsOK'
  <2>1. \A n \in Attempts : n <= epoch + 1 => msg[n] # "NONE"
    BY <1>1, <1>2 DEF DispatchInv, RowsOK
  <2>2. \A n \in Attempts : n > epoch + 1 => msg[n] = "NONE"
    BY <1>1, <1>2 DEF DispatchInv, RowsOK
  <2>3. epoch + 1 \in 0..MaxAttempts
    BY <1>1
  <2> QED
    BY <2>1, <2>2, <2>3 DEF DispatchInv, RowsOK
<1>4. PublisherOK'
  BY DEF DispatchInv, PublisherOK
<1> QED
  BY <1>3, <1>4 DEF CommandOnItsWay

(* Steps of the run that no worker takes. *)
LEMMA RunInv ==
    ASSUME DispatchInv, RunStep \/ BackoffEnds
    PROVE  DispatchInv'
<1>1. UNCHANGED <<legacy, pub, stream, pel, key, lost, worker, faults>>
  BY DEF RunStep, LeaseExpires, Resume, Cancel, BackoffEnds, redis, NoFault
<1>2. RedisOK' /\ \A t \in Slots : pel'[t] \in {0, pel[t]}
  BY <1>1 DEF DispatchInv, RedisOK
<1>3. CASE RunStep
  <2>1. RowsOK' /\ PublisherOK' /\ CommandOnItsWay' /\ epoch' = epoch
    BY <1>1, <1>3, AttemptEndsOK, RunWaits, RunStops DEF RunStep, LeaseExpires, Resume, Cancel
  <2> QED
    BY <1>1, <1>2, <2>1, OutsideStep
<1>4. CASE BackoffEnds
  <2>1. UNCHANGED <<mode, epoch, msg>> /\ due' \subseteq Attempts
    BY <1>4 DEF BackoffEnds, runState, DispatchInv, RowsOK
  <2>2. RowsOK' /\ PublisherOK'
    BY <1>1, <2>1 DEF DispatchInv, RowsOK, PublisherOK
  <2>3. CommandOnItsWay'
    BY <1>1, <2>1, StaysOnItsWay DEF InStream
  <2> QED
    BY <1>1, <1>2, <2>1, <2>2, <2>3, OutsideStep
<1> QED
  BY <1>3, <1>4

-----------------------------------------------------------------------------
(* The publisher and Redis *)

(* A tick of the publisher changes rows that exist and stays with them. *)
LEMMA PublisherRows ==
    ASSUME DispatchInv, UNCHANGED <<legacy, mode, epoch, due>>,
           msg' = msg \/ \E n \in Attempts :
              msg[n] # "NONE" /\ \E st \in {"PENDING", "PUBLISHED"} : msg' = [msg EXCEPT ![n] = st]
    PROVE  RowsOK' /\ \A n \in Attempts : msg[n] # "NONE" => msg'[n] # "NONE"
<1>1. /\ msg' \in [Attempts -> {"NONE", "PENDING", "PUBLISHED"}]
      /\ \A n \in Attempts : msg'[n] = "NONE" <=> msg[n] = "NONE"
  BY DEF DispatchInv, RowsOK
<1>2. 1 \in Attempts /\ (mode = "waiting" => epoch + 1 \in Attempts)
  BY DispatchAssumption DEF DispatchInv, RowsOK, Attempts
<1> QED
  BY <1>1, <1>2 DEF DispatchInv, RowsOK

(* The record of a publisher. *)
LEMMA PublisherRecord ==
    ASSUME NEW pc \in {"idle", "find", "repend", "read", "publish", "mark"},
           NEW batch \in SUBSET Attempts
    PROVE  LET p == [pc |-> pc, batch |-> batch] IN
           /\ p \in [pc : {"idle", "find", "repend", "read", "publish", "mark"}, batch : SUBSET Attempts]
           /\ p.pc = pc /\ p.batch = batch
OBVIOUS

(* Going on to the next row leaves rows that exist to do. *)
LEMMA NextMessageOK ==
    ASSUME DispatchInv, pub.pc \in {"publish", "mark"}, NextMessage,
           \A n \in Attempts : msg[n] # "NONE" => msg'[n] # "NONE"
    PROVE  PublisherOK' /\ pub'.pc # "mark"
<1>1. pub.batch \subseteq Attempts /\ \A n \in pub.batch : msg[n] # "NONE"
  BY DEF DispatchInv, PublisherOK
<1>2. CASE pub.batch = {Message}
  <2>1. pub' = [pc |-> "idle", batch |-> {}]
    BY <1>2 DEF NextMessage, PublisherIdle
  <2> QED
    BY <2>1, PublisherRecord DEF PublisherOK
<1>3. CASE pub.batch # {Message}
  <2>1. pub' = [pc |-> "publish", batch |-> pub.batch \ {Message}]
    BY <1>3 DEF NextMessage
  <2>2. pub.batch \ {Message} # {}
    BY <1>3, MessageFirst DEF DispatchInv, PublisherOK
  <2> QED
    BY <1>1, <2>1, <2>2, PublisherRecord DEF PublisherOK
<1> QED
  BY <1>2, <1>3

(* The steps of a tick, failed ones included, and a restart. *)
LEMMA PublisherInv ==
    ASSUME DispatchInv, PublisherStep \/ PublishFails \/ ControlPlaneRestarts
    PROVE  DispatchInv'
<1>1. UNCHANGED <<legacy, mode, epoch, due, pel, key, lost, worker>> /\ (Fault \/ NoFault)
  BY DEF PublisherStep, ReconcileRuns, ReconcileFind, ReconcileMark, ReadQueued, XAdd,
         MarkPublished, PublishFails, ControlPlaneRestarts, runState, redis
<1>2. \A t \in Slots : pel'[t] \in {0, pel[t]}
  BY <1>1
<1>3. faults' \in 0..MaxFaults
  BY <1>1, FaultType
<1>4. /\ pub \in [pc : {"idle", "find", "repend", "read", "publish", "mark"}, batch : SUBSET Attempts]
      /\ \A n \in pub.batch : msg[n] # "NONE"
      /\ (pub.pc \in {"repend", "publish", "mark"}) <=> (pub.batch # {})
  BY DEF DispatchInv, PublisherOK
<1>5. pub.batch # {} => Message \in pub.batch /\ Message \in Attempts /\ msg[Message] # "NONE"
  BY <1>4, MessageFirst DEF DispatchInv
<1>6. CASE ReconcileRuns \/ ReconcileFind \/ ReadQueued \/ PublishFails \/ ControlPlaneRestarts
  <2>1. UNCHANGED <<msg, stream>>
    BY <1>6 DEF ReconcileRuns, ReconcileFind, ReadQueued, PublishFails, ControlPlaneRestarts, redis
  <2>2. RowsOK' /\ RedisOK'
    BY <1>1, <1>3, <2>1, PublisherRows DEF DispatchInv, RedisOK
  <2>3. PublisherOK' /\ pub'.pc # "mark"
    <3>1. CASE ReconcileRuns
      BY <1>4, <2>1, <3>1 DEF ReconcileRuns, PublisherOK
    <3>2. CASE ReconcileFind
      <4>1. Latest \in Attempts /\ msg[Latest] # "NONE"
        BY LatestRow DEF DispatchInv
      <4>2. pub' = [pc |-> "repend", batch |-> {Latest}] \/ pub' = [pc |-> "read", batch |-> {}]
        BY <3>2 DEF ReconcileFind, Reconciled
      <4> QED
        BY <2>1, <4>1, <4>2, PublisherRecord DEF PublisherOK
    <3>3. CASE ReadQueued
      <4>1. pub' = [pc |-> "idle", batch |-> {}]
            \/ (Queued # {} /\ pub' = [pc |-> "publish", batch |-> Queued])
        BY <3>3 DEF ReadQueued, PublisherIdle
      <4>2. Queued \subseteq Attempts /\ \A n \in Queued : msg[n] # "NONE"
        BY DEF Queued, DispatchInv, RowsOK
      <4> QED
        BY <2>1, <4>1, <4>2, PublisherRecord DEF PublisherOK
    <3>4. CASE PublishFails
      BY <2>1, <3>4, NextMessageOK DEF PublishFails
    <3>5. CASE ControlPlaneRestarts
      <4>1. pub' = [pc |-> "idle", batch |-> {}]
        BY <3>5 DEF ControlPlaneRestarts, PublisherIdle
      <4> QED
        BY <4>1, PublisherRecord DEF PublisherOK
    <3> QED
      BY <1>6, <3>1, <3>2, <3>3, <3>4, <3>5
  <2>4. CommandOnItsWay'
    BY <1>1, <2>1, <2>3 DEF DispatchInv, CommandOnItsWay, InStream
  <2> QED
    BY <1>1, <1>2, <2>2, <2>3, <2>4, OutsideStep
<1>7. CASE ReconcileMark
  <2>1. /\ pub.batch # {} /\ msg' = [msg EXCEPT ![Message] = "PENDING"] /\ stream' = stream
        /\ pub' = [pc |-> "read", batch |-> {}]
    BY <1>4, <1>7 DEF ReconcileMark, Reconciled, redis
  <2>2. RowsOK'
    BY <1>1, <1>5, <2>1, PublisherRows
  <2>3. PublisherOK' /\ pub'.pc # "mark"
    BY <2>1, PublisherRecord DEF PublisherOK
  <2>4. RedisOK'
    BY <1>1, <1>3, <2>1 DEF DispatchInv, RedisOK
  <2>5. msg'[epoch + 1] = "PUBLISHED" /\ mode = "waiting" => msg[epoch + 1] = "PUBLISHED"
    <3>1. mode = "waiting" => epoch + 1 \in Attempts
      BY DispatchAssumption DEF DispatchInv, RowsOK, Attempts
    <3>2. msg \in [Attempts -> {"NONE", "PENDING", "PUBLISHED"}]
      BY DEF DispatchInv, RowsOK
    <3> QED
      BY <1>5, <2>1, <3>1, <3>2
  <2>6. CommandOnItsWay'
    BY <1>1, <2>1, <2>3, <2>5 DEF DispatchInv, CommandOnItsWay, InStream
  <2> QED
    BY <1>1, <1>2, <2>2, <2>3, <2>4, <2>6, OutsideStep
<1>8. CASE XAdd
  <2>1. /\ pub.batch # {} /\ msg' = msg /\ stream' = Append(stream, Message)
        /\ pub' = [pub EXCEPT !.pc = "mark"]
    BY <1>4, <1>8 DEF XAdd
  <2>2. pub'.pc = "mark" /\ pub'.batch = pub.batch /\ PublisherOK'
    BY <1>4, <2>1 DEF PublisherOK
  <2>3. RowsOK'
    BY <1>1, <2>1, PublisherRows
  <2>4. stream \in Seq(Attempts) /\ stream' \in Seq(Attempts)
    BY <1>5, <2>1 DEF DispatchInv, RedisOK
  <2>5. RedisOK'
    BY <1>1, <1>3, <2>4 DEF DispatchInv, RedisOK
  <2>6. /\ Len(stream') = Len(stream) + 1 /\ Len(stream) \in Nat
        /\ stream'[Len(stream) + 1] = Message
        /\ \A i \in 1..Len(stream) : stream'[i] = stream[i]
    BY <1>5, <2>1, <2>4
  <2>7. Message' = Message
    BY <2>2 DEF Message
  <2>8. ASSUME NEW n, InStream(n) \/ n = Message PROVE InStream(n)'
    BY <1>1, <2>6, <2>8 DEF InStream
  <2>9. CommandOnItsWay'
    BY <1>1, <2>1, <2>2, <2>7, <2>8 DEF DispatchInv, CommandOnItsWay
  <2> QED
    BY <1>1, <1>2, <2>2, <2>3, <2>5, <2>9, OutsideStep
<1>9. CASE MarkPublished
  <2>1. /\ pub.pc = "mark" /\ msg' = [msg EXCEPT ![Message] = "PUBLISHED"] /\ stream' = stream
        /\ NextMessage /\ pub.batch # {}
    BY <1>4, <1>9 DEF MarkPublished, redis
  <2>2. RowsOK' /\ \A n \in Attempts : msg[n] # "NONE" => msg'[n] # "NONE"
    BY <1>1, <1>5, <2>1, PublisherRows
  <2>3. PublisherOK' /\ pub'.pc # "mark"
    BY <2>1, <2>2, NextMessageOK
  <2>4. RedisOK'
    BY <1>1, <1>3, <2>1 DEF DispatchInv, RedisOK
  <2>5. mode = "waiting" /\ msg'[epoch + 1] = "PUBLISHED"
           => msg[epoch + 1] = "PUBLISHED" \/ Message = epoch + 1
    <3>1. mode = "waiting" => epoch + 1 \in Attempts
      BY DispatchAssumption DEF DispatchInv, RowsOK, Attempts
    <3>2. msg \in [Attempts -> {"NONE", "PENDING", "PUBLISHED"}]
      BY DEF DispatchInv, RowsOK
    <3> QED
      BY <1>5, <2>1, <3>1, <3>2
  <2>6. CommandOnItsWay'
    BY <1>1, <2>1, <2>3, <2>5 DEF DispatchInv, CommandOnItsWay, InStream
  <2> QED
    BY <1>1, <1>2, <2>2, <2>3, <2>4, <2>6, OutsideStep
<1> QED
  BY <1>6, <1>7, <1>8, <1>9 DEF PublisherStep

(* Keys expire; all data may be lost. *)
LEMMA RedisInv ==
    ASSUME DispatchInv, KeyExpires \/ RedisLosesData
    PROVE  DispatchInv'
<1>1. UNCHANGED <<legacy, mode, epoch, msg, due, pub, worker>> /\ (Fault \/ NoFault)
  BY DEF KeyExpires, RedisLosesData, runState
<1>2. RowsOK' /\ PublisherOK'
  BY <1>1 DEF DispatchInv, RowsOK, PublisherOK
<1>3. faults' \in 0..MaxFaults
  BY <1>1, FaultType
<1>4. CASE KeyExpires
  <2>1. UNCHANGED <<stream, pel, lost>> /\ key' \subseteq key
    BY <1>4 DEF KeyExpires
  <2>2. RedisOK' /\ \A t \in Slots : pel'[t] \in {0, pel[t]}
    BY <1>3, <2>1 DEF DispatchInv, RedisOK
  <2>3. CommandOnItsWay'
    BY <1>1, <2>1, StaysOnItsWay DEF InStream
  <2> QED
    BY <1>1, <1>2, <2>2, <2>3, OutsideStep
<1>5. CASE RedisLosesData
  <2>1. stream' = <<>> /\ pel' = [s \in Slots |-> 0] /\ key' = {} /\ lost'
    BY <1>5 DEF RedisLosesData
  <2>2. /\ stream' \in Seq(Attempts) /\ pel' \in [Slots -> 0..MaxAttempts] /\ key' \subseteq Attempts
        /\ lost' \in BOOLEAN
    BY <1>5, DispatchAssumption DEF RedisLosesData
  <2>3. RedisOK' /\ \A t \in Slots : pel'[t] \in {0, pel[t]}
    BY <1>3, <2>1, <2>2 DEF RedisOK
  <2>4. CommandOnItsWay'
    BY <1>1, <2>1, StaysOnItsWay
  <2> QED
    BY <1>1, <1>2, <2>3, <2>4, OutsideStep
<1> QED
  BY <1>4, <1>5

-----------------------------------------------------------------------------
(* The workers *)

(* What a worker that handles an entry knows about it. *)
LEMMA EntryHeld ==
    ASSUME DispatchInv, NEW w \in Workers, worker[w].pc \in Busy
    PROVE  /\ worker[w].entry \in Entries /\ worker[w].entry[1] \in Slots
           /\ No(w) \in Attempts /\ No(w) \in Nat /\ No(w) # 0
           /\ pel[worker[w].entry[1]] \in {0, No(w)}
           /\ worker[w].pc \in {"execute", "ack"} => No(w) <= epoch
BY EntryParts DEF DispatchInv, WorkerOK, No

(* A worker that changes nothing but itself. *)
LEMMA QuietStep ==
    ASSUME DispatchInv, NEW w \in Workers, NEW s \in WorkerState,
           worker' = [worker EXCEPT ![w] = s], WorkerOK(s), s.pc # "execute",
           UNCHANGED <<legacy, mode, epoch, msg, due, pub, stream, pel, lost>>,
           key' \subseteq Attempts, faults' \in 0..MaxFaults
    PROVE  DispatchInv'
<1>1. RowsOK' /\ PublisherOK' /\ RedisOK' /\ epoch \in Nat
  BY DispatchAssumption DEF DispatchInv, RowsOK, PublisherOK, RedisOK
<1>2. CommandOnItsWay'
  BY StaysOnItsWay DEF InStream
<1>3. WorkerOK(s)'
  BY DEF WorkerOK
<1>4. epoch' >= epoch
  BY <1>1
<1> QED
  BY <1>1, <1>2, <1>3, <1>4, WorkerStep

(* Acknowledging the entry of an attempt nobody waits for loses nothing. *)
LEMMA AckStep ==
    ASSUME DispatchInv, NEW w \in Workers, worker[w].pc \in Busy, Ack(w), Done(w),
           UNCHANGED <<legacy, mode, epoch, msg, due, pub, stream, key, lost>>,
           faults' \in 0..MaxFaults,
           legacy \/ mode # "waiting" \/ No(w) # epoch + 1
    PROVE  DispatchInv'
<1> DEFINE slot == worker[w].entry[1]
<1>1. PICK s \in WorkerState :
         /\ worker' = [worker EXCEPT ![w] = s]
         /\ s.pc = "idle" /\ s.entry = <<>> /\ s.todo = worker[w].todo
  BY DoneState
<1>2. slot \in Slots /\ pel[slot] \in {0, No(w)}
  BY EntryHeld
<1>3. pel \in [Slots -> 0..MaxAttempts] /\ epoch \in Nat /\ 0 \in 0..MaxAttempts
  BY DispatchAssumption DEF DispatchInv, RedisOK, RowsOK
<1>4. pel' = [pel EXCEPT ![slot] = 0]
  BY DEF Ack
<1>5. pel' \in [Slots -> 0..MaxAttempts]
  BY <1>3, <1>4
<1>6. \A t \in Slots : pel'[t] \in {0, pel[t]} /\ (t # slot => pel'[t] = pel[t])
  BY <1>3, <1>4
<1>7. RowsOK' /\ PublisherOK' /\ RedisOK'
  BY <1>5 DEF DispatchInv, RowsOK, PublisherOK, RedisOK
<1>8. ~legacy /\ mode = "waiting" /\ InStream(epoch + 1) => InStream(epoch + 1)'
  BY <1>2, <1>3, <1>6 DEF InStream
<1>9. CommandOnItsWay'
  BY <1>8, StaysOnItsWay
<1>10. WorkerOK(s)'
  <2>1. \A e \in s.todo : e[1] \in Slots /\ pel[e[1]] \in {0, e[2]}
    BY <1>1, EntryParts DEF DispatchInv, WorkerOK, WorkerState
  <2> QED
    BY <1>1, <1>6, <2>1 DEF WorkerOK, Busy
<1>11. epoch' >= epoch /\ s.pc # "execute"
  BY <1>1, <1>3
<1>12. \A t \in Slots : pel'[t] \in {0, pel[t]} \/ \A v \in Workers \ {w} : t \notin Held(v)
  BY <1>6
<1>13. worker' = [worker EXCEPT ![w] = s]
  BY <1>1
<1> QED
  BY <1>7, <1>9, <1>10, <1>11, <1>12, <1>13, WorkerStep

(* A worker that drops its entry without acknowledging it. *)
LEMMA DropStep ==
    ASSUME DispatchInv, NEW w \in Workers, Done(w),
           UNCHANGED <<legacy, mode, epoch, msg, due, pub, stream, pel, key, lost>>,
           faults' \in 0..MaxFaults
    PROVE  DispatchInv'
<1>1. PICK s \in WorkerState :
         /\ worker' = [worker EXCEPT ![w] = s]
         /\ s.pc = "idle" /\ s.entry = <<>> /\ s.todo = worker[w].todo
  BY DoneState
<1>2. WorkerOK(s) /\ s.pc # "execute"
  BY <1>1 DEF DispatchInv, WorkerOK, Busy
<1>3. key' \subseteq Attempts
  BY DEF DispatchInv, RedisOK
<1> QED
  BY <1>1, <1>2, <1>3, QuietStep

(* Reading an entry fills a slot that is neither pending nor held. *)
LEMMA ReadGroupInv ==
    ASSUME DispatchInv, NEW w \in Workers, ReadGroup(w)
    PROVE  DispatchInv'
<1>1. PICK slot \in FreeSlots :
         /\ pel' = [pel EXCEPT ![slot] = Head(stream)]
         /\ worker' = [worker EXCEPT ![w].pc = "got", ![w].entry = <<slot, Head(stream)>>]
  <2> DEFINE slot == CHOOSE t \in FreeSlots : TRUE
  <2>1. slot \in FreeSlots
    BY DEF ReadGroup
  <2>2. /\ pel' = [pel EXCEPT ![slot] = Head(stream)]
        /\ worker' = [worker EXCEPT ![w].pc = "got", ![w].entry = <<slot, Head(stream)>>]
    BY Zenon DEF ReadGroup
  <2> HIDE DEF slot
  <2> QED
    BY <2>1, <2>2, Zenon
<1>2. /\ UNCHANGED <<legacy, mode, epoch, msg, due, pub, key, lost, faults>>
      /\ stream # <<>> /\ stream' = Tail(stream) /\ worker[w].pc = "idle" /\ worker[w].todo = {}
  BY DEF ReadGroup, runState, NoFault
<1>3. /\ stream \in Seq(Attempts) /\ pel \in [Slots -> 0..MaxAttempts] /\ epoch \in Nat
      /\ worker[w] \in WorkerState /\ MaxAttempts \in Nat
  BY DispatchAssumption DEF DispatchInv, RedisOK, RowsOK
<1>4. /\ stream' \in Seq(Attempts) /\ Head(stream) \in Attempts /\ Head(stream) = stream[1]
      /\ Len(stream) \in Nat /\ Len(stream') = Len(stream) - 1
      /\ \A i \in 1..Len(stream') : stream'[i] = stream[i + 1]
  BY <1>2, <1>3
<1>5. slot \in Slots /\ pel[slot] = 0 /\ \A v \in Workers : slot \notin Held(v)
  BY <1>3 DEF FreeSlots, Pending
<1>6. PICK s \in WorkerState :
         /\ worker' = [worker EXCEPT ![w] = s]
         /\ s.pc = "got" /\ s.entry = <<slot, Head(stream)>> /\ s.todo = {}
  <2> DEFINE s == [worker[w] EXCEPT !.pc = "got", !.entry = <<slot, Head(stream)>>]
  <2>1. <<slot, Head(stream)>> \in Entries
    BY <1>4, <1>5 DEF Entries
  <2>2. s \in WorkerState /\ s.pc = "got" /\ s.entry = <<slot, Head(stream)>> /\ s.todo = {}
    BY <1>2, <1>3, <2>1 DEF WorkerState, Busy
  <2>3. worker' = [worker EXCEPT ![w] = s]
    BY <1>1, <1>3
  <2> HIDE DEF s
  <2> QED
    BY <2>2, <2>3, Zenon
<1>7. /\ pel' \in [Slots -> 0..MaxAttempts] /\ pel'[slot] = Head(stream)
      /\ \A t \in Slots \ {slot} : pel'[t] = pel[t]
  <2>1. Head(stream) \in 0..MaxAttempts
    BY <1>3, <1>4 DEF Attempts
  <2> QED
    BY <1>1, <1>3, <1>5, <2>1
<1>8. WorkerOK(s)'
  <2>1. s.entry \in Entries /\ s.entry[1] = slot /\ s.entry[2] = Head(stream)
    BY <1>4, <1>5, <1>6 DEF Entries
  <2> QED
    BY <1>6, <1>7, <2>1 DEF WorkerOK, Busy
<1>9. RowsOK' /\ PublisherOK' /\ RedisOK'
  BY <1>2, <1>4, <1>7 DEF DispatchInv, RowsOK, PublisherOK, RedisOK
<1>10. InStream(epoch + 1) => InStream(epoch + 1)'
  <2>1. ASSUME NEW i \in 1..Len(stream), stream[i] = epoch + 1 PROVE InStream(epoch + 1)'
    <3>1. CASE i = 1
      BY <1>2, <1>4, <1>5, <1>7, <2>1, <3>1 DEF InStream
    <3>2. CASE i # 1
      <4>1. i - 1 \in 1..Len(stream') /\ stream'[i - 1] = epoch + 1
        BY <1>4, <2>1, <3>2
      <4> QED
        BY <1>2, <4>1 DEF InStream
    <3> QED
      BY <3>1, <3>2
  <2>2. ASSUME NEW t \in Slots, pel[t] = epoch + 1 PROVE InStream(epoch + 1)'
    <3>1. t # slot
      BY <1>3, <1>5, <2>2
    <3> QED
      BY <1>2, <1>7, <2>2, <3>1 DEF InStream
  <2> QED
    BY <2>1, <2>2 DEF InStream
<1>11. CommandOnItsWay'
  BY <1>2, <1>10, StaysOnItsWay
<1>12. epoch' >= epoch /\ s.pc # "execute"
  BY <1>2, <1>3, <1>6
<1>13. \A t \in Slots : pel'[t] \in {0, pel[t]} \/ \A v \in Workers \ {w} : t \notin Held(v)
  BY <1>5, <1>7
<1>14. worker' = [worker EXCEPT ![w] = s]
  BY <1>6
<1> QED
  BY <1>8, <1>9, <1>11, <1>12, <1>13, <1>14, WorkerStep

(* Reclaimed entries are pending ones. *)
LEMMA ReclaimInv ==
    ASSUME DispatchInv, NEW w \in Workers, reclaim_pending(w)
    PROVE  DispatchInv'
<1>1. /\ UNCHANGED <<legacy, mode, epoch, msg, due, pub, stream, pel, key, lost, faults>>
      /\ worker[w].pc = "idle"
  BY DEF reclaim_pending, runState, redis, NoFault
<1>2. PICK S \in SUBSET Pending :
         worker' = [worker EXCEPT ![w].todo = {<<s, pel[s]>> : s \in S}]
  BY DEF reclaim_pending
<1>3. worker[w] \in WorkerState /\ pel \in [Slots -> 0..MaxAttempts] /\ MaxAttempts \in Nat
  BY DispatchAssumption DEF DispatchInv, RedisOK
<1>4. PICK T \in SUBSET Entries :
         T = {<<s, pel[s]>> : s \in S} /\ \A e \in T : pel[e[1]] = e[2]
  <2>1. \A s \in S : s \in Slots /\ pel[s] \in Attempts
    BY <1>3 DEF Pending, Attempts
  <2>2. {<<s, pel[s]>> : s \in S} \in SUBSET Entries
    BY <2>1 DEF Entries
  <2>3. \A e \in {<<s, pel[s]>> : s \in S} : pel[e[1]] = e[2]
    OBVIOUS
  <2> QED
    BY <2>2, <2>3, Zenon
<1>5. PICK s \in WorkerState :
         worker' = [worker EXCEPT ![w] = s] /\ s.pc = "idle" /\ s.entry = worker[w].entry /\ s.todo = T
  <2> DEFINE s == [worker[w] EXCEPT !.todo = T]
  <2>1. s \in WorkerState /\ s.pc = "idle" /\ s.entry = worker[w].entry /\ s.todo = T
    BY <1>1, <1>3 DEF WorkerState
  <2>2. worker' = [worker EXCEPT ![w] = s]
    BY <1>2, <1>3, <1>4
  <2> HIDE DEF s
  <2> QED
    BY <2>1, <2>2, Zenon
<1>6. WorkerOK(s) /\ s.pc # "execute"
  BY <1>1, <1>4, <1>5 DEF DispatchInv, WorkerOK, Busy
<1>7. key' \subseteq Attempts /\ faults' \in 0..MaxFaults
  BY <1>1 DEF DispatchInv, RedisOK
<1> QED
  BY <1>1, <1>5, <1>6, <1>7, QuietStep

(* The entries of a batch are handled one by one. *)
LEMMA TakeInv ==
    ASSUME DispatchInv, NEW w \in Workers, TakeReclaimed(w)
    PROVE  DispatchInv'
<1>1. UNCHANGED <<legacy, mode, epoch, msg, due, pub, stream, pel, key, lost, faults>>
  BY DEF TakeReclaimed, runState, redis, NoFault
<1>2. PICK e \in worker[w].todo :
         worker' = [worker EXCEPT ![w] = [pc |-> "got", entry |-> e, todo |-> worker[w].todo \ {e}]]
  BY DEF TakeReclaimed, DispatchInv
<1>3. worker[w] \in WorkerState /\ WorkerOK(worker[w]) /\ e \in Entries
  BY <1>2 DEF DispatchInv, WorkerState
<1>4. PICK s \in WorkerState :
         /\ worker' = [worker EXCEPT ![w] = s]
         /\ s.pc = "got" /\ s.entry = e /\ s.todo = worker[w].todo \ {e}
  <2> DEFINE s == [pc |-> "got", entry |-> e, todo |-> worker[w].todo \ {e}]
  <2>1. s \in WorkerState /\ s.pc = "got" /\ s.entry = e /\ s.todo = worker[w].todo \ {e}
    BY <1>3 DEF WorkerState, Busy
  <2>2. worker' = [worker EXCEPT ![w] = s]
    BY <1>2
  <2> HIDE DEF s
  <2> QED
    BY <2>1, <2>2, Zenon
<1>5. WorkerOK(s) /\ s.pc # "execute"
  BY <1>2, <1>3, <1>4 DEF WorkerOK, Busy
<1>6. key' \subseteq Attempts /\ faults' \in 0..MaxFaults
  BY <1>1 DEF DispatchInv, RedisOK
<1> QED
  BY <1>1, <1>4, <1>5, <1>6, QuietStep

(* The command's key, the claim, the report and the acknowledgement. *)
LEMMA HandleInv ==
    ASSUME DispatchInv, NEW w \in Workers, handle_entry(w)
    PROVE  DispatchInv'
<1>1. faults' \in 0..MaxFaults
  BY FaultType DEF handle_entry, CommandIsNew, CommandIsDuplicate, ClaimGranted, ClaimRefused,
        Report, Acknowledge
<1>2. worker[w].pc \in Busy /\ worker[w] \in WorkerState /\ WorkerOK(worker[w])
  BY DEF handle_entry, CommandIsNew, CommandIsDuplicate, ClaimGranted, ClaimRefused,
        Report, Acknowledge, Busy, DispatchInv
<1>3. /\ worker[w].entry \in Entries /\ No(w) \in Attempts /\ No(w) \in Nat
      /\ worker[w].pc \in {"execute", "ack"} => No(w) <= epoch
  BY <1>2, EntryHeld
<1>4. epoch \in Nat
  BY DispatchAssumption DEF DispatchInv, RowsOK
<1>5. CASE CommandIsNew(w)
  <2>1. /\ UNCHANGED <<legacy, mode, epoch, msg, due, pub, stream, pel, lost>>
        /\ Goto(w, "claim") /\ key' \subseteq Attempts
    BY <1>3, <1>5 DEF CommandIsNew, runState, DispatchInv, RedisOK
  <2>2. PICK s \in WorkerState :
           /\ worker' = [worker EXCEPT ![w] = s]
           /\ s.pc = "claim" /\ s.entry = worker[w].entry /\ s.todo = worker[w].todo
    BY <2>1, GotoState DEF Busy
  <2>3. WorkerOK(s) /\ s.pc # "execute"
    BY <1>2, <2>2 DEF WorkerOK, Busy
  <2> QED
    BY <1>1, <2>1, <2>2, <2>3, QuietStep
<1>6. CASE CommandIsDuplicate(w)
  BY <1>1, <1>2, <1>6, AckStep DEF CommandIsDuplicate, runState
<1>7. CASE ClaimGranted(w)
  <2>1. /\ UNCHANGED <<legacy, msg, due, pub, stream, pel, key, lost>> /\ Goto(w, "execute")
        /\ No(w) = epoch + 1 /\ epoch' = epoch + 1 /\ mode = "waiting" /\ mode' = "working"
    BY <1>7 DEF ClaimGranted, Run!Grant, redis
  <2>2. PICK s \in WorkerState :
           /\ worker' = [worker EXCEPT ![w] = s]
           /\ s.pc = "execute" /\ s.entry = worker[w].entry /\ s.todo = worker[w].todo
    BY <2>1, GotoState DEF Busy
  <2>3. RowsOK' /\ PublisherOK' /\ RedisOK' /\ CommandOnItsWay'
    BY <1>1, <2>1, GrantRows DEF DispatchInv, RedisOK
  <2>4. WorkerOK(s)'
    BY <1>2, <1>3, <1>4, <2>1, <2>2 DEF WorkerOK, Busy, No
  <2>5. /\ epoch' >= epoch /\ s.entry[2] = epoch + 1
        /\ worker' = [worker EXCEPT ![w] = s]
        /\ \A t \in Slots : pel'[t] \in {0, pel[t]}
    BY <1>4, <2>1, <2>2 DEF No
  <2> QED
    BY <2>3, <2>4, <2>5, WorkerStep
<1>8. CASE ClaimRefused(w)
  BY <1>1, <1>2, <1>8, AckStep DEF ClaimRefused, runState
<1>9. CASE Report(w)
  <2>1. /\ UNCHANGED <<legacy, pub, stream, pel, key, lost>> /\ Goto(w, "ack")
        /\ AttemptEnds \/ UNCHANGED <<mode, epoch, msg, due>>
    BY <1>9 DEF Report, redis, runState
  <2>2. PICK s \in WorkerState :
           /\ worker' = [worker EXCEPT ![w] = s]
           /\ s.pc = "ack" /\ s.entry = worker[w].entry /\ s.todo = worker[w].todo
    BY <2>1, GotoState DEF Busy
  <2>3. RowsOK' /\ PublisherOK' /\ CommandOnItsWay' /\ epoch' = epoch
    <3>1. CASE AttemptEnds
      BY <2>1, <3>1, AttemptEndsOK
    <3>2. CASE UNCHANGED <<mode, epoch, msg, due>>
      <4>1. RowsOK' /\ PublisherOK'
        BY <2>1, <3>2 DEF DispatchInv, RowsOK, PublisherOK
      <4>2. CommandOnItsWay'
        BY <2>1, <3>2, StaysOnItsWay DEF InStream
      <4> QED
        BY <3>2, <4>1, <4>2
    <3> QED
      BY <2>1, <3>1, <3>2
  <2>4. RedisOK'
    BY <1>1, <2>1 DEF DispatchInv, RedisOK
  <2>5. WorkerOK(s)'
    <3>1. No(w) <= epoch
      BY <1>3, <1>9 DEF Report
    <3> QED
      BY <1>2, <2>1, <2>2, <2>3, <3>1 DEF WorkerOK, Busy, No
  <2>6. /\ epoch' >= epoch /\ s.pc # "execute"
        /\ worker' = [worker EXCEPT ![w] = s]
        /\ \A t \in Slots : pel'[t] \in {0, pel[t]}
    BY <1>4, <2>1, <2>2, <2>3
  <2> QED
    BY <2>3, <2>4, <2>5, <2>6, WorkerStep
<1>10. CASE Acknowledge(w)
  <2>1. No(w) # epoch + 1
    BY <1>3, <1>4, <1>10 DEF Acknowledge
  <2> QED
    BY <1>1, <1>2, <1>10, <2>1, AckStep DEF Acknowledge, runState
<1> QED
  BY <1>5, <1>6, <1>7, <1>8, <1>9, <1>10 DEF handle_entry

(* Calls that fail or are not answered, and workers that stop and start. *)
LEMMA WorkerFailureInv ==
    ASSUME DispatchInv, NEW w \in Workers,
           \/ ClaimFails(w) \/ ClaimAnswerLost(w) \/ ReportFails(w)
           \/ AcknowledgeFails(w) \/ Crash(w) \/ Start(w)
    PROVE  DispatchInv'
<1>1. faults' \in 0..MaxFaults
  BY FaultType DEF ClaimFails, ClaimAnswerLost, ReportFails, AcknowledgeFails, Crash, Start
<1>2. worker[w] \in WorkerState /\ WorkerOK(worker[w]) /\ key \subseteq Attempts /\ epoch \in Nat
  BY DispatchAssumption DEF DispatchInv, RedisOK, RowsOK
<1>3. CASE ClaimFails(w) \/ AcknowledgeFails(w)
  BY <1>1, <1>3, DropStep DEF ClaimFails, AcknowledgeFails, runState, redis
<1>4. CASE ClaimAnswerLost(w)
  <2>1. /\ UNCHANGED <<legacy, msg, due, pub, stream, pel, key, lost>> /\ Done(w)
        /\ epoch' = epoch + 1 /\ mode = "waiting" /\ mode' = "working"
    BY <1>4 DEF ClaimAnswerLost, Run!Grant, redis
  <2>2. PICK s \in WorkerState :
           /\ worker' = [worker EXCEPT ![w] = s]
           /\ s.pc = "idle" /\ s.entry = <<>> /\ s.todo = worker[w].todo
    BY <2>1, DoneState
  <2>3. RowsOK' /\ PublisherOK' /\ RedisOK' /\ CommandOnItsWay'
    BY <1>1, <2>1, GrantRows DEF DispatchInv, RedisOK
  <2>4. WorkerOK(s)'
    BY <1>2, <2>1, <2>2 DEF WorkerOK, Busy
  <2>5. /\ epoch' >= epoch /\ s.pc # "execute"
        /\ worker' = [worker EXCEPT ![w] = s]
        /\ \A t \in Slots : pel'[t] \in {0, pel[t]}
    BY <1>2, <2>1, <2>2
  <2> QED
    BY <2>3, <2>4, <2>5, WorkerStep
<1>5. CASE ReportFails(w)
  <2>1. /\ UNCHANGED <<legacy, mode, epoch, msg, due, pub, stream, pel, key, lost>>
        /\ Goto(w, "ack") /\ worker[w].pc = "execute"
    BY <1>5 DEF ReportFails, runState, redis
  <2>2. PICK s \in WorkerState :
           /\ worker' = [worker EXCEPT ![w] = s]
           /\ s.pc = "ack" /\ s.entry = worker[w].entry /\ s.todo = worker[w].todo
    BY <2>1, GotoState DEF Busy
  <2>3. WorkerOK(s) /\ s.pc # "execute"
    BY <1>2, <2>1, <2>2 DEF WorkerOK, Busy
  <2> QED
    BY <1>1, <1>2, <2>1, <2>2, <2>3, QuietStep
<1>6. CASE Crash(w) \/ Start(w)
  <2>1. /\ UNCHANGED <<legacy, mode, epoch, msg, due, pub, stream, pel, key, lost>>
        /\ worker' = [worker EXCEPT ![w] = Down] \/ worker' = [worker EXCEPT ![w] = Idle]
    BY <1>6 DEF Crash, Start, runState, redis
  <2>2. /\ Down \in WorkerState /\ Down.pc = "down" /\ Down.entry = <<>> /\ Down.todo = {}
        /\ Idle \in WorkerState /\ Idle.pc = "idle" /\ Idle.entry = <<>> /\ Idle.todo = {}
    BY DEF Down, Idle, WorkerState
  <2>3. WorkerOK(Down) /\ WorkerOK(Idle)
    BY <2>2 DEF WorkerOK, Busy
  <2>4. PICK s \in WorkerState : worker' = [worker EXCEPT ![w] = s] /\ WorkerOK(s) /\ s.pc # "execute"
    BY <2>1, <2>2, <2>3
  <2> QED
    BY <1>1, <1>2, <2>1, <2>4, QuietStep
<1> QED
  BY <1>3, <1>4, <1>5, <1>6

(* Every step keeps the invariant. *)
LEMMA NextInv == DispatchInv /\ [Next]_vars => DispatchInv'
<1> SUFFICES ASSUME DispatchInv, [Next]_vars PROVE DispatchInv'
  OBVIOUS
<1>1. CASE RunStep \/ BackoffEnds
  BY <1>1, RunInv
<1>2. CASE PublisherStep \/ PublishFails \/ ControlPlaneRestarts
  BY <1>2, PublisherInv
<1>3. CASE KeyExpires \/ RedisLosesData
  BY <1>3, RedisInv
<1>4. ASSUME NEW w \in Workers,
             \/ ClaimFails(w) \/ ClaimAnswerLost(w) \/ ReportFails(w)
             \/ AcknowledgeFails(w) \/ Crash(w) \/ Start(w)
      PROVE  DispatchInv'
  BY <1>4, WorkerFailureInv
<1>5. ASSUME NEW w \in Workers, run_forever(w) PROVE DispatchInv'
  BY <1>5, ReadGroupInv, ReclaimInv, TakeInv, HandleInv DEF run_forever
<1>6. CASE UNCHANGED vars
  <2>1. UNCHANGED <<legacy, mode, epoch, msg, due, pub, stream, pel, key, lost, worker, faults>>
    BY <1>6 DEF vars, runState, redis
  <2>2. RowsOK' /\ PublisherOK' /\ RedisOK' /\ \A t \in Slots : pel'[t] \in {0, pel[t]}
    BY <2>1 DEF DispatchInv, RowsOK, PublisherOK, RedisOK
  <2>3. CommandOnItsWay'
    BY <2>1, StaysOnItsWay DEF InStream
  <2> QED
    BY <2>1, <2>2, <2>3, OutsideStep
<1> QED
  BY <1>1, <1>2, <1>3, <1>4, <1>5, <1>6 DEF Next, Failure

-----------------------------------------------------------------------------
(* Theorems *)

(* The inductive invariant holds in every reachable state. *)
THEOREM DispatchInvariance == Spec => []DispatchInv
BY InitInv, NextInv, PTL DEF Spec

(* Rows, entries and processes keep their types. *)
THEOREM DispatchTypeCorrect == Spec => []TypeOK
<1>1. DispatchInv => TypeOK
  <2> SUFFICES ASSUME DispatchInv PROVE TypeOK
    OBVIOUS
  <2>1. ASSUME NEW w \in Workers
        PROVE  /\ worker[w].pc \in {"down", "idle", "got", "claim", "execute", "ack"}
               /\ worker[w].todo \subseteq Entries
               /\ IF worker[w].pc \in {"down", "idle"} THEN worker[w].entry = <<>>
                                                      ELSE worker[w].entry \in Entries
    <3>1. worker[w] \in WorkerState /\ WorkerOK(worker[w])
      BY DEF DispatchInv
    <3> QED
      BY <3>1 DEF WorkerState, WorkerOK, Busy
  <2>2. /\ pub.pc \in {"idle", "find", "repend", "read", "publish", "mark"}
        /\ pub.batch \subseteq Attempts
        /\ (pub.pc \in {"repend", "publish", "mark"}) <=> (pub.batch # {})
    BY DEF DispatchInv, PublisherOK
  <2> QED
    BY <2>1, <2>2 DEF DispatchInv, RowsOK, RedisOK, TypeOK
<1> QED
  BY <1>1, DispatchInvariance, PTL

(* However often a command is published, delivered and reclaimed, and      *)
(* whatever crashes, at most one worker executes an attempt, and only one  *)
(* that was claimed.                                                       *)
THEOREM ExecutesOnce == Spec => []ExecutedOnce
<1>1. DispatchInv => ExecutedOnce
  BY DEF DispatchInv
<1> QED
  BY <1>1, DispatchInvariance, PTL

(* The published command of a waiting snapshot run stays in Redis until it *)
(* is claimed, as long as Redis keeps its data.                            *)
THEOREM CommandIsKept == Spec => []CommandKept
<1>1. DispatchInv => CommandKept
  BY DEF DispatchInv, CommandOnItsWay, CommandKept, StillInStream, InStream
<1> QED
  BY <1>1, DispatchInvariance, PTL

=============================================================================
