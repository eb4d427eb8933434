-------------------------- MODULE WorkerHostProofs --------------------------
(***************************************************************************)
(* Proofs about WorkerHost for every set of workers, number of attempts,   *)
(* amount of evidence and number of faults.                                *)
(*                                                                         *)
(* What a worker relies on (WorkerOK) relates its own record to the shared *)
(* state.  A step keeps it for the other workers when it moves the shared  *)
(* state only in the ways Gentle allows; that is proved once (WorkerStep), *)
(* and every action is then looked at for its own worker only.             *)
(***************************************************************************)
EXTENDS WorkerHost, FiniteSetTheorems, TLAPS

Busy == {"look", "lock", "recheck", "build", "built", "pin", "start", "work", "report"}
Unbuilt == {"look", "lock", "recheck", "build"}
Locking == {"recheck", "build", "built"}

WorkerState ==
    [pc : {"down", "sweep", "remove", "ready", "flush", "post", "unlink", "look",
           "lock", "recheck", "build", "built", "pin", "start", "work", "report"},
     att : 0 .. MaxAttempts, img : 0 .. MaxBuilds, list : SUBSET Attempts,
     item : 0 .. MaxAttempts, seen : 0 .. MaxSaves]

SharedTypes ==
    /\ lease \in [Attempts -> {"new", "live", "lapsed", "revived", "ended"}]
    /\ pinned \in [Runs -> 0 .. MaxBuilds] /\ row \in 0 .. MaxBuilds
    /\ uploaded \in [Attempts -> SUBSET (1 .. MaxSaves)]
    /\ spool \in [Attempts -> 0 .. MaxSaves] /\ saves \in [Attempts -> 0 .. MaxSaves]
    /\ containers \subseteq Attempts
    /\ builds \in Nat
    /\ orphan \in {"none", "running", "over"}
    /\ faults \in 0 .. MaxFaults

(* What worker w relies on when its record is me. *)
WorkerOK(w, me) ==
    /\ me.pc \in Busy => me.att \in Attempts /\ lease[me.att] # "new"
    /\ me.pc \in {"sweep", "remove"} => \A a \in me.list : lease[a] # "new"
    /\ me.pc = "remove" => me.item \in Attempts /\ lease[me.item] \notin {"new", "live"}
    /\ me.pc \in {"post", "unlink"} => me.item \in Attempts
    /\ me.pc = "post" => me.seen # 0
    /\ me.pc \in Locking => lock = {w}
    /\ me.pc = "built" => tag # 0
    /\ me.pc = "build" /\ orphan = "none" => tag = 0
    /\ me.pc \in {"pin", "start", "work"} => me.img # 0
    /\ me.pc \in {"start", "work"} => me.img = row
    /\ me.pc = "work" /\ lease[me.att] = "live" => me.att \in containers

(* No attempt is given to two workers. *)
OwnAttempts ==
    \A v, w \in Workers :
        /\ worker[v].pc \in Busy /\ worker[w].pc \in Busy
        /\ worker[v].att = worker[w].att
        => v = w

(* Claimed attempts that will not build an image any more. *)
Spent ==
    {a \in Attempts :
        /\ lease[a] # "new"
        /\ \A w \in Workers : worker[w].pc \in Unbuilt => worker[w].att # a}

(* Builds are paid for by spent attempts, but one build left alone. *)
BuildsCounted == builds <= Cardinality(Spent) + (IF orphan = "over" THEN 1 ELSE 0)

SharedOK ==
    /\ \A a \in containers : lease[a] # "new"
    /\ \A r \in Runs : pinned[r] \in {0, row}
    /\ lock = {} \/ \E w \in Workers : lock = {w}
    /\ tag = builds

HostInv ==
    /\ SharedTypes /\ worker \in [Workers -> WorkerState]
    /\ \A w \in Workers : WorkerOK(w, worker[w])
    /\ OwnAttempts /\ SharedOK /\ BuildsCounted

-----------------------------------------------------------------------------
(* The invariant gives the types *)

(* There are no more spent attempts than attempts. *)
LEMMA SpentFinite == IsFiniteSet(Spent) /\ Cardinality(Spent) \in 0 .. MaxAttempts
<1>1. MaxAttempts \in Nat
  BY HostAssumption
<1>2. IsFiniteSet(Attempts) /\ Cardinality(Attempts) = MaxAttempts
  BY <1>1, FS_Interval DEF Attempts
<1>3. Spent \in SUBSET Attempts
  BY DEF Spent
<1>4. IsFiniteSet(Spent) /\ Cardinality(Spent) <= MaxAttempts
  BY <1>2, <1>3, FS_Subset
<1> QED
  BY <1>1, <1>4, FS_CardinalityType

(* In particular, every attempt builds one image at most. *)
LEMMA InvGivesTypes == HostInv => TypeOK
<1> SUFFICES ASSUME HostInv PROVE TypeOK
  OBVIOUS
<1>1. builds \in 0 .. MaxBuilds /\ tag \in 0 .. MaxBuilds
  BY SpentFinite, HostAssumption DEF HostInv, SharedTypes, SharedOK, BuildsCounted, MaxBuilds
<1>2. lock \subseteq Workers /\ Cardinality(lock) <= 1
  BY FS_Singleton, FS_EmptySet DEF HostInv, SharedOK
<1> QED
  BY <1>1, <1>2 DEF HostInv, SharedTypes, TypeOK, WorkerState

(* The invariant holds at the start. *)
LEMMA InitInv == Init => HostInv
<1> SUFFICES ASSUME Init PROVE HostInv
  OBVIOUS
<1>1. MaxAttempts \in Nat /\ MaxSaves \in Nat /\ MaxFaults \in Nat /\ MaxBuilds \in Nat
  BY HostAssumption DEF MaxBuilds
<1>2. Resting("down") \in WorkerState /\ Resting("down").pc = "down"
  BY <1>1 DEF Resting, WorkerState
<1>3. SharedTypes /\ worker \in [Workers -> WorkerState]
  BY <1>1, <1>2 DEF Init, SharedTypes
<1>4. \A w \in Workers : worker[w].pc = "down"
  BY <1>2 DEF Init
<1>5. (\A w \in Workers : WorkerOK(w, worker[w])) /\ OwnAttempts
  BY <1>4 DEF WorkerOK, OwnAttempts, Busy, Locking
<1>6. SharedOK /\ BuildsCounted
  BY SpentFinite DEF Init, SharedOK, BuildsCounted
<1> QED
  BY <1>3, <1>5, <1>6 DEF HostInv

-----------------------------------------------------------------------------
(* Steps, as the workers that do not take them see them *)

LeasesMove ==
    \A a \in Attempts : /\ lease[a] # "new" => lease'[a] # "new"
                        /\ lease'[a] = "live" => lease[a] \in {"new", "live"}

(* The shared state moves so that worker v can go on relying on it. *)
StaysFor(v) ==
    /\ LeasesMove
    /\ lock = {v} => lock' = {v}
    /\ tag # 0 => tag' # 0
    /\ worker[v].pc = "build" => tag' = tag \/ orphan' # "none"
    /\ orphan' = "none" => orphan = "none"
    /\ row # 0 => row' = row
    /\ worker[v].pc = "work" /\ lease[worker[v].att] = "live" /\ worker[v].att \in containers
       => worker[v].att \in containers'

(* A worker whose record stays is fine afterwards. *)
LEMMA Others ==
    ASSUME HostInv, NEW v \in Workers, worker'[v] = worker[v], StaysFor(v)
    PROVE  WorkerOK(v, worker[v])'
<1>1. WorkerOK(v, worker[v]) /\ worker[v] \in WorkerState
  BY DEF HostInv
<1>2. worker[v].list \subseteq Attempts
  BY <1>1 DEF WorkerState
<1> DEFINE me == worker[v]
<1>3. me.pc \in Busy => me.att \in Attempts /\ lease'[me.att] # "new"
  BY <1>1 DEF WorkerOK, StaysFor, LeasesMove
<1>4. /\ me.pc \in {"sweep", "remove"} => \A a \in me.list : lease'[a] # "new"
      /\ me.pc = "remove" => me.item \in Attempts /\ lease'[me.item] \notin {"new", "live"}
      /\ me.pc \in {"post", "unlink"} => me.item \in Attempts
      /\ me.pc = "post" => me.seen # 0
  BY <1>1, <1>2 DEF WorkerOK, StaysFor, LeasesMove
<1>5. /\ me.pc \in Locking => lock' = {v}
      /\ me.pc = "built" => tag' # 0
      /\ me.pc = "build" /\ orphan' = "none" => tag' = 0
      /\ me.pc \in {"pin", "start", "work"} => me.img # 0
      /\ me.pc \in {"start", "work"} => me.img = row'
  BY <1>1 DEF WorkerOK, StaysFor
<1>6. me.pc = "work" /\ lease'[me.att] = "live" => me.att \in containers'
  BY <1>1, <1>3 DEF WorkerOK, StaysFor, LeasesMove, Busy
<1> QED
  BY <1>3, <1>4, <1>5, <1>6 DEF WorkerOK

(* What a step of worker w may do to the shared state. *)
Gentle(w) ==
    /\ LeasesMove
    /\ lock' = lock \/ (lock = {} /\ lock' = {w}) \/ (lock = {w} /\ lock' = {})
    /\ orphan' = orphan \/ (orphan = "none" /\ orphan' = "running")
    /\ \/ UNCHANGED <<tag, builds>>
       \/ /\ worker[w].pc = "build" /\ worker'[w] = [worker[w] EXCEPT !.pc = "built"]
          /\ builds' = builds + 1 /\ tag' = builds'
    /\ row # 0 => row' = row
    /\ \A r \in Runs : pinned'[r] \in {0, row'}
    /\ \A a \in containers' \ containers : lease[a] # "new"
    /\ \A a \in containers \ containers' :
          lease[a] # "live" \/ (worker[w].pc \in Busy /\ worker[w].att = a)

(* A worker that goes on with its attempt, or begins one nobody had. *)
Follows(w, s) ==
    /\ s.pc \in Busy => \/ worker[w].pc \in Busy /\ s.att = worker[w].att
                        \/ s.att \in Attempts /\ lease[s.att] = "new"
    /\ s.pc \in Unbuilt => \/ worker[w].pc \in Unbuilt /\ s.att = worker[w].att
                           \/ lease[s.att] = "new"

(* The builds stay counted: the attempt that builds was not spent before. *)
LEMMA CountStep ==
    ASSUME HostInv, NEW w \in Workers, NEW s \in WorkerState,
           worker' = [worker EXCEPT ![w] = s], Gentle(w), Follows(w, s)
    PROVE  BuildsCounted'
<1>1. worker \in [Workers -> WorkerState]
  BY DEF HostInv
<1>2. Spent \subseteq Spent'
  <2> SUFFICES ASSUME NEW a \in Spent PROVE a \in Spent'
    OBVIOUS
  <2>1. a \in Attempts /\ lease[a] # "new" /\ lease'[a] # "new"
    BY DEF Spent, Gentle, LeasesMove
  <2>2. ASSUME NEW v \in Workers, worker'[v].pc \in Unbuilt PROVE worker'[v].att # a
    <3>1. CASE v = w
      BY <1>1, <2>1, <2>2, <3>1 DEF Follows, Spent
    <3>2. CASE v # w
      BY <1>1, <2>2, <3>2 DEF Spent
    <3> QED
      BY <3>1, <3>2
  <2> QED
    BY <2>1, <2>2 DEF Spent
<1>3. IsFiniteSet(Spent) /\ Cardinality(Spent) \in Nat
  BY SpentFinite, HostAssumption
<1>4. IsFiniteSet(Spent') /\ Cardinality(Spent') \in Nat
  <2>1. (IsFiniteSet(Spent) /\ Cardinality(Spent) \in 0 .. MaxAttempts)'
    BY SpentFinite, PTL
  <2> QED
    BY <2>1, HostAssumption
<1>5. builds \in Nat /\ builds <= Cardinality(Spent) + (IF orphan = "over" THEN 1 ELSE 0)
  BY DEF HostInv, SharedTypes, BuildsCounted
<1>6. orphan = "over" => orphan' = "over"
  BY DEF Gentle
<1>7. CASE UNCHANGED builds
  <2>1. Cardinality(Spent) <= Cardinality(Spent')
    BY <1>2, <1>4, FS_Subset
  <2> QED
    BY <1>3, <1>4, <1>5, <1>6, <1>7, <2>1 DEF BuildsCounted
<1>8. CASE /\ worker[w].pc = "build" /\ worker'[w] = [worker[w] EXCEPT !.pc = "built"]
           /\ builds' = builds + 1
  <2> DEFINE a == worker[w].att
  <2>1. a \in Attempts /\ lease[a] # "new"
    BY <1>8 DEF HostInv, WorkerOK, Busy
  <2>2. a \notin Spent
    BY <1>8 DEF Spent, Unbuilt
  <2>3. a \in Spent'
    <3>1. lease'[a] # "new"
      BY <2>1 DEF Gentle, LeasesMove
    <3>2. ASSUME NEW v \in Workers, worker'[v].pc \in Unbuilt, worker'[v].att = a PROVE FALSE
      <4>1. v # w
        BY <1>1, <1>8, <3>2 DEF WorkerState, Unbuilt
      <4>2. worker'[v] = worker[v]
        BY <1>1, <4>1
      <4> QED
        BY <1>8, <3>2, <4>1, <4>2 DEF HostInv, OwnAttempts, Busy, Unbuilt
    <3> QED
      BY <2>1, <3>1, <3>2 DEF Spent
  <2>4. Cardinality(Spent \union {a}) = Cardinality(Spent) + 1
    BY <1>3, <2>2, FS_AddElement
  <2>5. Cardinality(Spent \union {a}) <= Cardinality(Spent')
    BY <1>2, <1>4, <2>3, FS_Subset
  <2> QED
    BY <1>3, <1>4, <1>5, <1>6, <1>8, <2>4, <2>5 DEF BuildsCounted
<1> QED
  BY <1>7, <1>8 DEF Gentle

(* A gentle step of a worker that is fine afterwards keeps the invariant. *)
LEMMA WorkerStep ==
    ASSUME HostInv, NEW w \in Workers, NEW s \in WorkerState,
           worker' = [worker EXCEPT ![w] = s], Gentle(w), Follows(w, s),
           SharedTypes', WorkerOK(w, s)'
    PROVE  HostInv'
<1>1. worker \in [Workers -> WorkerState] /\ worker' \in [Workers -> WorkerState]
  BY DEF HostInv
<1>2. worker'[w] = s /\ \A v \in Workers : v # w => worker'[v] = worker[v]
  BY <1>1
<1>3. ASSUME NEW v \in Workers PROVE WorkerOK(v, worker[v])'
  <2>1. CASE v = w
    BY <1>2, <2>1
  <2>2. CASE v # w
    <3>1. LeasesMove /\ (lock = {v} => lock' = {v})
      BY <2>2 DEF Gentle
    <3>2. builds \in Nat /\ tag = builds /\ (tag # 0 => tag' # 0)
      BY DEF HostInv, SharedTypes, SharedOK, Gentle
    <3>3. worker[v].pc = "build" => tag' = tag
      <4> SUFFICES ASSUME worker[v].pc = "build", worker[w].pc = "build" PROVE FALSE
        BY DEF Gentle
      <4>1. lock = {v} /\ lock = {w}
        BY DEF HostInv, WorkerOK, Locking
      <4> QED
        BY <2>2, <4>1
    <3>4. (orphan' = "none" => orphan = "none") /\ (row # 0 => row' = row)
      BY DEF Gentle
    <3>5. ASSUME worker[v].pc = "work", lease[worker[v].att] = "live",
                 worker[v].att \in containers
          PROVE  worker[v].att \in containers'
      BY <2>2, <3>5 DEF Gentle, HostInv, OwnAttempts, Busy
    <3>6. StaysFor(v)
      BY <3>1, <3>2, <3>3, <3>4, <3>5 DEF StaysFor
    <3> QED
      BY <1>2, <2>2, <3>6, Others
  <2> QED
    BY <2>1, <2>2
<1>4. OwnAttempts'
  <2> SUFFICES ASSUME NEW u \in Workers, NEW v \in Workers,
                      worker'[u].pc \in Busy, worker'[v].pc \in Busy,
                      worker'[u].att = worker'[v].att, u # v
               PROVE  FALSE
    BY DEF OwnAttempts
  <2>1. ASSUME NEW x \in Workers, x # w, worker[x].pc \in Busy, s.pc \in Busy
        PROVE  worker[x].att # s.att
    BY <2>1 DEF Follows, HostInv, OwnAttempts, WorkerOK
  <2> QED
    BY <1>2, <2>1 DEF HostInv, OwnAttempts
<1>5. SharedOK'
  <2>1. \A a \in containers' : lease'[a] # "new"
    BY DEF SharedTypes, Gentle, LeasesMove, HostInv, SharedOK
  <2>2. lock' = {} \/ \E v \in Workers : lock' = {v}
    BY DEF Gentle, HostInv, SharedOK
  <2>3. tag' = builds' /\ \A r \in Runs : pinned'[r] \in {0, row'}
    BY DEF Gentle, HostInv, SharedOK
  <2> QED
    BY <2>1, <2>2, <2>3 DEF SharedOK
<1>6. BuildsCounted'
  BY CountStep
<1> QED
  BY <1>1, <1>3, <1>4, <1>5, <1>6 DEF HostInv

(* A worker that starts over or idles relies on nothing. *)
LEMMA RestingFine ==
    ASSUME NEW w, NEW pc \in {"down", "ready"}
    PROVE  /\ Resting(pc) \in WorkerState
           /\ Follows(w, Resting(pc)) /\ WorkerOK(w, Resting(pc)) /\ WorkerOK(w, Resting(pc))'
<1>1. Resting(pc) \in WorkerState
  BY HostAssumption DEF Resting, WorkerState, MaxBuilds
<1>2. Resting(pc).pc \notin Busy \union Unbuilt \union Locking
      /\ Resting(pc).pc \notin {"sweep", "remove", "post", "unlink", "built", "build", "pin",
                                "start", "work"}
  BY DEF Resting, Busy, Unbuilt, Locking
<1> QED
  BY <1>1, <1>2 DEF Follows, WorkerOK

(* A step that leaves leases, images and containers alone. *)
LEMMA LocalStep ==
    ASSUME HostInv, NEW w \in Workers, NEW s \in WorkerState,
           worker' = [worker EXCEPT ![w] = s], Follows(w, s), WorkerOK(w, s),
           UNCHANGED <<lease, pinned, row, containers, images>>,
           uploaded' \in [Attempts -> SUBSET (1 .. MaxSaves)],
           spool' \in [Attempts -> 0 .. MaxSaves], saves' \in [Attempts -> 0 .. MaxSaves],
           faults' \in 0 .. MaxFaults
    PROVE  HostInv'
<1>1. UNCHANGED <<lease, pinned, row, containers, lock, tag, builds, orphan>>
  BY DEF images
<1>2. Gentle(w)
  BY <1>1 DEF Gentle, LeasesMove, HostInv, SharedOK
<1>3. SharedTypes'
  BY <1>1 DEF HostInv, SharedTypes
<1>4. WorkerOK(w, s)'
  BY <1>1 DEF WorkerOK
<1> QED
  BY <1>2, <1>3, <1>4, WorkerStep

(* A fault is counted up to its bound. *)
LEMMA FaultType ==
    ASSUME HostInv, Fault \/ UNCHANGED faults
    PROVE  faults' \in 0 .. MaxFaults
BY HostAssumption DEF HostInv, SharedTypes, Fault

(* A worker that moves on keeps the other fields of its record. *)
LEMMA Moved ==
    ASSUME NEW me \in WorkerState, NEW pc \in {"built", "start", "work", "report"}
    PROVE  \E s \in WorkerState :
              /\ s = [me EXCEPT !.pc = pc]
              /\ s.pc = pc /\ s.att = me.att /\ s.img = me.img
<1> DEFINE s == [me EXCEPT !.pc = pc]
<1>1. s \in WorkerState /\ s.pc = pc /\ s.att = me.att /\ s.img = me.img
  BY DEF WorkerState
<1> QED
  BY <1>1, Zenon

(* What is known of the record of a worker that is about to step. *)
LEMMA GoesOn ==
    ASSUME HostInv, NEW w \in Workers
    PROVE  /\ worker[w] \in WorkerState /\ WorkerOK(w, worker[w])
           /\ MaxAttempts \in Nat /\ MaxSaves \in Nat /\ MaxBuilds \in Nat
           /\ worker \in [Workers -> WorkerState] /\ TypeOK
BY HostAssumption, InvGivesTypes DEF HostInv, MaxBuilds

-----------------------------------------------------------------------------
(* The sweep *)

(* Start, SweepAsk and SweepEnds: the containers on the list belong to     *)
(* claimed attempts, and the one to remove to an attempt that is not live. *)
LEMMA SweepInv ==
    ASSUME HostInv, NEW w \in Workers, Start(w) \/ SweepAsk(w) \/ SweepEnds(w)
    PROVE  HostInv'
<1>1. /\ UNCHANGED <<lease, pinned, row, containers, images>>
      /\ UNCHANGED <<uploaded, spool, saves>> /\ (Fault \/ UNCHANGED faults)
  BY DEF Start, SweepAsk, SweepEnds, server, files
<1>2. /\ uploaded' \in [Attempts -> SUBSET (1 .. MaxSaves)]
      /\ spool' \in [Attempts -> 0 .. MaxSaves] /\ saves' \in [Attempts -> 0 .. MaxSaves]
      /\ faults' \in 0 .. MaxFaults
  BY <1>1, FaultType DEF HostInv, SharedTypes
<1> SUFFICES \E s \in WorkerState : /\ worker' = [worker EXCEPT ![w] = s]
                                    /\ Follows(w, s) /\ WorkerOK(w, s)
  BY <1>1, <1>2, LocalStep
<1>3. worker[w] \in WorkerState /\ WorkerOK(w, worker[w])
  BY GoesOn
<1>4. CASE Start(w)
  <2> DEFINE s == [Resting("sweep") EXCEPT !.list = containers]
  <2>1. s \in WorkerState
    BY HostAssumption DEF Resting, WorkerState, MaxBuilds, HostInv, SharedTypes
  <2>2. s.pc = "sweep" /\ s.list = containers
    BY DEF Resting
  <2>3. Follows(w, s) /\ WorkerOK(w, s)
    BY <2>2 DEF Follows, WorkerOK, Busy, Unbuilt, Locking, HostInv, SharedOK
  <2> QED
    BY <1>4, <2>1, <2>3 DEF Start, Goes
<1>5. CASE SweepAsk(w)
  <2>1. PICK a \in worker[w].list :
          Goes(w, IF LeftOver(a) THEN [worker[w] EXCEPT !.pc = "remove", !.item = a]
                                 ELSE [worker[w] EXCEPT !.list = @ \ {a}])
    BY <1>5 DEF SweepAsk
  <2>2. /\ worker[w].pc = "sweep" /\ a \in Attempts /\ a \in 0 .. MaxAttempts
        /\ worker[w].list \subseteq Attempts /\ \A b \in worker[w].list : lease[b] # "new"
    <3>1. worker[w].pc = "sweep" /\ worker[w].list \subseteq Attempts
      BY <1>3, <1>5 DEF SweepAsk, At, WorkerState
    <3>2. \A b \in worker[w].list : lease[b] # "new"
      BY <1>3, <3>1 DEF WorkerOK
    <3> QED
      BY <3>1, <3>2, HostAssumption DEF Attempts
  <2>3. CASE LeftOver(a)
    <3> DEFINE s == [worker[w] EXCEPT !.pc = "remove", !.item = a]
    <3>1. s \in WorkerState /\ s.pc = "remove" /\ s.item = a /\ s.list = worker[w].list
      BY <1>3, <2>2 DEF WorkerState
    <3>2. lease[a] \notin {"new", "live"}
      BY <2>1, <2>2, <2>3 DEF LeftOver, Active
    <3>3. Follows(w, s) /\ WorkerOK(w, s)
      BY <2>2, <3>1, <3>2 DEF Follows, WorkerOK, Busy, Unbuilt, Locking
    <3> QED
      BY <2>1, <2>3, <3>1, <3>3 DEF Goes
  <2>4. CASE ~ LeftOver(a)
    <3> DEFINE s == [worker[w] EXCEPT !.list = @ \ {a}]
    <3>1. s \in WorkerState /\ s.pc = "sweep" /\ s.list = worker[w].list \ {a}
      BY <1>3, <2>2 DEF WorkerState
    <3>2. Follows(w, s) /\ WorkerOK(w, s)
      BY <2>2, <3>1 DEF Follows, WorkerOK, Busy, Unbuilt, Locking
    <3> QED
      BY <2>1, <2>4, <3>1, <3>2 DEF Goes
  <2> QED
    BY <2>3, <2>4
<1>6. CASE SweepEnds(w)
  BY <1>6, RestingFine DEF SweepEnds, Goes
<1> QED
  BY <1>4, <1>5, <1>6

-----------------------------------------------------------------------------
(* Evidence *)

(* Reading the spool, and ending a flush. *)
LEMMA FlushInv ==
    ASSUME HostInv, NEW w \in Workers, Flush(w) \/ FlushRead(w) \/ FlushFails(w)
    PROVE  HostInv'
<1>1. /\ UNCHANGED <<lease, pinned, row, containers, images>>
      /\ UNCHANGED <<uploaded, spool, saves>> /\ (Fault \/ UNCHANGED faults)
  BY DEF Flush, FlushRead, FlushFails, server, files
<1>2. /\ uploaded' \in [Attempts -> SUBSET (1 .. MaxSaves)]
      /\ spool' \in [Attempts -> 0 .. MaxSaves] /\ saves' \in [Attempts -> 0 .. MaxSaves]
      /\ faults' \in 0 .. MaxFaults
  BY <1>1, FaultType DEF HostInv, SharedTypes
<1> SUFFICES \E s \in WorkerState : /\ worker' = [worker EXCEPT ![w] = s]
                                    /\ Follows(w, s) /\ WorkerOK(w, s)
  BY <1>1, <1>2, LocalStep
<1>3. worker[w] \in WorkerState
  BY GoesOn
<1>4. CASE Flush(w)
  <2> DEFINE files0 == {a \in Attempts : spool[a] # 0}
             s == [Resting("flush") EXCEPT !.list = files0]
  <2>1. s \in WorkerState /\ s.pc = "flush"
    BY HostAssumption DEF Resting, WorkerState, MaxBuilds
  <2>2. Follows(w, s) /\ WorkerOK(w, s)
    BY <2>1 DEF Follows, WorkerOK, Busy, Unbuilt, Locking
  <2> QED
    BY <1>4, <2>1, <2>2 DEF Flush, Goes
<1>5. CASE Goes(w, Resting("ready"))
  BY <1>5, RestingFine DEF Goes
<1>6. ASSUME NEW a \in worker[w].list, spool[a] # 0,
             Goes(w, [worker[w] EXCEPT !.pc = "post", !.item = a, !.seen = spool[a]])
      PROVE  \E s \in WorkerState : /\ worker' = [worker EXCEPT ![w] = s]
                                    /\ Follows(w, s) /\ WorkerOK(w, s)
  <2> DEFINE s == [worker[w] EXCEPT !.pc = "post", !.item = a, !.seen = spool[a]]
  <2>1. a \in Attempts /\ a \in 0 .. MaxAttempts /\ spool[a] \in 0 .. MaxSaves
    BY <1>3, HostAssumption DEF WorkerState, Attempts, HostInv, SharedTypes
  <2>2. s \in WorkerState /\ s.pc = "post" /\ s.item = a /\ s.seen = spool[a]
    BY <1>3, <2>1 DEF WorkerState
  <2>3. Follows(w, s) /\ WorkerOK(w, s)
    BY <1>6, <2>1, <2>2 DEF Follows, WorkerOK, Busy, Unbuilt, Locking
  <2> QED
    BY <1>6, <2>2, <2>3 DEF Goes
<1>7. CASE FlushRead(w)
  BY <1>5, <1>6, <1>7 DEF FlushRead
<1>8. CASE FlushFails(w)
  BY <1>5, <1>8 DEF FlushFails, AfterRefusal
<1> QED
  BY <1>4, <1>7, <1>8

(* Evidence posted, a file removed, evidence saved. *)
LEMMA EvidenceInv ==
    ASSUME HostInv, NEW w \in Workers, FlushPost(w) \/ FlushUnlink(w) \/ SaveEvidence(w)
    PROVE  HostInv'
<1>1. UNCHANGED <<lease, pinned, row, containers, images, faults>>
  BY DEF FlushPost, FlushUnlink, SaveEvidence, server, files
<1>2. /\ worker[w] \in WorkerState /\ WorkerOK(w, worker[w])
      /\ worker \in [Workers -> WorkerState] /\ MaxSaves \in Nat
  BY GoesOn
<1>3. /\ uploaded \in [Attempts -> SUBSET (1 .. MaxSaves)] /\ faults \in 0 .. MaxFaults
      /\ spool \in [Attempts -> 0 .. MaxSaves] /\ saves \in [Attempts -> 0 .. MaxSaves]
  BY DEF HostInv, SharedTypes
<1>4. CASE FlushPost(w)
  <2> DEFINE s == [worker[w] EXCEPT !.pc = "unlink"]
  <2>1. /\ worker[w].pc = "post" /\ worker[w].item \in Attempts
        /\ worker[w].seen \in 1 .. MaxSaves
    BY <1>2, <1>4 DEF FlushPost, At, WorkerOK, WorkerState
  <2>2. s \in WorkerState /\ s.pc = "unlink" /\ s.item = worker[w].item
    BY <1>2 DEF WorkerState
  <2>3. Follows(w, s) /\ WorkerOK(w, s)
    BY <2>1, <2>2 DEF Follows, WorkerOK, Busy, Unbuilt, Locking
  <2>4. uploaded' \in [Attempts -> SUBSET (1 .. MaxSaves)] /\ UNCHANGED <<spool, saves>>
    BY <1>3, <1>4, <2>1 DEF FlushPost, files
  <2>5. worker' = [worker EXCEPT ![w] = s]
    BY <1>4 DEF FlushPost, Goes
  <2> QED
    BY <1>1, <1>3, <2>2, <2>3, <2>4, <2>5, LocalStep
<1>5. CASE FlushUnlink(w)
  <2> DEFINE item == worker[w].item
             s == [Resting("flush") EXCEPT !.list = worker[w].list \ {item}]
  <2>1. s \in WorkerState /\ s.pc = "flush"
    BY <1>2, HostAssumption DEF Resting, WorkerState, MaxBuilds
  <2>2. Follows(w, s) /\ WorkerOK(w, s)
    BY <2>1 DEF Follows, WorkerOK, Busy, Unbuilt, Locking
  <2>3. spool' \in [Attempts -> 0 .. MaxSaves] /\ UNCHANGED <<uploaded, saves>>
    <3>1. spool' = [spool EXCEPT ![item] = 0] /\ 0 \in 0 .. MaxSaves
      BY <1>2, <1>5 DEF FlushUnlink
    <3> HIDE DEF item
    <3> QED
      BY <1>3, <1>5, <3>1 DEF FlushUnlink, server
  <2>4. worker' = [worker EXCEPT ![w] = Resting("ready")] \/ worker' = [worker EXCEPT ![w] = s]
    BY <1>5 DEF FlushUnlink, Goes
  <2> QED
    BY <1>1, <1>3, <2>1, <2>2, <2>3, <2>4, RestingFine, LocalStep
<1>6. CASE SaveEvidence(w)
  <2>1. worker' = [worker EXCEPT ![w] = worker[w]]
    BY <1>2, <1>6 DEF SaveEvidence
  <2>2. Follows(w, worker[w])
    BY <1>2 DEF Follows, Busy, Unbuilt
  <2>3. /\ saves' \in [Attempts -> 0 .. MaxSaves] /\ spool' \in [Attempts -> 0 .. MaxSaves]
        /\ UNCHANGED uploaded
    <3>1. worker[w].att \in Attempts
      BY <1>2, <1>6 DEF SaveEvidence, WorkerOK, Busy
    <3>2. saves[worker[w].att] + 1 \in 0 .. MaxSaves
      BY <1>2, <1>3, <1>6, <3>1 DEF SaveEvidence
    <3> QED
      BY <1>3, <1>6, <3>1, <3>2 DEF SaveEvidence, server
  <2> QED
    BY <1>1, <1>2, <1>3, <2>1, <2>2, <2>3, LocalStep
<1> QED
  BY <1>4, <1>5, <1>6

-----------------------------------------------------------------------------
(* Containers *)

(* A step that moves containers: the sandbox of another worker's live      *)
(* attempt stays.                                                          *)
LEMMA ContainerStep ==
    ASSUME HostInv, NEW w \in Workers, NEW s \in WorkerState,
           worker' = [worker EXCEPT ![w] = s], Follows(w, s), WorkerOK(w, s)',
           UNCHANGED <<server, files, images, faults>>,
           containers' \subseteq Attempts,
           \A a \in containers' \ containers : lease[a] # "new",
           \A a \in containers \ containers' :
              lease[a] # "live" \/ (worker[w].pc \in Busy /\ worker[w].att = a)
    PROVE  HostInv'
<1>1. UNCHANGED <<lease, pinned, row, uploaded, spool, saves, lock, tag, builds, orphan, faults>>
  BY DEF server, files, images
<1>2. Gentle(w)
  BY <1>1 DEF Gentle, LeasesMove, HostInv, SharedOK
<1>3. SharedTypes'
  BY <1>1 DEF HostInv, SharedTypes
<1> QED
  BY <1>2, <1>3, WorkerStep

(* The sweep removes what it asked for, and a worker starts and destroys   *)
(* the sandbox of its own attempt.                                         *)
LEMMA SandboxInv ==
    ASSUME HostInv, NEW w \in Workers, SweepRemove(w) \/ StartSandbox(w) \/ Destroy(w)
    PROVE  HostInv'
<1>1. UNCHANGED <<server, files, images, faults>> /\ UNCHANGED <<lease, row, lock, tag, orphan>>
  BY DEF SweepRemove, StartSandbox, Destroy, server, images
<1>2. /\ worker[w] \in WorkerState /\ WorkerOK(w, worker[w])
      /\ containers \subseteq Attempts /\ 0 \in 0 .. MaxBuilds
  BY GoesOn DEF HostInv, SharedTypes
<1>3. CASE SweepRemove(w)
  <2> DEFINE item == worker[w].item
  <2>1. /\ worker[w].pc = "remove" /\ lease[item] # "live"
        /\ \A a \in worker[w].list : lease[a] # "new"
    BY <1>2, <1>3 DEF SweepRemove, At, WorkerOK
  <2>2. PICK s \in WorkerState :
          /\ s = [Resting("sweep") EXCEPT !.list = worker[w].list \ {item}]
          /\ s.pc = "sweep" /\ s.list = worker[w].list \ {item}
    <3> DEFINE s == [Resting("sweep") EXCEPT !.list = worker[w].list \ {item}]
    <3>1. s \in WorkerState /\ s.pc = "sweep" /\ s.list = worker[w].list \ {item}
      BY <1>2, HostAssumption DEF Resting, WorkerState, MaxBuilds
    <3> QED
      BY <3>1, Zenon
  <2>3. Follows(w, s) /\ WorkerOK(w, s)'
    BY <1>1, <2>1, <2>2 DEF Follows, WorkerOK, Busy, Unbuilt, Locking
  <2>4. worker' = [worker EXCEPT ![w] = s] \/ worker' = [worker EXCEPT ![w] = Resting("ready")]
    BY <1>3, <2>2 DEF SweepRemove, Goes
  <2>5. containers' = containers \ {item}
    BY <1>3 DEF SweepRemove
  <2>6. /\ containers' \subseteq Attempts /\ containers' \ containers = {}
        /\ \A a \in containers \ containers' : lease[a] # "live"
    BY <1>2, <2>1, <2>5
  <2> QED
    BY <1>1, <2>2, <2>3, <2>4, <2>6, RestingFine, ContainerStep
<1>4. CASE StartSandbox(w)
  <2>1. /\ worker[w].pc = "start" /\ worker[w].att \in Attempts /\ lease[worker[w].att] # "new"
        /\ worker[w].img # 0 /\ worker[w].img = row
    BY <1>2, <1>4 DEF StartSandbox, At, WorkerOK, Busy
  <2>2. PICK s \in WorkerState :
          /\ s = [worker[w] EXCEPT !.pc = "work"]
          /\ s.pc = "work" /\ s.att = worker[w].att /\ s.img = worker[w].img
    BY <1>2, Moved
  <2>3. containers' = containers \union {worker[w].att} /\ worker' = [worker EXCEPT ![w] = s]
    BY <1>4, <2>2 DEF StartSandbox, Goes
  <2>4. Follows(w, s) /\ WorkerOK(w, s)'
    BY <1>1, <2>1, <2>2, <2>3 DEF Follows, WorkerOK, Busy, Unbuilt, Locking
  <2>5. /\ containers' \subseteq Attempts /\ containers \ containers' = {}
        /\ \A a \in containers' \ containers : lease[a] # "new"
    BY <1>2, <2>1, <2>3
  <2> QED
    BY <1>1, <2>2, <2>3, <2>4, <2>5, ContainerStep
<1>5. CASE Destroy(w)
  <2>1. /\ worker[w].pc = "work" /\ worker[w].att \in Attempts /\ lease[worker[w].att] # "new"
    BY <1>2, <1>5 DEF Destroy, At, WorkerOK, Busy
  <2>2. PICK s \in WorkerState :
          /\ s = [worker[w] EXCEPT !.pc = "report"]
          /\ s.pc = "report" /\ s.att = worker[w].att /\ s.img = worker[w].img
    BY <1>2, Moved
  <2>3. containers' = containers \ {worker[w].att} /\ worker' = [worker EXCEPT ![w] = s]
    BY <1>5, <2>2 DEF Destroy, Goes
  <2>4. Follows(w, s) /\ WorkerOK(w, s)'
    BY <1>1, <2>1, <2>2, <2>3 DEF Follows, WorkerOK, Busy, Unbuilt, Locking
  <2>5. /\ containers' \subseteq Attempts /\ containers' \ containers = {}
        /\ \A a \in containers \ containers' : worker[w].pc \in Busy /\ worker[w].att = a
    BY <1>2, <2>1, <2>3 DEF Busy
  <2> QED
    BY <1>1, <2>2, <2>3, <2>4, <2>5, ContainerStep
<1> QED
  BY <1>3, <1>4, <1>5

-----------------------------------------------------------------------------
(* Leases, the lock and images *)

(* A step that gives the attempt up and releases the lock if it was held. *)
LEMMA GivesInv ==
    ASSUME HostInv, NEW w \in Workers, worker[w].pc \in Busy, Gives(w),
           lock' = lock \/ (lock = {w} /\ lock' = {}),
           UNCHANGED <<files, containers, tag, builds, orphan, faults>>
    PROVE  HostInv'
<1>1. /\ lease' = (IF Active(worker[w].att) THEN [lease EXCEPT ![worker[w].att] = "ended"] ELSE lease)
      /\ worker' = [worker EXCEPT ![w] = Resting("ready")]
      /\ UNCHANGED <<pinned, row, uploaded, spool, saves>>
  BY DEF Gives, Ended, Goes, files
<1>2. lease \in [Attempts -> {"new", "live", "lapsed", "revived", "ended"}]
  BY DEF HostInv, SharedTypes
<1>3. LeasesMove /\ lease' \in [Attempts -> {"new", "live", "lapsed", "revived", "ended"}]
  BY <1>1, <1>2 DEF LeasesMove
<1>4. Gentle(w)
  BY <1>1, <1>3 DEF Gentle, HostInv, SharedOK
<1>5. SharedTypes'
  BY <1>1, <1>3 DEF HostInv, SharedTypes
<1> QED
  BY <1>1, <1>4, <1>5, RestingFine, WorkerStep

(* Every way to give an attempt up. *)
LEMMA GivenUpInv ==
    ASSUME HostInv, NEW w \in Workers,
           \/ LockGivenUp(w) \/ BuildFails(w) \/ Report(w)
           \/ At(w, "look") /\ Gives(w) /\ UNCHANGED <<files, containers, images, faults>>
           \/ At(w, "pin") /\ Gives(w) /\ UNCHANGED <<files, containers, images, faults>>
    PROVE  HostInv'
<1>1. worker[w].pc \in Busy /\ Gives(w) /\ UNCHANGED <<files, containers, tag, builds, orphan, faults>>
  BY DEF LockGivenUp, BuildFails, Report, At, Busy, images
<1>2. lock' = lock \/ (lock = {w} /\ lock' = {})
  BY DEF LockGivenUp, BuildFails, Report, At, images, HostInv, WorkerOK, Locking
<1> QED
  BY <1>1, <1>2, GivesInv

(* A step of a busy worker that changes the lock and its own record only. *)
LEMMA LockStep ==
    ASSUME HostInv, NEW w \in Workers, NEW s \in WorkerState,
           worker' = [worker EXCEPT ![w] = s], WorkerOK(w, s)',
           worker[w].pc \in Busy, s.att = worker[w].att,
           s.pc \in Unbuilt => worker[w].pc \in Unbuilt,
           lock' = lock \/ (lock = {} /\ lock' = {w}) \/ (lock = {w} /\ lock' = {}),
           UNCHANGED <<server, files, containers, tag, builds, orphan, faults>>
    PROVE  HostInv'
<1>1. UNCHANGED <<lease, pinned, row, uploaded, spool, saves>>
  BY DEF server, files
<1>2. Gentle(w)
  BY <1>1 DEF Gentle, LeasesMove, HostInv, SharedOK
<1>3. SharedTypes'
  BY <1>1 DEF HostInv, SharedTypes
<1>4. Follows(w, s)
  BY DEF Follows
<1> QED
  BY <1>2, <1>3, <1>4, WorkerStep

(* The search for an image: the worker uses one that exists, and holds the *)
(* lock while it looks again or builds.                                    *)
LEMMA EnvironmentInv ==
    ASSUME HostInv, NEW w \in Workers, Look(w) \/ Lock(w) \/ Recheck(w) \/ Built(w)
    PROVE  HostInv'
<1>1. /\ worker[w] \in WorkerState /\ WorkerOK(w, worker[w]) /\ TypeOK
      /\ worker[w].pc \in {"look", "lock", "recheck", "built"} /\ worker[w].pc \in Busy
      /\ 0 \in 0 .. MaxBuilds
  BY GoesOn DEF Look, Lock, Recheck, Built, At, Busy
<1>2. /\ worker[w].att \in Attempts /\ lease[worker[w].att] # "new"
      /\ RunOf(worker[w].att) \in Runs
  BY <1>1 DEF WorkerOK, Runs
<1>3. tag \in 0 .. MaxBuilds /\ pinned[RunOf(worker[w].att)] \in 0 .. MaxBuilds
  BY <1>1, <1>2 DEF TypeOK
<1>4. ASSUME NEW img \in 0 .. MaxBuilds, img # 0, Uses(w, img),
             lock' = lock \/ (lock = {w} /\ lock' = {}),
             UNCHANGED <<server, files, containers, tag, builds, orphan, faults>>
      PROVE  HostInv'
  <2>1. PICK s \in WorkerState : /\ s = [worker[w] EXCEPT !.pc = "pin", !.img = img]
                                 /\ s.pc = "pin" /\ s.att = worker[w].att /\ s.img = img
    <3> DEFINE s == [worker[w] EXCEPT !.pc = "pin", !.img = img]
    <3>1. s \in WorkerState /\ s.pc = "pin" /\ s.att = worker[w].att /\ s.img = img
      BY <1>1 DEF WorkerState
    <3> QED
      BY <3>1, Zenon
  <2>2. worker' = [worker EXCEPT ![w] = s]
    BY <1>4, <2>1 DEF Uses, Goes
  <2>3. WorkerOK(w, s)'
    BY <1>2, <1>4, <2>1 DEF WorkerOK, Busy, Locking, server
  <2> QED
    BY <1>1, <1>4, <2>1, <2>2, <2>3, LockStep DEF Unbuilt
<1>5. ASSUME NEW pc \in {"lock", "recheck", "build"},
             Goes(w, [worker[w] EXCEPT !.pc = pc]), worker[w].pc \in Unbuilt,
             lock' = lock \/ (lock = {} /\ lock' = {w}),
             pc \in Locking => lock' = {w},
             pc = "build" => tag = 0,
             UNCHANGED <<server, files, containers, tag, builds, orphan, faults>>
      PROVE  HostInv'
  <2>1. PICK s \in WorkerState : /\ s = [worker[w] EXCEPT !.pc = pc]
                                 /\ s.pc = pc /\ s.att = worker[w].att /\ s.img = worker[w].img
    <3> DEFINE s == [worker[w] EXCEPT !.pc = pc]
    <3>1. s \in WorkerState /\ s.pc = pc /\ s.att = worker[w].att /\ s.img = worker[w].img
      BY <1>1 DEF WorkerState
    <3> QED
      BY <3>1, Zenon
  <2>2. worker' = [worker EXCEPT ![w] = s]
    BY <1>5, <2>1 DEF Goes
  <2>3. WorkerOK(w, s)'
    BY <1>2, <1>5, <2>1 DEF WorkerOK, Busy, server
  <2> QED
    BY <1>1, <1>5, <2>1, <2>2, <2>3, LockStep
<1>6. CASE Look(w)
  <2> DEFINE pin == pinned[RunOf(worker[w].att)]
  <2>1. CASE ~ Active(worker[w].att)
    BY <1>6, <2>1, GivenUpInv DEF Look
  <2>2. CASE Active(worker[w].att)
    <3>1. UNCHANGED <<server, files, containers, lock, tag, builds, orphan, faults>>
      BY <1>6, <2>2 DEF Look, images
    <3>2. \/ pin # 0 /\ Uses(w, pin)
          \/ tag # 0 /\ Uses(w, tag)
          \/ Goes(w, [worker[w] EXCEPT !.pc = "lock"])
      BY <1>6, <2>2 DEF Look
    <3>3. worker[w].pc \in Unbuilt
      BY <1>6 DEF Look, At, Unbuilt
    <3> QED
      BY <1>3, <1>4, <1>5, <3>1, <3>2, <3>3 DEF Locking
  <2> QED
    BY <2>1, <2>2
<1>7. CASE Lock(w)
  <2>1. /\ lock = {} /\ lock' = {w} /\ Goes(w, [worker[w] EXCEPT !.pc = "recheck"])
        /\ UNCHANGED <<server, files, containers, tag, builds, orphan, faults>>
        /\ worker[w].pc \in Unbuilt
    BY <1>7 DEF Lock, LockFree, At, Unbuilt
  <2> QED
    BY <1>5, <2>1
<1>8. CASE Recheck(w)
  <2>1. /\ worker[w].pc \in Unbuilt /\ lock = {w}
        /\ UNCHANGED <<server, files, containers, tag, builds, orphan, faults>>
    BY <1>1, <1>8 DEF Recheck, At, Unbuilt, WorkerOK, Locking
  <2>2. \/ tag # 0 /\ Uses(w, tag) /\ lock' = {}
        \/ tag = 0 /\ Goes(w, [worker[w] EXCEPT !.pc = "build"]) /\ lock' = lock
    BY <1>8 DEF Recheck, Cached
  <2> QED
    BY <1>3, <1>4, <1>5, <2>1, <2>2
<1>9. CASE Built(w)
  <2>1. /\ lock = {w} /\ lock' = {} /\ tag # 0 /\ Uses(w, tag)
        /\ UNCHANGED <<server, files, containers, tag, builds, orphan, faults>>
    BY <1>1, <1>9 DEF Built, At, WorkerOK, Locking
  <2> QED
    BY <1>3, <1>4, <2>1
<1> QED
  BY <1>6, <1>7, <1>8, <1>9

(* A build that ends moves the tag; nobody else builds meanwhile. *)
LEMMA BuildEndsInv ==
    ASSUME HostInv, NEW w \in Workers, BuildEnds(w)
    PROVE  HostInv'
<1>1. /\ worker[w] \in WorkerState /\ WorkerOK(w, worker[w]) /\ worker[w].pc = "build"
      /\ worker \in [Workers -> WorkerState] /\ 0 \in 0 .. MaxBuilds
  BY GoesOn DEF BuildEnds, At
<1>2. PICK s \in WorkerState : /\ s = [worker[w] EXCEPT !.pc = "built"]
                               /\ s.pc = "built" /\ s.att = worker[w].att /\ s.img = worker[w].img
  BY <1>1, Moved
<1>3. /\ worker' = [worker EXCEPT ![w] = s] /\ worker'[w] = [worker[w] EXCEPT !.pc = "built"]
      /\ builds' = builds + 1 /\ tag' = builds'
      /\ UNCHANGED <<lease, pinned, row, uploaded, spool, saves, containers, lock, orphan, faults>>
  BY <1>1, <1>2 DEF BuildEnds, Goes, server, files
<1>4. Gentle(w)
  BY <1>1, <1>3 DEF Gentle, LeasesMove, HostInv, SharedOK
<1>5. SharedTypes'
  BY <1>3 DEF HostInv, SharedTypes
<1>6. Follows(w, s)
  BY <1>1, <1>2 DEF Follows, Busy, Unbuilt
<1>7. WorkerOK(w, s)'
  <2>1. tag' # 0
    BY <1>3 DEF HostInv, SharedTypes
  <2> QED
    BY <1>1, <1>2, <1>3, <2>1 DEF WorkerOK, Busy, Locking
<1> QED
  BY <1>3, <1>4, <1>5, <1>6, <1>7, WorkerStep

(* The image is recorded for the fingerprint by the first pin only. *)
LEMMA PinInv ==
    ASSUME HostInv, NEW w \in Workers, Pin(w)
    PROVE  HostInv'
<1> DEFINE r == RunOf(worker[w].att)
           img == worker[w].img
<1>1. /\ worker[w] \in WorkerState /\ WorkerOK(w, worker[w]) /\ worker[w].pc = "pin"
      /\ 0 \in 0 .. MaxBuilds
  BY GoesOn DEF Pin, At
<1>2. /\ worker[w].att \in Attempts /\ lease[worker[w].att] # "new" /\ r \in Runs
      /\ img \in 0 .. MaxBuilds /\ img # 0
  BY <1>1 DEF WorkerOK, Busy, Runs, WorkerState
<1>3. CASE ~(Active(worker[w].att) /\ MayPin(r, img))
  BY <1>3, GivenUpInv DEF Pin
<1>4. CASE Active(worker[w].att) /\ MayPin(r, img)
  <2>1. PICK s \in WorkerState : /\ s = [worker[w] EXCEPT !.pc = "start"]
                                 /\ s.pc = "start" /\ s.att = worker[w].att /\ s.img = worker[w].img
    BY <1>1, Moved
  <2>2. /\ row' = (IF row = 0 THEN img ELSE row) /\ pinned' = [pinned EXCEPT ![r] = img]
        /\ worker' = [worker EXCEPT ![w] = s]
        /\ UNCHANGED <<lease, uploaded, spool, saves, containers, lock, tag, builds, orphan, faults>>
    BY <1>4, <2>1 DEF Pin, Goes, files, images
  <2>3. row' = img /\ (row # 0 => row' = row)
    BY <1>4, <2>2 DEF MayPin
  <2>4. pinned \in [Runs -> 0 .. MaxBuilds] /\ \A q \in Runs : pinned[q] \in {0, row}
    BY DEF HostInv, SharedTypes, SharedOK
  <2>5. pinned' \in [Runs -> 0 .. MaxBuilds] /\ \A q \in Runs : pinned'[q] \in {0, row'}
    BY <1>2, <2>2, <2>3, <2>4
  <2>6. Gentle(w)
    BY <2>2, <2>3, <2>5 DEF Gentle, LeasesMove
  <2>7. SharedTypes'
    BY <1>2, <2>2, <2>3, <2>5 DEF HostInv, SharedTypes
  <2>8. Follows(w, s) /\ WorkerOK(w, s)'
    BY <1>1, <1>2, <2>1, <2>2, <2>3 DEF Follows, WorkerOK, Busy, Unbuilt, Locking
  <2> QED
    BY <2>2, <2>6, <2>7, <2>8, WorkerStep
<1> QED
  BY <1>3, <1>4

(* An attempt that nobody had is claimed. *)
LEMMA ClaimInv ==
    ASSUME HostInv, NEW w \in Workers, Claim(w)
    PROVE  HostInv'
<1>1. PICK a \in Attempts : /\ lease[a] = "new" /\ lease' = [lease EXCEPT ![a] = "live"]
                            /\ worker' = [worker EXCEPT ![w] = [Resting("look") EXCEPT !.att = a]]
  BY DEF Claim, Goes
<1>2. PICK s \in WorkerState : /\ s = [Resting("look") EXCEPT !.att = a]
                               /\ s.pc = "look" /\ s.att = a
  <2> DEFINE s == [Resting("look") EXCEPT !.att = a]
  <2>1. a \in 0 .. MaxAttempts
    BY HostAssumption DEF Attempts
  <2>2. s \in WorkerState /\ s.pc = "look" /\ s.att = a
    BY <2>1, HostAssumption DEF Resting, WorkerState, MaxBuilds
  <2> QED
    BY <2>2, Zenon
<1>3. UNCHANGED <<pinned, row, uploaded, spool, saves, containers, lock, tag, builds, orphan, faults>>
  BY DEF Claim, files, images
<1>4. lease \in [Attempts -> {"new", "live", "lapsed", "revived", "ended"}]
  BY DEF HostInv, SharedTypes
<1>5. LeasesMove /\ lease' \in [Attempts -> {"new", "live", "lapsed", "revived", "ended"}]
  BY <1>1, <1>4 DEF LeasesMove
<1>6. Gentle(w)
  BY <1>3, <1>5 DEF Gentle, HostInv, SharedOK
<1>7. SharedTypes'
  BY <1>3, <1>5 DEF HostInv, SharedTypes
<1>8. Follows(w, s) /\ WorkerOK(w, s)'
  BY <1>1, <1>2, <1>4 DEF Follows, WorkerOK, Busy, Unbuilt, Locking
<1> QED
  BY <1>1, <1>2, <1>6, <1>7, <1>8, WorkerStep

(* A crash releases the lock; the build may go on alone. *)
LEMMA CrashInv ==
    ASSUME HostInv, NEW w \in Workers, Crash(w)
    PROVE  HostInv'
<1>1. /\ worker' = [worker EXCEPT ![w] = Resting("down")] /\ lock' = lock \ {w}
      /\ orphan' = orphan \/ (orphan = "none" /\ orphan' = "running")
      /\ UNCHANGED <<lease, pinned, row, uploaded, spool, saves, containers, tag, builds>>
  BY DEF Crash, Goes, server, files
<1>2. lock' = lock \/ (lock = {w} /\ lock' = {})
  BY <1>1 DEF HostInv, SharedOK
<1>3. faults' \in 0 .. MaxFaults
  BY FaultType DEF Crash
<1>4. Gentle(w)
  BY <1>1, <1>2 DEF Gentle, LeasesMove, HostInv, SharedOK
<1>5. SharedTypes'
  BY <1>1, <1>3 DEF HostInv, SharedTypes
<1> QED
  BY <1>1, <1>4, <1>5, RestingFine, WorkerStep

-----------------------------------------------------------------------------
(* Steps of no worker *)

(* When the records of the workers and the count stay, nothing is lost. *)
LEMMA OutsideStep ==
    ASSUME HostInv, UNCHANGED <<worker, pinned, row, containers, lock>>, SharedTypes', LeasesMove,
           tag' = builds', tag # 0 => tag' # 0,
           orphan' = "none" => orphan = "none" /\ tag' = tag,
           BuildsCounted'
    PROVE  HostInv'
<1>1. \A v \in Workers : StaysFor(v)
  BY DEF StaysFor
<1>2. \A v \in Workers : WorkerOK(v, worker[v])'
  BY <1>1, Others
<1>3. OwnAttempts' /\ SharedOK'
  BY DEF HostInv, OwnAttempts, SharedOK, SharedTypes, LeasesMove
<1> QED
  BY <1>2, <1>3 DEF HostInv

(* The spent attempts stay spent when leases move and no worker does. *)
LEMMA SpentStays ==
    ASSUME HostInv, UNCHANGED worker, LeasesMove, UNCHANGED orphan, UNCHANGED builds
    PROVE  BuildsCounted'
<1>1. Spent \subseteq Spent'
  BY DEF Spent, LeasesMove
<1>2. Cardinality(Spent) \in Nat
  BY SpentFinite, HostAssumption
<1>3. IsFiniteSet(Spent') /\ Cardinality(Spent') \in Nat
  <2>1. (IsFiniteSet(Spent) /\ Cardinality(Spent) \in 0 .. MaxAttempts)'
    BY SpentFinite, PTL
  <2> QED
    BY <2>1, HostAssumption
<1>4. Cardinality(Spent) <= Cardinality(Spent')
  BY <1>1, <1>3, FS_Subset
<1> QED
  BY <1>2, <1>3, <1>4 DEF HostInv, SharedTypes, BuildsCounted

(* Leases lapse, are revived and end; a lapsed one is never live again. *)
LEMMA LeaseStepInv ==
    ASSUME HostInv, NEW a \in Attempts, LeaseStep(a)
    PROVE  HostInv'
<1>1. UNCHANGED <<pinned, row, uploaded, spool, saves, containers, lock, tag, builds, orphan, worker>>
  BY DEF LeaseStep, files, images
<1>2. lease \in [Attempts -> {"new", "live", "lapsed", "revived", "ended"}]
  BY DEF HostInv, SharedTypes
<1>3. LeasesMove /\ lease' \in [Attempts -> {"new", "live", "lapsed", "revived", "ended"}]
  BY <1>2 DEF LeasesMove, LeaseStep
<1>4. faults' \in 0 .. MaxFaults
  BY FaultType DEF LeaseStep
<1>5. SharedTypes'
  BY <1>1, <1>3, <1>4 DEF HostInv, SharedTypes
<1>6. BuildsCounted'
  BY <1>1, <1>3, SpentStays
<1>7. tag' = builds'
  BY <1>1 DEF HostInv, SharedOK
<1> QED
  BY <1>1, <1>3, <1>5, <1>6, <1>7, OutsideStep

(* The build that was left alone ends; it is the only one not paid for. *)
LEMMA OrphanEndsInv ==
    ASSUME HostInv, OrphanEnds
    PROVE  HostInv'
<1>1. /\ orphan = "running" /\ orphan' = "over" /\ builds' = builds + 1 /\ tag' = builds'
      /\ UNCHANGED <<lease, pinned, row, uploaded, spool, saves, containers, lock, worker, faults>>
  BY DEF OrphanEnds, server, files
<1>2. SharedTypes' /\ LeasesMove /\ tag' # 0
  BY <1>1 DEF HostInv, SharedTypes, LeasesMove
<1>3. BuildsCounted'
  <2>1. Spent' = Spent
    BY <1>1 DEF Spent
  <2>2. Cardinality(Spent) \in Nat
    BY SpentFinite, HostAssumption
  <2> QED
    BY <1>1, <2>1, <2>2 DEF HostInv, SharedTypes, BuildsCounted
<1> QED
  BY <1>1, <1>2, <1>3, OutsideStep

-----------------------------------------------------------------------------
(* Every step *)

(* Every step keeps the invariant. *)
LEMMA NextInv == HostInv /\ [Next]_vars => HostInv'
<1> SUFFICES ASSUME HostInv, [Next]_vars PROVE HostInv'
  OBVIOUS
<1>1. CASE UNCHANGED vars
  <2>1. /\ UNCHANGED <<worker, lease, pinned, row, uploaded, spool, saves, containers>>
        /\ UNCHANGED <<lock, tag, builds, orphan, faults>>
    BY <1>1 DEF vars, server, files, images
  <2>2. LeasesMove /\ SharedTypes' /\ tag' = builds'
    BY <2>1 DEF LeasesMove, HostInv, SharedTypes, SharedOK
  <2> QED
    BY <2>1, <2>2, SpentStays, OutsideStep
<1>2. ASSUME NEW w \in Workers, Work(w) PROVE HostInv'
  BY <1>2, SweepInv, SandboxInv, FlushInv, EvidenceInv, EnvironmentInv, GivenUpInv,
     BuildEndsInv, PinInv DEF Work
<1>3. ASSUME NEW w \in Workers, Start(w) \/ Claim(w) \/ Crash(w) PROVE HostInv'
  BY <1>3, SweepInv, ClaimInv, CrashInv
<1> QED
  BY <1>1, <1>2, <1>3, OrphanEndsInv, LeaseStepInv DEF Next

-----------------------------------------------------------------------------
(* Theorems *)

(* HostInv holds of every reachable state. *)
THEOREM HostInvariance == Spec => []HostInv
BY InitInv, NextInv, PTL DEF Spec

(* The shared state keeps its types; in particular there are at most as    *)
(* many images as attempts and one more, whoever crashes when.             *)
THEOREM HostTypeCorrect == Spec => []TypeOK
BY HostInvariance, InvGivesTypes, PTL

(* A starting worker's sweep never takes the sandbox from an attempt at    *)
(* work whose lease has not lapsed.                                        *)
THEOREM SandboxesKept == Spec => []LiveSandboxKept
<1>1. HostInv => LiveSandboxKept
  BY DEF HostInv, WorkerOK, LiveSandboxKept, At
<1> QED
  BY <1>1, HostInvariance, PTL

(* Every attempt works in the image that is recorded for the fingerprint,  *)
(* and every run's pin is that image, wherever the tag moves.              *)
THEOREM OneImage == Spec => []ImagesAgree
<1>1. HostInv => ImagesAgree
  BY DEF HostInv, WorkerOK, SharedOK, ImagesAgree
<1> QED
  BY <1>1, HostInvariance, PTL

(* flock merges the builds of one environment: the tag moves to another    *)
(* image only after a build was left alone by a crashed worker.            *)
THEOREM BuildsMerge == Spec => BuildMerged
<1>1. HostInv /\ [Next]_vars => (tag # 0 /\ tag' # tag => orphan # "none")
  <2> SUFFICES ASSUME HostInv, [Next]_vars, tag' # tag, orphan = "none" PROVE tag = 0
    OBVIOUS
  <2>1. PICK w \in Workers : BuildEnds(w)
    BY DEF Next, Start, Claim, Work, Crash, LeaseStep, SweepAsk, SweepRemove, SweepEnds, Flush,
           FlushRead, FlushPost, FlushFails, FlushUnlink, Look, Lock, LockGivenUp, Recheck,
           Built, BuildFails, Pin, StartSandbox, SaveEvidence, Destroy, Report, OrphanEnds,
           images, vars
  <2> QED
    BY <2>1 DEF BuildEnds, At, HostInv, WorkerOK
<1> QED
  BY <1>1, HostInvariance, PTL DEF Spec, BuildMerged

=============================================================================
