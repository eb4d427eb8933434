------------------------- MODULE TraceEventsProofs --------------------------
(***************************************************************************)
(* Proofs about TraceEvents for every number of events, ingestors,         *)
(* transactions, batch sizes and faults.                                   *)
(*                                                                         *)
(* The lock on the Run row makes the committed numbers an interval         *)
(* (NumbersOK), which is what NothingBehind rests on.  That the numbers    *)
(* never outgrow the rows is counted: each row is an event of the runtime  *)
(* or ends a transaction (Counted).  StoredOnce needs that an ingestor     *)
(* about to acknowledge an entry has seen it stored (IngestorOK).          *)
(***************************************************************************)
EXTENDS TraceEvents, FiniteSetTheorems, WellFoundedInduction, TLAPS

IngestorState == [pc : {"idle", "find", "store", "commit", "ack"},
                  entry : 0..MaxEvents, todo : SUBSET Events]
ConnState == [open : BOOLEAN, cursor : 0..MaxRows,
              batch : SUBSET (1..MaxRows), wire : SUBSET (1..MaxRows)]
LoadState == [pc : {"asked", "answered", "done"}, list : SUBSET (1..MaxRows)]

StreamOK ==
    /\ sequence \in 0..MaxEvents /\ emitted \subseteq 1..sequence
    /\ stream \subseteq Events /\ pending \subseteq Events
    /\ NothingLost

(* What the locked Run row guarantees. *)
NumbersOK ==
    /\ locked \in SUBSET Writers
    /\ allocated \in [Writers -> 0..MaxRows + 1]
    /\ lastSequence \in 0..MaxRows
    /\ rows \in [1..MaxRows -> {NoRow, Synthetic} \union Events]
    /\ done \subseteq Transactions
    /\ \A k \in 1..MaxRows : Committed(k) <=> k <= lastSequence
    /\ \A t \in Writers : allocated[t] # 0 => locked = {t} /\ allocated[t] = lastSequence + 1
    /\ \A t \in Transactions : allocated[t] # 0 => t \notin done
    /\ \A j, k \in 1..MaxRows : rows[j] = rows[k] /\ rows[j] \in Events => j = k

(* Every row is an event or ends a transaction. *)
Stored == {e \in Events : KeyTaken(e)}
Counted == lastSequence <= Cardinality(Stored) + Cardinality(done)

(* Ingestor i with record me, and the number it has taken. *)
IngestorOK(me, number) ==
    /\ me.pc # "idle" => me.entry \in Events
    /\ me.pc = "idle" => me.entry = 0
    /\ me.pc = "commit" <=> number # 0
    /\ me.pc = "ack" => me.entry \in Malformed \/ KeyTaken(me.entry)

WebOK ==
    /\ conn \in ConnState /\ load \in LoadState
    /\ cache \subseteq 1..MaxRows /\ last \in 0..MaxRows
    /\ conn.cursor <= lastSequence /\ last <= lastSequence
    /\ \A k \in conn.batch \union conn.wire : k <= lastSequence
    /\ \A k \in conn.batch : \A j \in 1..k : j > conn.cursor => j \in conn.batch
    /\ \A k \in 1..conn.cursor : k > last => k \in conn.wire

TraceInv ==
    /\ StreamOK /\ NumbersOK /\ Counted
    /\ ingestor \in [Ingestors -> IngestorState]
    /\ \A i \in Ingestors : IngestorOK(ingestor[i], allocated[i])
    /\ WebOK /\ faults \in 0..MaxFaults

-----------------------------------------------------------------------------
(* Operators *)

(* The sizes of the model. *)
LEMMA Sizes ==
    /\ MaxEvents \in Nat /\ MaxFaults \in Nat /\ Count \in Nat \ {0} /\ Take \in Nat \ {0}
    /\ IsFiniteSet(Transactions) /\ Cardinality(Transactions) \in Nat
    /\ MaxRows = MaxEvents + Cardinality(Transactions) /\ MaxRows \in Nat
    /\ Ingestors \intersect Transactions = {} /\ Malformed \subseteq Events
<1>1. IsFiniteSet(Transactions) /\ Cardinality(Transactions) \in Nat
  BY TraceEventsAssumption, FS_CardinalityType
<1> QED
  BY <1>1, TraceEventsAssumption DEF MaxRows

(* The larger of two numbers. *)
LEMMA MaxOfTwo ==
    ASSUME NEW a \in Nat, NEW b \in Nat
    PROVE  Max({a, b}) = IF a >= b THEN a ELSE b
BY DEF Max

(* The least of a set of numbers. *)
LEMMA MinOf ==
    ASSUME NEW S, S \subseteq Nat, S # {}
    PROVE  Min(S) \in S /\ \A y \in S : Min(S) <= y
<1>1. PICK n \in S : \A m \in S : <<m, n>> \notin OpToRel(<, Nat)
  BY WFMin, NatLessThanWellFounded
<1>2. \A m \in S : ~(m < n)
  BY <1>1 DEF OpToRel
<1>3. \A m \in S : n <= m
  BY <1>2
<1> QED
  BY <1>3 DEF Min

(* The largest of a bounded set of numbers. *)
LEMMA MaxOf ==
    ASSUME NEW n \in Nat, NEW S, S \subseteq 0..n, S # {}
    PROVE  Max(S) \in S /\ \A y \in S : y <= Max(S)
<1> DEFINE T == {u \in 0..n : \A y \in S : y <= u}
<1>1. T \subseteq Nat /\ n \in T
  OBVIOUS
<1>2. PICK u \in T : \A m \in T : <<m, u>> \notin OpToRel(<, Nat)
  <2> HIDE DEF T
  <2> QED
    BY <1>1, WFMin, NatLessThanWellFounded
<1>3. \A m \in T : ~(m < u)
  <2> HIDE DEF T
  <2> QED
    BY <1>1, <1>2 DEF OpToRel
<1>4. u \in S
  <2> SUFFICES ASSUME u \notin S PROVE FALSE
    OBVIOUS
  <2>1. u # 0
    <3>1. PICK y \in S : TRUE
      OBVIOUS
    <3> QED
      BY <3>1
  <2>2. \A y \in S : y <= u - 1
    OBVIOUS
  <2>3. u - 1 \in T
    BY <2>1, <2>2
  <2> QED
    BY <1>3, <2>3
<1>5. \A y \in S : u >= y
  OBVIOUS
<1> QED
  BY <1>4, <1>5 DEF Max

(* The first n of a bounded set: no member is left out before another. *)
LEMMA FirstOfOK ==
    ASSUME NEW m \in Nat, NEW S, S \subseteq 1..m, NEW n \in Nat
    PROVE  /\ FirstOf(n, S) \subseteq S
           /\ \A k \in FirstOf(n, S) : \A j \in S : j < k => j \in FirstOf(n, S)
<1>1. FirstOf(n, S) \subseteq S
  BY DEF FirstOf
<1>2. ASSUME NEW k \in FirstOf(n, S), NEW j \in S, j < k PROVE j \in FirstOf(n, S)
  <2> DEFINE Below(x) == {y \in S : y < x}
  <2>1. Below(j) \subseteq Below(k) /\ Below(k) \subseteq 1..m
    <3>1. k \in S /\ \A y \in S : y \in 1..m
      BY <1>1, Zenon
    <3>2. \A y \in S : y \in Nat
      BY <3>1
    <3>3. \A y \in S : y < j => y < k
      BY <1>2, <3>1, <3>2
    <3> QED
      BY <3>1, <3>3
  <2>2. IsFiniteSet(1..m)
    BY FS_Interval
  <2>3. IsFiniteSet(Below(k))
    BY <2>1, <2>2, FS_Subset
  <2>4. IsFiniteSet(Below(j)) /\ Cardinality(Below(j)) <= Cardinality(Below(k))
    BY <2>1, <2>3, FS_Subset
  <2>5. Cardinality(Below(j)) \in Nat /\ Cardinality(Below(k)) \in Nat
    BY <2>3, <2>4, FS_CardinalityType
  <2>6. Cardinality(Below(k)) < n
    BY DEF FirstOf
  <2>7. Cardinality(Below(j)) < n
    BY <2>4, <2>5, <2>6
  <2> QED
    BY <2>7 DEF FirstOf
<1> QED
  BY <1>1, <1>2

(* There are no more stored events than events, nor more ended             *)
(* transactions than transactions.                                         *)
LEMMA Counts ==
    ASSUME NumbersOK
    PROVE  /\ IsFiniteSet(Stored) /\ Cardinality(Stored) \in Nat
           /\ IsFiniteSet(done) /\ Cardinality(done) \in Nat
           /\ \A e \in Events : ~KeyTaken(e) => Cardinality(Stored) < MaxEvents
           /\ \A t \in Transactions \ done : Cardinality(done) < Cardinality(Transactions)
           /\ Cardinality(Stored) <= MaxEvents
           /\ Cardinality(done) <= Cardinality(Transactions)
<1>1. IsFiniteSet(Events) /\ Cardinality(Events) = MaxEvents
  <2>1. IsFiniteSet(1..MaxEvents) /\ Cardinality(1..MaxEvents) = MaxEvents
    BY Sizes, FS_Interval
  <2> QED
    BY <2>1 DEF Events
<1>2. Stored \subseteq Events /\ done \subseteq Transactions
  BY DEF Stored, NumbersOK
<1>3. IsFiniteSet(Stored) /\ Cardinality(Stored) <= Cardinality(Events)
  BY <1>1, <1>2, FS_Subset
<1>4. IsFiniteSet(done) /\ Cardinality(done) <= Cardinality(Transactions)
  BY <1>2, Sizes, FS_Subset
<1>5. Cardinality(Stored) \in Nat /\ Cardinality(done) \in Nat
  BY <1>3, <1>4, FS_CardinalityType
<1>6. ASSUME NEW e \in Events, ~KeyTaken(e) PROVE Cardinality(Stored) < MaxEvents
  <2>1. Stored \subseteq Events \ {e}
    BY <1>2, <1>6 DEF Stored
  <2>2. IsFiniteSet(Events \ {e}) /\ Cardinality(Events \ {e}) = Cardinality(Events) - 1
    BY <1>1, FS_RemoveElement
  <2>3. Cardinality(Stored) <= Cardinality(Events \ {e})
    BY <2>1, <2>2, FS_Subset
  <2> QED
    BY <1>1, <1>5, <2>2, <2>3, Sizes
<1>7. ASSUME NEW t \in Transactions \ done PROVE Cardinality(done) < Cardinality(Transactions)
  <2>1. done \subseteq Transactions \ {t}
    BY <1>2
  <2>2. /\ IsFiniteSet(Transactions \ {t})
        /\ Cardinality(Transactions \ {t}) = Cardinality(Transactions) - 1
    BY Sizes, FS_RemoveElement
  <2>3. Cardinality(done) <= Cardinality(Transactions \ {t})
    BY <2>1, <2>2, FS_Subset
  <2> QED
    BY <1>5, <2>2, <2>3, Sizes
<1> QED
  BY <1>1, <1>3, <1>4, <1>5, <1>6, <1>7

(* What there is to count is finite. *)
LEMMA FiniteCounts ==
    NumbersOK => /\ IsFiniteSet(Stored) /\ Cardinality(Stored) \in Nat
                 /\ IsFiniteSet(done) /\ Cardinality(done) \in Nat
BY Counts

(* A fault is counted up to its bound. *)
LEMMA FaultType ==
    ASSUME TraceInv, Fault \/ NoFault
    PROVE  faults' \in 0..MaxFaults
BY TraceEventsAssumption DEF TraceInv, Fault, NoFault

-----------------------------------------------------------------------------
(* Numbers *)

(* Nobody else holds a number while the row is locked. *)
LEMMA AllocateOK ==
    ASSUME TraceInv, NEW t \in Writers, Allocate(t), t \notin done,
           UNCHANGED <<lastSequence, rows, done>>
    PROVE  /\ NumbersOK' /\ Counted' /\ allocated'[t] # 0
           /\ \A u \in Writers \ {t} : allocated'[u] = allocated[u]
<1>1. /\ allocated \in [Writers -> 0..MaxRows + 1] /\ lastSequence \in 0..MaxRows
      /\ locked = {} /\ locked' = {t} /\ MaxRows \in Nat
      /\ allocated' = [allocated EXCEPT ![t] = lastSequence + 1]
  BY Sizes DEF TraceInv, NumbersOK, Allocate
<1>2. \A u \in Writers : allocated[u] = 0
  BY <1>1 DEF TraceInv, NumbersOK
<1>3. allocated' \in [Writers -> 0..MaxRows + 1] /\ allocated'[t] = lastSequence + 1
      /\ \A u \in Writers \ {t} : allocated'[u] = allocated[u]
  BY <1>1
<1>4. NumbersOK'
  BY <1>1, <1>2, <1>3 DEF TraceInv, NumbersOK, Committed, Writers
<1>5. Counted'
  BY DEF TraceInv, Counted, Stored, KeyTaken
<1> QED
  BY <1>1, <1>3, <1>4, <1>5

(* A transaction that rolls back leaves no trace but its end. *)
LEMMA RollbackOK ==
    ASSUME TraceInv, NEW t \in Writers, Rollback(t), done \subseteq done',
           done' \subseteq Transactions, done' \subseteq done \union {t}
    PROVE  /\ NumbersOK' /\ Counted' /\ allocated'[t] = 0 /\ UNCHANGED <<rows, lastSequence>>
           /\ \A u \in Writers \ {t} : allocated'[u] = allocated[u]
<1>1. /\ allocated \in [Writers -> 0..MaxRows + 1] /\ lastSequence \in 0..MaxRows
      /\ locked' = locked \ {t} /\ MaxRows \in Nat /\ UNCHANGED <<rows, lastSequence>>
      /\ allocated' = [allocated EXCEPT ![t] = 0]
  BY Sizes DEF TraceInv, NumbersOK, Rollback, Release
<1>2. allocated' \in [Writers -> 0..MaxRows + 1] /\ allocated'[t] = 0
      /\ \A u \in Writers \ {t} : allocated'[u] = allocated[u]
  BY <1>1
<1>3. NumbersOK'
  <2>1. \A u \in Writers : allocated'[u] # 0 => locked' = {u} /\ allocated'[u] = lastSequence + 1
    BY <1>1, <1>2 DEF TraceInv, NumbersOK
  <2>2. \A u \in Transactions : allocated'[u] # 0 => u \notin done'
    BY <1>2 DEF TraceInv, NumbersOK, Writers
  <2> QED
    BY <1>1, <1>2, <2>1, <2>2 DEF TraceInv, NumbersOK, Committed
<1>4. Counted'
  <2>1. /\ Stored' = Stored /\ Cardinality(Stored) \in Nat /\ IsFiniteSet(done)
        /\ Cardinality(done) \in Nat
    BY <1>1, Counts DEF TraceInv, Stored, KeyTaken
  <2>2. IsFiniteSet(done')
    BY Sizes, FS_Subset
  <2>3. Cardinality(done) <= Cardinality(done') /\ Cardinality(done') \in Nat
    BY <2>2, FS_Subset, FS_CardinalityType
  <2> QED
    BY <1>1, <2>1, <2>3 DEF TraceInv, Counted
<1> QED
  BY <1>1, <1>2, <1>3, <1>4

(* A committed row takes the number after the last one: for an event that  *)
(* has no row yet, or for a transaction that ends with it.                 *)
LEMMA CommitOK ==
    ASSUME TraceInv, NEW t \in Writers, NEW e, allocated[t] # 0, CommitRow(t, e),
           \/ e \in Events /\ ~KeyTaken(e) /\ done' = done
           \/ e = Synthetic /\ t \in Transactions /\ done' = done \union {t}
    PROVE  /\ NumbersOK' /\ Counted' /\ allocated'[t] = 0 /\ lastSequence' = lastSequence + 1
           /\ \A u \in Writers \ {t} : allocated'[u] = allocated[u]
           /\ \A x \in Events : KeyTaken(x) => KeyTaken(x)'
           /\ e \in Events => KeyTaken(e)'
<1>1. /\ allocated \in [Writers -> 0..MaxRows + 1] /\ lastSequence \in Nat /\ MaxRows \in Nat
      /\ locked = {t} /\ allocated[t] = lastSequence + 1 /\ lastSequence <= MaxRows
      /\ rows \in [1..MaxRows -> {NoRow, Synthetic} \union Events] /\ MaxEvents \in Nat
  BY Sizes DEF TraceInv, NumbersOK
<1>2. /\ IsFiniteSet(Stored) /\ Cardinality(Stored) \in Nat
      /\ IsFiniteSet(done) /\ Cardinality(done) \in Nat
      /\ lastSequence <= Cardinality(Stored) + Cardinality(done)
      /\ Cardinality(Stored) <= MaxEvents /\ Cardinality(done) <= Cardinality(Transactions)
  BY Counts DEF TraceInv, Counted
<1>3. t \in Transactions => t \notin done
  BY DEF TraceInv, NumbersOK
<1>4. Cardinality(Stored) + Cardinality(done) < MaxRows
  <2>1. CASE e \in Events /\ ~KeyTaken(e)
    <3>1. Cardinality(Stored) < MaxEvents
      BY <2>1, Counts DEF TraceInv
    <3> QED
      BY <1>1, <1>2, <3>1, Sizes
  <2>2. CASE t \in Transactions
    <3>1. Cardinality(done) < Cardinality(Transactions)
      BY <1>3, <2>2, Counts DEF TraceInv
    <3> QED
      BY <1>1, <1>2, <3>1, Sizes
  <2> QED
    BY <2>1, <2>2
<1>5. lastSequence + 1 \in 1..MaxRows
  BY <1>1, <1>2, <1>4
<1>6. lastSequence' = lastSequence + 1
  BY <1>1, MaxOfTwo DEF CommitRow
<1>7. rows' = [rows EXCEPT ![lastSequence + 1] = e] /\ locked' = {}
      /\ allocated' = [allocated EXCEPT ![t] = 0]
  BY <1>1 DEF CommitRow, Release
<1>8. /\ allocated' \in [Writers -> 0..MaxRows + 1] /\ allocated'[t] = 0
      /\ \A u \in Writers \ {t} : allocated'[u] = allocated[u]
  BY <1>1, <1>7
<1>9. \A u \in Writers : allocated'[u] = 0
  <2> SUFFICES ASSUME NEW u \in Writers, u # t PROVE allocated[u] = 0
    BY <1>8
  <2>1. locked = {t} /\ (allocated[u] # 0 => locked = {u})
    BY DEF TraceInv, NumbersOK
  <2> QED
    BY <2>1
<1>10. e \in {Synthetic} \union Events /\ e # NoRow /\ Synthetic \notin Events
  BY <1>1 DEF Events, Synthetic, NoRow
<1>11. /\ rows' \in [1..MaxRows -> {NoRow, Synthetic} \union Events]
       /\ rows'[lastSequence + 1] = e
       /\ \A k \in 1..MaxRows : k # lastSequence + 1 => rows'[k] = rows[k]
  BY <1>1, <1>5, <1>7, <1>10
<1>12. rows[lastSequence + 1] = NoRow
  BY <1>1, <1>5 DEF TraceInv, NumbersOK, Committed
<1>13. NumbersOK'
  <2>1. \A k \in 1..MaxRows : (rows'[k] # NoRow) <=> k <= lastSequence + 1
    BY <1>1, <1>5, <1>10, <1>11 DEF TraceInv, NumbersOK, Committed
  <2>2. \A j, k \in 1..MaxRows : rows'[j] = rows'[k] /\ rows'[j] \in Events => j = k
    <3>1. ASSUME NEW k \in 1..MaxRows, k # lastSequence + 1, e \in Events PROVE rows[k] # e
      BY <1>10, <3>1 DEF KeyTaken
    <3> QED
      BY <1>11, <3>1 DEF TraceInv, NumbersOK
  <2>3. done' \subseteq Transactions /\ lastSequence + 1 \in 0..MaxRows
    BY <1>5 DEF TraceInv, NumbersOK
  <2>4. locked' \in SUBSET Writers
    BY <1>7
  <2>5. \A u \in Transactions : allocated'[u] = 0
    BY <1>9 DEF Writers
  <2> QED
    BY <1>6, <1>8, <1>9, <1>11, <2>1, <2>2, <2>3, <2>4, <2>5 DEF NumbersOK, Committed
<1>14. \A x \in Events : KeyTaken(x) => KeyTaken(x)'
  <2> SUFFICES ASSUME NEW x \in Events, NEW k \in 1..MaxRows, rows[k] = x PROVE KeyTaken(x)'
    BY DEF KeyTaken
  <2>1. x # NoRow
    BY <1>1 DEF Events, NoRow
  <2>2. rows'[k] = x
    BY <1>11, <1>12, <2>1
  <2> QED
    BY <2>2 DEF KeyTaken
<1>15. e \in Events => KeyTaken(e)'
  BY <1>5, <1>11 DEF KeyTaken
<1>16. Counted'
  <2>1. /\ IsFiniteSet(Stored') /\ IsFiniteSet(done')
        /\ Cardinality(Stored') \in Nat /\ Cardinality(done') \in Nat
    <3>1. (NumbersOK => /\ IsFiniteSet(Stored) /\ Cardinality(Stored) \in Nat
                        /\ IsFiniteSet(done) /\ Cardinality(done) \in Nat)'
      BY FiniteCounts, PTL
    <3> QED
      BY <1>13, <3>1
  <2>2. Stored \subseteq Stored'
    BY <1>14 DEF Stored
  <2>3. Cardinality(Stored) <= Cardinality(Stored')
    BY <2>1, <2>2, FS_Subset
  <2>4. CASE e \in Events /\ ~KeyTaken(e) /\ done' = done
    <3>1. Stored \union {e} \subseteq Stored' /\ e \notin Stored
      BY <1>15, <2>2, <2>4 DEF Stored
    <3>2. IsFiniteSet(Stored \union {e}) /\ Cardinality(Stored \union {e}) = Cardinality(Stored) + 1
      BY <1>2, <3>1, FS_AddElement
    <3>3. Cardinality(Stored \union {e}) <= Cardinality(Stored')
      BY <2>1, <3>1, FS_Subset
    <3> QED
      BY <1>1, <1>2, <1>6, <2>1, <2>4, <3>2, <3>3 DEF Counted
  <2>5. CASE t \in Transactions /\ done' = done \union {t}
    <3>1. Cardinality(done') = Cardinality(done) + 1
      BY <1>2, <1>3, <2>5, FS_AddElement
    <3> QED
      BY <1>1, <1>2, <1>6, <2>1, <2>3, <3>1 DEF Counted
  <2> QED
    BY <2>4, <2>5
<1> QED
  BY <1>6, <1>8, <1>13, <1>14, <1>15, <1>16

-----------------------------------------------------------------------------
(* Steps in general: what stays *)

(* Rows are never taken away from an event. *)
KeysKept == \A x \in Events : KeyTaken(x) => KeyTaken(x)'

(* The readers' part of the invariant only asks for numbers committed. *)
LEMMA WebStays ==
    ASSUME TraceInv, UNCHANGED <<conn, cache, last, load>>,
           lastSequence' = lastSequence \/ lastSequence' = lastSequence + 1
    PROVE  WebOK'
<1>1. /\ lastSequence \in Nat /\ lastSequence' \in Nat /\ MaxRows \in Nat
      /\ conn \in ConnState /\ last \in Nat /\ lastSequence <= lastSequence'
  BY Sizes DEF TraceInv, NumbersOK, WebOK
<1>2. conn.cursor \in Nat /\ \A k \in conn.batch \union conn.wire : k \in Nat
  BY <1>1 DEF ConnState
<1>3. /\ conn.cursor <= lastSequence' /\ last <= lastSequence'
      /\ \A k \in conn.batch \union conn.wire : k <= lastSequence'
  BY <1>1, <1>2 DEF TraceInv, WebOK
<1> QED
  BY <1>3 DEF TraceInv, WebOK

(* As above for the database. *)
LEMMA NumbersStay ==
    ASSUME TraceInv, UNCHANGED <<locked, allocated, lastSequence, rows, done>>
    PROVE  NumbersOK' /\ Counted' /\ KeysKept
BY DEF TraceInv, NumbersOK, Counted, Stored, KeyTaken, Committed, KeysKept

(* As above for the stream. *)
LEMMA StreamStays ==
    ASSUME TraceInv, UNCHANGED <<sequence, emitted, stream, pending>>, KeysKept
    PROVE  StreamOK'
<1>1. emitted \subseteq Events
  BY Sizes DEF TraceInv, StreamOK, Events
<1>2. ASSUME NEW e \in emitted
      PROVE  e \in stream \union pending \union Malformed \/ KeyTaken(e)'
  BY <1>1 DEF TraceInv, StreamOK, NothingLost, KeysKept, KeyTaken
<1>3. NothingLost'
  BY <1>2 DEF NothingLost, KeyTaken
<1> QED
  BY <1>3 DEF TraceInv, StreamOK

(* The ingestors that do not move. *)
LEMMA IngestorKept ==
    ASSUME TraceInv, NEW u \in Ingestors, ingestor'[u] = ingestor[u],
           allocated'[u] = allocated[u], KeysKept
    PROVE  IngestorOK(ingestor[u], allocated[u])'
<1>1. IngestorOK(ingestor[u], allocated[u])
  BY DEF TraceInv
<1> QED
  BY <1>1 DEF IngestorOK, KeysKept

(* One ingestor moves. *)
LEMMA IngestorStep ==
    ASSUME TraceInv, NEW i \in Ingestors, NEW s \in IngestorState,
           ingestor' = [ingestor EXCEPT ![i] = s], IngestorOK(s, allocated[i])',
           \A u \in Ingestors \ {i} : allocated'[u] = allocated[u], KeysKept,
           StreamOK', NumbersOK', Counted', WebOK', faults' \in 0..MaxFaults
    PROVE  TraceInv'
<1>1. ingestor \in [Ingestors -> IngestorState]
  BY DEF TraceInv
<1>2. ingestor' \in [Ingestors -> IngestorState] /\ ingestor'[i] = s
      /\ \A u \in Ingestors \ {i} : ingestor'[u] = ingestor[u]
  BY <1>1
<1>3. ASSUME NEW u \in Ingestors PROVE IngestorOK(ingestor[u], allocated[u])'
  <2>1. CASE u = i
    BY <1>2, <2>1
  <2>2. CASE u # i
    BY <1>2, <2>2, IngestorKept
  <2> QED
    BY <2>1, <2>2
<1> QED
  BY <1>2, <1>3 DEF TraceInv

(* None does. *)
LEMMA OutsideStep ==
    ASSUME TraceInv, UNCHANGED ingestor,
           \A u \in Ingestors : allocated'[u] = allocated[u], KeysKept,
           StreamOK', NumbersOK', Counted', WebOK', faults' \in 0..MaxFaults
    PROVE  TraceInv'
<1>1. \A u \in Ingestors : IngestorOK(ingestor[u], allocated[u])'
  BY IngestorKept
<1> QED
  BY <1>1 DEF TraceInv

-----------------------------------------------------------------------------
(* Emitter and transactions *)

(* The invariant holds at the start. *)
LEMMA InitInv == Init => TraceInv
<1> SUFFICES ASSUME Init PROVE TraceInv
  OBVIOUS
<1>1. StreamOK
  BY Sizes DEF Init, StreamOK, NothingLost
<1>2. /\ locked = {} /\ allocated = [t \in Writers |-> 0] /\ lastSequence = 0 /\ done = {}
      /\ rows = [k \in 1..MaxRows |-> NoRow] /\ MaxRows \in Nat
  BY Sizes DEF Init
<1>3. \A k \in 1..MaxRows : rows[k] = NoRow /\ ~(k <= lastSequence) /\ NoRow \notin Events
  BY <1>2, Sizes DEF Events, NoRow
<1>4. NumbersOK
  BY <1>2, <1>3 DEF NumbersOK, Committed
<1>5. Counted
  <2>1. Cardinality(Stored) \in Nat /\ Cardinality(done) \in Nat
    BY <1>4, Counts
  <2> QED
    BY <1>2, <2>1 DEF Counted
<1>6. IdleIngestor \in IngestorState /\ IdleIngestor.pc = "idle" /\ IdleIngestor.entry = 0
  BY Sizes DEF IdleIngestor, IngestorState
<1>7. ingestor \in [Ingestors -> IngestorState] /\ \A i \in Ingestors : ingestor[i] = IdleIngestor
  BY <1>6 DEF Init
<1>8. \A i \in Ingestors : IngestorOK(ingestor[i], allocated[i])
  <2>1. \A i \in Ingestors : allocated[i] = 0
    BY <1>2 DEF Writers
  <2> QED
    BY <1>6, <1>7, <2>1 DEF IngestorOK
<1>9. WebOK
  <2>1. conn \in ConnState /\ conn.cursor = 0 /\ conn.batch = {} /\ conn.wire = {}
    BY <1>2 DEF Init, NewConnection, ConnState
  <2>2. load \in LoadState /\ cache = {} /\ last = 0
    BY DEF Init, LoadState
  <2> QED
    BY <1>2, <2>1, <2>2 DEF WebOK
<1>10. faults \in 0..MaxFaults
  BY Sizes DEF Init
<1> QED
  BY <1>1, <1>4, <1>5, <1>7, <1>8, <1>9, <1>10 DEF TraceInv

(* emit puts the event into the stream or loses it before it is accepted. *)
LEMMA emitInv == ASSUME TraceInv, emit PROVE TraceInv'
<1>1. UNCHANGED <<pending, ingestor, locked, allocated, lastSequence, rows, done, conn, cache, last, load>>
      /\ (Fault \/ NoFault)
  BY DEF emit, dbVars, webVars
<1>2. /\ sequence \in Nat /\ sequence < MaxEvents /\ sequence' = sequence + 1 /\ MaxEvents \in Nat
      /\ emitted \subseteq 1..sequence /\ stream \subseteq Events
  BY Sizes DEF TraceInv, StreamOK, emit
<1>3. \/ stream' = stream \union {sequence + 1} /\ emitted' = emitted \union {sequence + 1}
      \/ UNCHANGED <<stream, emitted>>
  BY DEF emit
<1>4. emitted' \subseteq 1..sequence' /\ stream' \subseteq Events /\ sequence' \in 0..MaxEvents
  <2>1. sequence + 1 \in 1..sequence' /\ sequence + 1 \in Events /\ sequence' \in 0..MaxEvents
    BY <1>2 DEF Events
  <2>2. 1..sequence \subseteq 1..sequence'
    BY <1>2
  <2> QED
    BY <1>2, <1>3, <2>1, <2>2
<1>5. NothingLost'
  BY <1>1, <1>3 DEF TraceInv, StreamOK, NothingLost
<1>6. StreamOK'
  BY <1>1, <1>4, <1>5 DEF TraceInv, StreamOK
<1>7. NumbersOK' /\ Counted' /\ KeysKept
  BY <1>1, NumbersStay
<1>8. WebOK' /\ faults' \in 0..MaxFaults
  BY <1>1, WebStays, FaultType
<1> QED
  BY <1>1, <1>6, <1>7, <1>8, OutsideStep

(* A transaction of the control plane takes and commits its number. *)
LEMMA TransactionInv ==
    ASSUME TraceInv, NEW t \in Transactions, AppendSyntheticEvent(t) \/ EndTransaction(t)
    PROVE  TraceInv'
<1>1. /\ UNCHANGED <<sequence, emitted, stream, pending, ingestor, conn, cache, last, load>>
      /\ faults' \in 0..MaxFaults
  BY FaultType DEF AppendSyntheticEvent, EndTransaction, emitVars, webVars
<1>2. t \in Writers /\ \A u \in Ingestors : u \in Writers \ {t}
  BY Sizes DEF Writers
<1>3. CASE AppendSyntheticEvent(t)
  <2>1. Allocate(t) /\ t \notin done /\ UNCHANGED <<lastSequence, rows, done>>
    BY <1>3 DEF AppendSyntheticEvent
  <2>2. NumbersOK' /\ Counted' /\ \A u \in Ingestors : allocated'[u] = allocated[u]
    BY <1>2, <2>1, AllocateOK
  <2>3. KeysKept
    BY <2>1 DEF KeysKept, KeyTaken
  <2>4. StreamOK' /\ WebOK'
    BY <1>1, <2>1, <2>3, StreamStays, WebStays
  <2> QED
    BY <1>1, <2>2, <2>3, <2>4, OutsideStep
<1>4. CASE EndTransaction(t)
  <2>1. allocated[t] # 0 /\ (CommitRow(t, Synthetic) \/ Rollback(t)) /\ done' = done \union {t}
        /\ done \subseteq Transactions
    BY <1>4 DEF EndTransaction, TraceInv, NumbersOK
  <2>2. /\ NumbersOK' /\ Counted' /\ \A u \in Ingestors : allocated'[u] = allocated[u]
        /\ KeysKept /\ (lastSequence' = lastSequence \/ lastSequence' = lastSequence + 1)
    <3>1. CASE CommitRow(t, Synthetic)
      BY <1>2, <2>1, <3>1, CommitOK DEF KeysKept
    <3>2. CASE Rollback(t)
      <4>1. /\ NumbersOK' /\ Counted' /\ UNCHANGED <<rows, lastSequence>>
            /\ \A u \in Ingestors : allocated'[u] = allocated[u]
        BY <1>2, <2>1, <3>2, RollbackOK
      <4> QED
        BY <4>1 DEF KeysKept, KeyTaken
    <3> QED
      BY <2>1, <3>1, <3>2
  <2>3. StreamOK' /\ WebOK'
    BY <1>1, <2>2, StreamStays, WebStays
  <2> QED
    BY <1>1, <2>2, <2>3, OutsideStep
<1> QED
  BY <1>3, <1>4

-----------------------------------------------------------------------------
(* The ingestors *)

(* The record of an ingestor after a change of pc, or when it returns. *)
LEMMA GotoState ==
    ASSUME TraceInv, NEW i \in Ingestors, NEW pc \in {"find", "store", "commit", "ack"}, Goto(i, pc)
    PROVE  \E s \in IngestorState :
              ingestor' = [ingestor EXCEPT ![i] = s] /\ s.pc = pc /\ s.entry = Entry(i)
<1> DEFINE s == [ingestor[i] EXCEPT !.pc = pc]
<1>1. ingestor[i] \in IngestorState
  BY DEF TraceInv
<1>2. s \in IngestorState /\ s.pc = pc /\ s.entry = Entry(i)
  BY <1>1 DEF IngestorState, Entry
<1>3. ingestor' = [ingestor EXCEPT ![i] = s]
  BY <1>1 DEF Goto
<1> HIDE DEF s
<1> QED
  BY <1>2, <1>3, Zenon

(* As above. *)
LEMMA ReturnState ==
    ASSUME TraceInv, NEW i \in Ingestors,
           Return(i) \/ ingestor' = [ingestor EXCEPT ![i] = IdleIngestor]
    PROVE  \E s \in IngestorState :
              ingestor' = [ingestor EXCEPT ![i] = s] /\ s.pc = "idle" /\ s.entry = 0
<1>1. ingestor[i] \in IngestorState /\ MaxEvents \in Nat /\ 0 \in 0..MaxEvents
  BY Sizes DEF TraceInv
<1>2. CASE Return(i)
  <2> DEFINE s == [ingestor[i] EXCEPT !.pc = "idle", !.entry = 0]
  <2>1. s \in IngestorState
    BY <1>1 DEF IngestorState
  <2>2. s.pc = "idle" /\ s.entry = 0
    BY <1>1 DEF IngestorState
  <2>3. ingestor' = [ingestor EXCEPT ![i] = s]
    BY <1>1, <1>2 DEF Return
  <2> HIDE DEF s
  <2> QED
    BY <2>1, <2>2, <2>3, Zenon
<1>3. CASE ingestor' = [ingestor EXCEPT ![i] = IdleIngestor]
  <2>1. IdleIngestor \in IngestorState /\ IdleIngestor.pc = "idle" /\ IdleIngestor.entry = 0
    BY <1>1 DEF IdleIngestor, IngestorState
  <2> QED
    BY <1>3, <2>1
<1> QED
  BY <1>2, <1>3

(* A batch read or reclaimed: what is delivered is pending. *)
LEMMA BatchInv ==
    ASSUME TraceInv, NEW i \in Ingestors, ReadGroup(i) \/ Autoclaim(i)
    PROVE  TraceInv'
<1>1. /\ UNCHANGED <<sequence, emitted, locked, allocated, lastSequence, rows, done, conn, cache, last, load>>
      /\ faults' \in 0..MaxFaults /\ ingestor[i] = IdleIngestor
  BY FaultType DEF ReadGroup, Autoclaim, emitVars, dbVars, webVars
<1>2. /\ Events = 1..MaxEvents /\ MaxEvents \in Nat /\ Count \in Nat
      /\ stream \subseteq Events /\ pending \subseteq Events
  BY Sizes DEF Events, TraceInv, StreamOK
<1>3. PICK T \in SUBSET Events :
         /\ ingestor' = [ingestor EXCEPT ![i].todo = T]
         /\ \/ pending' = pending \union T /\ stream' = stream \ T
            \/ UNCHANGED <<pending, stream>>
  <2>1. CASE ReadGroup(i)
    <3>1. FirstOf(Count, stream) \subseteq stream
      BY <1>2, FirstOfOK
    <3> QED
      BY <1>2, <2>1, <3>1 DEF ReadGroup
  <2>2. CASE Autoclaim(i)
    <3>1. PICK S \in SUBSET pending : ingestor' = [ingestor EXCEPT ![i].todo = FirstOf(Count, S)]
      BY <2>2 DEF Autoclaim
    <3>2. FirstOf(Count, S) \subseteq S
      BY <1>2, FirstOfOK
    <3> QED
      BY <1>2, <2>2, <3>1, <3>2 DEF Autoclaim, emitVars
  <2> QED
    BY <2>1, <2>2
<1>4. StreamOK'
  <2>1. NothingLost'
    BY <1>1, <1>3 DEF TraceInv, StreamOK, NothingLost
  <2> QED
    BY <1>1, <1>3, <2>1 DEF TraceInv, StreamOK
<1>5. PICK s \in IngestorState :
         ingestor' = [ingestor EXCEPT ![i] = s] /\ s.pc = ingestor[i].pc /\ s.entry = ingestor[i].entry
  <2> DEFINE s == [ingestor[i] EXCEPT !.todo = T]
  <2>1. ingestor[i] \in IngestorState
    BY DEF TraceInv
  <2>2. s \in IngestorState /\ s.pc = ingestor[i].pc /\ s.entry = ingestor[i].entry
    BY <2>1 DEF IngestorState
  <2>3. ingestor' = [ingestor EXCEPT ![i] = s]
    BY <1>3, <2>1
  <2> HIDE DEF s
  <2> QED
    BY <2>2, <2>3, Zenon
<1>6. NumbersOK' /\ Counted' /\ KeysKept /\ WebOK'
  BY <1>1, NumbersStay, WebStays
<1>7. IngestorOK(s, allocated[i])'
  <2>1. IngestorOK(ingestor[i], allocated[i]) /\ ingestor[i].pc = "idle"
    BY <1>1 DEF TraceInv, IdleIngestor
  <2> QED
    BY <1>1, <1>5, <2>1 DEF IngestorOK
<1>8. ingestor' = [ingestor EXCEPT ![i] = s] /\ \A u \in Ingestors \ {i} : allocated'[u] = allocated[u]
  BY <1>1, <1>5
<1> QED
  BY <1>1, <1>4, <1>6, <1>7, <1>8, IngestorStep

(* handleEntry up to the transaction: refused, found or to be stored. *)
LEMMA ParseInv ==
    ASSUME TraceInv, NEW i \in Ingestors, Parse(i) \/ FindExisting(i)
    PROVE  TraceInv'
<1>1. /\ UNCHANGED <<sequence, emitted, stream, pending, locked, allocated, lastSequence, rows, done,
                     conn, cache, last, load>>
      /\ faults' \in 0..MaxFaults
  BY FaultType DEF Parse, FindExisting, emitVars, dbVars, webVars
<1>2. NumbersOK' /\ Counted' /\ KeysKept /\ WebOK'
  BY <1>1, NumbersStay, WebStays
<1>3. StreamOK'
  BY <1>1, <1>2, StreamStays
<1>4. ingestor[i] \in IngestorState /\ IngestorOK(ingestor[i], allocated[i])
  BY DEF TraceInv
<1>5. PICK s \in IngestorState : ingestor' = [ingestor EXCEPT ![i] = s] /\ IngestorOK(s, allocated[i])'
  <2>1. CASE Parse(i)
    <3> DEFINE e == Min(ingestor[i].todo)
               s == [pc |-> IF e \in Malformed THEN "ack" ELSE "find", entry |-> e,
                     todo |-> ingestor[i].todo \ {e}]
    <3>1. ingestor[i].todo \subseteq Events /\ ingestor[i].todo # {} /\ ingestor[i].pc = "idle"
      BY <1>4, <2>1 DEF Parse, IngestorState
    <3>2. Events \subseteq Nat /\ Events \subseteq 0..MaxEvents
      BY Sizes DEF Events
    <3>3. e \in Events
      BY <3>1, <3>2, MinOf
    <3>4. s \in IngestorState
      <4> HIDE DEF e
      <4> QED
        BY <1>4, <3>1, <3>2, <3>3 DEF IngestorState
    <3>5. ingestor' = [ingestor EXCEPT ![i] = s]
      BY <2>1, Zenon DEF Parse
    <3>6. PICK r \in IngestorState : r = s
      BY <3>4
    <3>7. /\ r.entry \in Events /\ r.pc = IF r.entry \in Malformed THEN "ack" ELSE "find"
      BY <3>3, <3>6
    <3>8. IngestorOK(r, allocated[i])'
      BY <1>1, <1>4, <3>1, <3>7 DEF IngestorOK
    <3> QED
      BY <3>5, <3>6, <3>8
  <2>2. CASE FindExisting(i)
    <3>1. ingestor[i].pc = "find" /\ Goto(i, IF KeyTaken(Entry(i)) THEN "ack" ELSE "store")
      BY <2>2 DEF FindExisting
    <3>2. PICK s \in IngestorState :
             /\ ingestor' = [ingestor EXCEPT ![i] = s] /\ s.entry = Entry(i)
             /\ s.pc = IF KeyTaken(Entry(i)) THEN "ack" ELSE "store"
      BY <3>1, GotoState
    <3>3. Entry(i) \in Events /\ allocated[i] = 0
      BY <1>4, <3>1 DEF IngestorOK, Entry
    <3>4. KeyTaken(Entry(i)) => KeyTaken(s.entry)'
      BY <1>2, <3>2, <3>3 DEF KeysKept
    <3>5. IngestorOK(s, allocated[i])'
      BY <1>1, <3>2, <3>3, <3>4 DEF IngestorOK
    <3> QED
      BY <3>2, <3>5
  <2> QED
    BY <2>1, <2>2
<1>6. \A u \in Ingestors \ {i} : allocated'[u] = allocated[u]
  BY <1>1
<1> QED
  BY <1>1, <1>2, <1>3, <1>5, <1>6, IngestorStep

(* The transaction that stores an event. *)
LEMMA StoreInv ==
    ASSUME TraceInv, NEW i \in Ingestors, StoreBegin(i) \/ StoreCommit(i)
    PROVE  TraceInv'
<1>1. /\ UNCHANGED <<sequence, emitted, stream, pending, done, conn, cache, last, load>>
      /\ faults' \in 0..MaxFaults
  BY FaultType DEF StoreBegin, StoreCommit, emitVars, webVars
<1>2. i \in Writers /\ i \notin Transactions /\ \A u \in Ingestors \ {i} : u \in Writers \ {i}
  BY Sizes DEF Writers
<1>3. /\ ingestor[i] \in IngestorState /\ IngestorOK(ingestor[i], allocated[i])
      /\ done \subseteq Transactions
  BY DEF TraceInv, NumbersOK
<1>4. CASE StoreBegin(i)
  <2>1. /\ Allocate(i) /\ Goto(i, "commit") /\ ingestor[i].pc = "store"
        /\ UNCHANGED <<lastSequence, rows, done>> /\ i \notin done
    BY <1>1, <1>2, <1>3, <1>4 DEF StoreBegin
  <2>2. PICK s \in IngestorState :
           ingestor' = [ingestor EXCEPT ![i] = s] /\ s.pc = "commit" /\ s.entry = Entry(i)
    BY <2>1, GotoState
  <2>3. /\ NumbersOK' /\ Counted' /\ allocated'[i] # 0
        /\ \A u \in Ingestors \ {i} : allocated'[u] = allocated[u]
    BY <1>2, <2>1, AllocateOK
  <2>4. KeysKept
    BY <2>1 DEF KeysKept, KeyTaken
  <2>5. IngestorOK(s, allocated[i])'
    BY <1>3, <2>1, <2>2, <2>3 DEF IngestorOK, Entry
  <2>6. StreamOK' /\ WebOK'
    BY <1>1, <2>1, <2>4, StreamStays, WebStays
  <2> QED
    BY <1>1, <2>2, <2>3, <2>4, <2>5, <2>6, IngestorStep
<1>5. CASE StoreCommit(i)
  <2>1. Goto(i, "ack") /\ ingestor[i].pc = "commit"
    BY <1>5 DEF StoreCommit
  <2>2. Entry(i) \in Events /\ allocated[i] # 0
    BY <1>3, <2>1 DEF IngestorOK, Entry
  <2>3. PICK s \in IngestorState :
           ingestor' = [ingestor EXCEPT ![i] = s] /\ s.pc = "ack" /\ s.entry = Entry(i)
    BY <2>1, GotoState
  <2>4. \/ KeyTaken(Entry(i)) /\ Rollback(i)
        \/ ~KeyTaken(Entry(i)) /\ CommitRow(i, Entry(i))
    <3>1. CASE KeyTaken(Entry(i))
      BY <1>5, <3>1 DEF StoreCommit
    <3>2. CASE ~KeyTaken(Entry(i))
      <4>1. /\ allocated[i] = lastSequence + 1 /\ lastSequence \in Nat /\ MaxRows \in Nat
        BY <1>2, <2>2, Sizes DEF TraceInv, NumbersOK
      <4>2. lastSequence + 1 \in 1..MaxRows
        <5>1. /\ Cardinality(Stored) < MaxEvents /\ Cardinality(Stored) \in Nat
              /\ Cardinality(done) <= Cardinality(Transactions) /\ Cardinality(done) \in Nat
              /\ lastSequence <= Cardinality(Stored) + Cardinality(done)
          BY <2>2, <3>2, Counts DEF TraceInv, Counted
        <5> QED
          BY <4>1, <5>1, Sizes
      <4>3. ~Committed(allocated[i])
        BY <4>1, <4>2 DEF TraceInv, NumbersOK
      <4> QED
        BY <1>5, <3>2, <4>3 DEF StoreCommit
    <3> QED
      BY <3>1, <3>2
  <2>5. /\ NumbersOK' /\ Counted' /\ allocated'[i] = 0 /\ KeysKept /\ KeyTaken(Entry(i))'
        /\ \A u \in Ingestors \ {i} : allocated'[u] = allocated[u]
        /\ (lastSequence' = lastSequence \/ lastSequence' = lastSequence + 1)
    <3>1. CASE KeyTaken(Entry(i)) /\ Rollback(i)
      <4>1. /\ NumbersOK' /\ Counted' /\ allocated'[i] = 0 /\ UNCHANGED <<rows, lastSequence>>
            /\ \A u \in Ingestors \ {i} : allocated'[u] = allocated[u]
        BY <1>1, <1>2, <1>3, <3>1, RollbackOK
      <4>2. KeysKept /\ \E k \in 1..MaxRows : rows'[k] = Entry(i)
        BY <3>1, <4>1 DEF KeysKept, KeyTaken
      <4>3. Entry(i)' = Entry(i)
        BY <2>3, <1>3 DEF Entry, TraceInv
      <4> QED
        BY <4>1, <4>2, <4>3 DEF KeyTaken
    <3>2. CASE ~KeyTaken(Entry(i)) /\ CommitRow(i, Entry(i))
      <4>1. PICK e \in Events : e = Entry(i)
        BY <2>2
      <4>2. /\ NumbersOK' /\ Counted' /\ allocated'[i] = 0 /\ lastSequence' = lastSequence + 1
            /\ \A u \in Writers \ {i} : allocated'[u] = allocated[u]
            /\ \A x \in Events : KeyTaken(x) => KeyTaken(x)'
            /\ KeyTaken(e)'
        BY <1>1, <1>2, <2>2, <3>2, <4>1, CommitOK
      <4>3. Entry(i)' = e
        BY <2>3, <4>1 DEF Entry, TraceInv
      <4> QED
        BY <1>2, <4>2, <4>3 DEF KeysKept, KeyTaken
    <3> QED
      BY <2>4, <3>1, <3>2
  <2>6. IngestorOK(s, allocated[i])'
    <3>1. Entry(i)' = s.entry
      BY <2>3 DEF Entry, TraceInv
    <3> QED
      BY <2>2, <2>3, <2>5, <3>1 DEF IngestorOK, KeyTaken
  <2>7. StreamOK' /\ WebOK'
    BY <1>1, <2>5, StreamStays, WebStays
  <2> QED
    BY <1>1, <2>3, <2>5, <2>6, <2>7, IngestorStep
<1> QED
  BY <1>4, <1>5

(* An entry given up: its number is given back, it stays pending. *)
LEMMA GiveUpInv ==
    ASSUME TraceInv, NEW i \in Ingestors, StoreFails(i) \/ Crash(i)
    PROVE  TraceInv'
<1>1. /\ UNCHANGED <<sequence, emitted, stream, pending, done, conn, cache, last, load>>
      /\ faults' \in 0..MaxFaults /\ Rollback(i)
  BY FaultType DEF StoreFails, Crash, emitVars, webVars
<1>2. i \in Writers /\ \A u \in Ingestors \ {i} : u \in Writers \ {i}
  BY DEF Writers
<1>3. /\ NumbersOK' /\ Counted' /\ allocated'[i] = 0 /\ UNCHANGED <<rows, lastSequence>>
      /\ \A u \in Ingestors \ {i} : allocated'[u] = allocated[u]
  <2>1. done \subseteq Transactions
    BY DEF TraceInv, NumbersOK
  <2> QED
    BY <1>1, <1>2, <2>1, RollbackOK
<1>4. KeysKept
  BY <1>3 DEF KeysKept, KeyTaken
<1>5. PICK s \in IngestorState :
         ingestor' = [ingestor EXCEPT ![i] = s] /\ s.pc = "idle" /\ s.entry = 0
  BY ReturnState DEF StoreFails, Crash
<1>6. IngestorOK(s, allocated[i])'
  BY <1>3, <1>5 DEF IngestorOK
<1>7. StreamOK' /\ WebOK'
  BY <1>1, <1>3, <1>4, StreamStays, WebStays
<1> QED
  BY <1>1, <1>3, <1>4, <1>5, <1>6, <1>7, IngestorStep

(* Only what is stored or malformed is acknowledged. *)
LEMMA ackInv ==
    ASSUME TraceInv, NEW i \in Ingestors, ack(i)
    PROVE  TraceInv'
<1>1. /\ UNCHANGED <<sequence, emitted, stream, locked, allocated, lastSequence, rows, done,
                     conn, cache, last, load>>
      /\ faults' \in 0..MaxFaults /\ pending' = pending \ {Entry(i)} /\ ingestor[i].pc = "ack"
  BY FaultType DEF ack, emitVars, dbVars, webVars
<1>2. IngestorOK(ingestor[i], allocated[i])
  BY DEF TraceInv
<1>3. Entry(i) \in Malformed \/ KeyTaken(Entry(i))
  BY <1>1, <1>2 DEF IngestorOK, Entry
<1>4. StreamOK'
  <2>1. NothingLost'
    BY <1>1, <1>3 DEF TraceInv, StreamOK, NothingLost, KeyTaken
  <2> QED
    BY <1>1, <2>1 DEF TraceInv, StreamOK
<1>5. PICK s \in IngestorState :
         ingestor' = [ingestor EXCEPT ![i] = s] /\ s.pc = "idle" /\ s.entry = 0
  BY ReturnState DEF ack
<1>6. IngestorOK(s, allocated[i])'
  BY <1>1, <1>2, <1>5 DEF IngestorOK
<1>7. NumbersOK' /\ Counted' /\ KeysKept /\ WebOK'
  BY <1>1, NumbersStay, WebStays
<1>8. ingestor' = [ingestor EXCEPT ![i] = s] /\ \A u \in Ingestors \ {i} : allocated'[u] = allocated[u]
  BY <1>1, <1>5
<1> QED
  BY <1>1, <1>4, <1>6, <1>7, <1>8, IngestorStep

-----------------------------------------------------------------------------
(* The SSE connection and the browser *)

(* A step of the readers. *)
LEMMA ReaderStep ==
    ASSUME TraceInv, WebOK', faults' \in 0..MaxFaults,
           UNCHANGED <<sequence, emitted, stream, pending, ingestor,
                       locked, allocated, lastSequence, rows, done>>
    PROVE  TraceInv'
<1>1. NumbersOK' /\ Counted' /\ KeysKept
  BY NumbersStay
<1>2. StreamOK'
  BY <1>1, StreamStays
<1> QED
  BY <1>1, <1>2, OutsideStep

(* A new connection, open or broken, starts at or before what the browser  *)
(* has.                                                                    *)
LEMMA NewConnectionOK ==
    ASSUME TraceInv, UNCHANGED <<cache, load, lastSequence>>,
           conn' \in ConnState, conn'.batch = {}, conn'.wire = {}, conn'.cursor <= last',
           last' = last \/ last' = 0
    PROVE  WebOK'
<1>1. /\ last \in Nat /\ last' \in Nat /\ last' <= last /\ lastSequence \in Nat
      /\ last <= lastSequence /\ MaxRows \in Nat /\ last' \in 0..MaxRows
  BY Sizes DEF TraceInv, WebOK, NumbersOK
<1>2. conn'.cursor \in Nat /\ conn'.cursor <= lastSequence
  BY <1>1 DEF ConnState
<1>3. \A k \in 1..conn'.cursor : ~(k > last')
  BY <1>1, <1>2
<1> QED
  BY <1>1, <1>2, <1>3 DEF TraceInv, WebOK

(* The record of a new connection. *)
LEMMA ConnRecord ==
    ASSUME NEW o \in BOOLEAN, NEW c \in 0..MaxRows
    PROVE  LET new == [open |-> o, cursor |-> c, batch |-> {}, wire |-> {}] IN
           new \in ConnState /\ new.cursor = c /\ new.batch = {} /\ new.wire = {}
BY DEF ConnState

(* drain, Receive, the connection and the first load. *)
LEMMA ReaderInv ==
    ASSUME TraceInv,
           LoadRead \/ LoadArrives \/ drain \/ Receive \/ Disconnect \/ Reconnect \/ Remount
    PROVE  TraceInv'
<1>1. /\ UNCHANGED <<sequence, emitted, stream, pending, ingestor,
                     locked, allocated, lastSequence, rows, done>>
      /\ faults' \in 0..MaxFaults
  BY FaultType DEF LoadRead, LoadArrives, drain, DrainRead, DrainWrite, Receive, Disconnect,
        Reconnect, Remount, emitVars, dbVars
<1>2. /\ conn \in ConnState /\ load \in LoadState /\ MaxRows \in Nat /\ last \in Nat
      /\ lastSequence \in Nat /\ lastSequence <= MaxRows /\ WebOK
  BY Sizes DEF TraceInv, WebOK, NumbersOK
<1>3. /\ conn.cursor \in Nat /\ conn.batch \subseteq 1..MaxRows /\ conn.wire \subseteq 1..MaxRows
      /\ conn.cursor \in 0..MaxRows
  BY <1>2 DEF ConnState
<1>4. \A k \in 1..MaxRows : Committed(k) <=> k <= lastSequence
  BY DEF TraceInv, NumbersOK
<1>5. WebOK'
  <2>1. CASE LoadRead
    <3>1. After(0) \subseteq 1..MaxRows /\ load' = [pc |-> "answered", list |-> After(0)]
      BY <2>1 DEF LoadRead, After
    <3>2. load' \in LoadState
      BY <3>1 DEF LoadState
    <3> QED
      BY <1>1, <1>2, <2>1, <3>2 DEF LoadRead, WebOK
  <2>2. CASE LoadArrives
    <3>1. cache' \subseteq 1..MaxRows /\ load' \in LoadState
      BY <1>2, <2>2 DEF LoadArrives, LoadState
    <3> QED
      BY <1>1, <1>2, <2>2, <3>1 DEF LoadArrives, WebOK
  <2>3. CASE DrainRead
    <3> DEFINE S == After(conn.cursor)
               B == FirstOf(Take, S)
    <3>1. S = {k \in 1..MaxRows : k > conn.cursor /\ k <= lastSequence}
      BY <1>4 DEF After
    <3>2. S \subseteq 1..MaxRows /\ Take \in Nat
      BY <3>1, Sizes
    <3>3. B \subseteq S /\ \A k \in B : \A j \in S : j < k => j \in B
      <4> HIDE DEF S
      <4> QED
        BY <1>2, <3>2, FirstOfOK
    <3>4. conn' = [conn EXCEPT !.batch = B] /\ UNCHANGED <<cache, last, load>>
      BY <2>3 DEF DrainRead
    <3> HIDE DEF B
    <3>5. \A k \in B : \A j \in 1..k : j > conn.cursor => j \in B
      <4> SUFFICES ASSUME NEW k \in B, NEW j \in 1..k, j > conn.cursor PROVE j \in B
        OBVIOUS
      <4>1. k \in 1..MaxRows /\ k <= lastSequence
        BY <3>1, <3>3
      <4>2. j \in S
        BY <1>2, <3>1, <4>1
      <4> QED
        BY <3>3, <4>1, <4>2
    <3>6. /\ conn' \in ConnState /\ conn'.batch = B /\ conn'.wire = conn.wire
          /\ conn'.cursor = conn.cursor
      BY <1>2, <3>2, <3>3, <3>4 DEF ConnState
    <3>7. \A k \in B : k <= lastSequence
      BY <3>1, <3>3
    <3> QED
      BY <1>1, <1>2, <3>4, <3>5, <3>6, <3>7 DEF WebOK
  <2>4. CASE DrainWrite
    <3> DEFINE m == Max(conn.batch)
    <3>1. conn.batch # {} /\ UNCHANGED <<cache, last, load>>
          /\ conn' = [conn EXCEPT !.wire = conn.wire \union conn.batch, !.batch = {}, !.cursor = m]
      BY <1>2, <2>4 DEF DrainWrite, ConnState
    <3>2. conn.batch \subseteq 0..MaxRows
      BY <1>2, <1>3
    <3>3. m \in conn.batch
      BY <1>2, <3>1, <3>2, MaxOf
    <3> HIDE DEF m
    <3>4. m \in 1..MaxRows /\ m <= lastSequence
      BY <1>2, <1>3, <3>3 DEF WebOK
    <3>5. /\ conn' \in ConnState /\ conn'.batch = {} /\ conn'.wire = conn.wire \union conn.batch
          /\ conn'.cursor = m
      <4> DEFINE w == conn.wire \union conn.batch
      <4>1. m \in 0..MaxRows /\ w \in SUBSET (1..MaxRows) /\ {} \in SUBSET (1..MaxRows)
        BY <1>2, <1>3, <3>4
      <4>2. conn' = [conn EXCEPT !.wire = w, !.batch = {}, !.cursor = m]
        BY <3>1
      <4> HIDE DEF w
      <4>3. conn' \in ConnState /\ conn'.batch = {} /\ conn'.wire = w /\ conn'.cursor = m
        BY <1>2, <4>1, <4>2 DEF ConnState
      <4> QED
        BY <4>3 DEF w
    <3>6. ASSUME NEW k \in 1..m, k > last PROVE k \in conn.wire \union conn.batch
      <4>1. CASE k <= conn.cursor
        BY <1>2, <1>3, <3>6, <4>1 DEF WebOK
      <4>2. CASE k > conn.cursor
        BY <1>2, <3>3, <4>2 DEF WebOK
      <4> QED
        BY <1>3, <3>4, <4>1, <4>2
    <3> QED
      BY <1>1, <1>2, <3>1, <3>4, <3>5, <3>6 DEF WebOK
  <2>5. CASE Receive
    <3> DEFINE m == Min(conn.wire)
    <3>1. /\ conn.wire # {} /\ cache' = cache \union {m} /\ last' = Max({last, m})
          /\ conn' = [conn EXCEPT !.wire = conn.wire \ {m}] /\ load' = load
      BY <1>2, <2>5 DEF Receive, mergeEvents, ConnState
    <3>2. conn.wire \subseteq Nat
      BY <1>2, <1>3
    <3>3. m \in conn.wire
      BY <3>1, <3>2, MinOf
    <3> HIDE DEF m
    <3>4. m \in 1..MaxRows /\ m <= lastSequence /\ m \in Nat
      BY <1>2, <1>3, <3>3 DEF WebOK
    <3>5. last' = IF last >= m THEN last ELSE m
      BY <1>2, <3>1, <3>4, MaxOfTwo
    <3>6. /\ conn' \in ConnState /\ conn'.batch = conn.batch /\ conn'.wire = conn.wire \ {m}
          /\ conn'.cursor = conn.cursor
      BY <1>2, <1>3, <3>1 DEF ConnState
    <3>7. last' \in 0..MaxRows /\ last' <= lastSequence /\ last' >= m /\ last' >= last
      BY <1>2, <3>4, <3>5 DEF WebOK
    <3>8. ASSUME NEW k \in 1..conn.cursor, k > last' PROVE k \in conn.wire \ {m}
      BY <1>2, <1>3, <3>4, <3>7, <3>8 DEF WebOK
    <3>9. cache' \subseteq 1..MaxRows
      BY <1>2, <3>1, <3>4 DEF WebOK
    <3> QED
      BY <1>1, <1>2, <3>1, <3>6, <3>7, <3>8, <3>9 DEF WebOK
  <2>6. CASE Disconnect
    <3>1. conn' = [[open |-> TRUE, cursor |-> 0, batch |-> {}, wire |-> {}] EXCEPT !.open = FALSE]
          /\ UNCHANGED <<cache, last, load>>
      BY <2>6 DEF Disconnect, NewConnection
    <3>2. PICK c \in ConnState : c = [open |-> TRUE, cursor |-> 0, batch |-> {}, wire |-> {}]
             /\ c.cursor = 0 /\ c.batch = {} /\ c.wire = {}
      <4>1. 0 \in 0..MaxRows /\ TRUE \in BOOLEAN
        BY <1>2
      <4> QED
        BY <4>1, ConnRecord, Zenon
    <3>3. conn' \in ConnState /\ conn'.cursor = 0 /\ conn'.batch = {} /\ conn'.wire = {}
      BY <3>1, <3>2 DEF ConnState
    <3> QED
      BY <1>1, <1>2, <3>1, <3>3, NewConnectionOK
  <2>7. CASE Reconnect
    <3>1. conn' = [open |-> TRUE, cursor |-> last, batch |-> {}, wire |-> {}]
          /\ UNCHANGED <<cache, last, load>> /\ last \in 0..MaxRows
      BY <1>2, <2>7 DEF Reconnect, NewConnection, ReconnectFrom, WebOK
    <3>2. conn' \in ConnState /\ conn'.cursor = last /\ conn'.batch = {} /\ conn'.wire = {}
      BY <3>1, ConnRecord
    <3> QED
      BY <1>1, <1>2, <3>1, <3>2, NewConnectionOK
  <2>8. CASE Remount
    <3>1. conn' = [open |-> TRUE, cursor |-> 0, batch |-> {}, wire |-> {}]
          /\ UNCHANGED <<cache, load>> /\ last' = 0
      BY <2>8 DEF Remount, NewConnection
    <3>2. conn' \in ConnState /\ conn'.cursor = 0 /\ conn'.batch = {} /\ conn'.wire = {}
      <4>1. 0 \in 0..MaxRows /\ TRUE \in BOOLEAN
        BY <1>2
      <4> QED
        BY <3>1, <4>1, ConnRecord, Zenon
    <3> QED
      BY <1>1, <3>1, <3>2, NewConnectionOK
  <2> QED
    BY <2>1, <2>2, <2>3, <2>4, <2>5, <2>6, <2>7, <2>8 DEF drain
<1> QED
  BY <1>1, <1>5, ReaderStep

(* Every step keeps the invariant. *)
LEMMA NextInv == TraceInv /\ [Next]_vars => TraceInv'
<1> SUFFICES ASSUME TraceInv, [Next]_vars PROVE TraceInv'
  OBVIOUS
<1>1. CASE emit
  BY <1>1, emitInv
<1>2. ASSUME NEW t \in Transactions, AppendSyntheticEvent(t) \/ EndTransaction(t) PROVE TraceInv'
  BY <1>2, TransactionInv
<1>3. ASSUME NEW i \in Ingestors, consumeLoop(i) \/ StoreFails(i) \/ Crash(i) PROVE TraceInv'
  BY <1>3, BatchInv, ParseInv, StoreInv, GiveUpInv, ackInv DEF consumeLoop, handleEntry
<1>4. CASE LoadRead \/ LoadArrives \/ drain \/ Receive \/ Disconnect \/ Reconnect \/ Remount
  BY <1>4, ReaderInv
<1>5. CASE UNCHANGED vars
  <2>1. UNCHANGED <<sequence, emitted, stream, pending, ingestor, locked, allocated, lastSequence,
                    rows, done, conn, cache, last, load, faults>>
    BY <1>5 DEF vars, emitVars, dbVars, webVars
  <2>2. WebOK' /\ faults' \in 0..MaxFaults
    BY <2>1, WebStays DEF TraceInv
  <2> QED
    BY <2>1, <2>2, ReaderStep
<1> QED
  BY <1>1, <1>2, <1>3, <1>4, <1>5 DEF Next

-----------------------------------------------------------------------------
(* Theorems *)

(* The inductive invariant holds in every reachable state. *)
THEOREM TraceInvariance == Spec => []TraceInv
BY InitInv, NextInv, PTL DEF Spec

(* Every part keeps its type: in particular no transaction ever takes a    *)
(* number beyond the rows there can be.                                    *)
THEOREM TraceTypeCorrect == Spec => []TypeOK
<1>1. TraceInv => TypeOK
  <2> SUFFICES ASSUME TraceInv PROVE TypeOK
    OBVIOUS
  <2>1. /\ conn.open \in BOOLEAN /\ conn.cursor \in 0..MaxRows
        /\ conn.batch \subseteq 1..MaxRows /\ conn.wire \subseteq 1..MaxRows
    BY DEF TraceInv, WebOK, ConnState
  <2>2. /\ cache \subseteq 1..MaxRows /\ last \in 0..MaxRows
        /\ load.pc \in {"asked", "answered", "done"} /\ load.list \subseteq 1..MaxRows
    BY DEF TraceInv, WebOK, LoadState
  <2>3. /\ ingestor \in [Ingestors -> [pc : {"idle", "find", "store", "commit", "ack"},
                                       entry : 0..MaxEvents, todo : SUBSET Events]]
    BY DEF TraceInv, IngestorState
  <2> QED
    BY <2>1, <2>2, <2>3 DEF TraceInv, StreamOK, NumbersOK, TypeOK
<1> QED
  BY <1>1, TraceInvariance, PTL

(* An accepted event is never lost and has at most one row, for any number *)
(* of ingestors that hold the same entry and whatever fails.               *)
THEOREM EventsStoredOnce == Spec => []StoredOnce
<1>1. TraceInv => StoredOnce
  BY DEF TraceInv, StreamOK, NumbersOK, StoredOnce
<1> QED
  BY <1>1, TraceInvariance, PTL

(* No row appears behind a reader, and nothing between the server's cursor *)
(* and the browser's is missing from the wire.                             *)
THEOREM NoRowBehind == Spec => []NothingBehind
<1>1. TraceInv => NothingBehind
  <2> SUFFICES ASSUME TraceInv PROVE NothingBehind
    OBVIOUS
  <2>1. /\ MaxRows \in Nat /\ conn \in ConnState /\ last \in Nat /\ lastSequence \in Nat
        /\ conn.cursor <= lastSequence /\ last <= lastSequence /\ lastSequence <= MaxRows
    BY Sizes DEF TraceInv, WebOK, NumbersOK
  <2>2. conn.cursor \in Nat
    BY <2>1 DEF ConnState
  <2>3. Max({conn.cursor, last}) \in Nat /\ Max({conn.cursor, last}) <= lastSequence
    BY <2>1, <2>2, MaxOfTwo
  <2>4. \A k \in 1..Max({conn.cursor, last}) : k \in 1..MaxRows /\ k <= lastSequence
    BY <2>1, <2>3
  <2>5. \A k \in 1..Max({conn.cursor, last}) : Committed(k)
    BY <2>4 DEF TraceInv, NumbersOK
  <2>6. \A k \in 1..conn.cursor : k > last => k \in conn.wire
    BY DEF TraceInv, WebOK
  <2> QED
    BY <2>5, <2>6 DEF NothingBehind
<1> QED
  BY <1>1, TraceInvariance, PTL

=============================================================================
