---------------------------- MODULE TraceEvents -----------------------------
(***************************************************************************)
(* The timeline of one run, from the runtime's EventEmitter through the    *)
(* Redis stream trace-events (external), the TraceEventIngestor and the    *)
(* rows of the control plane's own transactions to the SSE connection, the *)
(* JSON list a page loads first and the query cache of the browser.        *)
(*                                                                         *)
(* Every writer takes its runSequence by updating Run.lastSequence in the  *)
(* transaction that inserts the row: the Run row stays locked until the    *)
(* transaction ends.  The numbers are therefore taken and committed in two *)
(* steps here, with the lock between them.                                 *)
(*                                                                         *)
(* Stream, batches, wire and cache are always in the order of their        *)
(* numbers, so each is the set of its numbers and the first is the least.  *)
(***************************************************************************)
EXTENDS Naturals, FiniteSets, FiniteSetsExt

CONSTANTS
    MaxEvents,      \* bound on the events the attempt emits
    Malformed,      \* emitted events that TraceEventSchema refuses
    Ingestors,      \* control-plane processes that consume trace-events
    Count,          \* 50 in the code: entries of one XREADGROUP or XAUTOCLAIM
    Transactions,   \* bound: transactions that append a synthetic event
    Take,           \* 500 in the code: rows read by one drain
    MaxFaults       \* bound on crashes, errors, broken connections, page changes

Events == 1..MaxEvents
MaxRows == MaxEvents + Cardinality(Transactions)
Writers == Ingestors \union Transactions

Synthetic == MaxEvents + 1   \* what a row holds that is no event of the runtime
NoRow == 0

ASSUME TraceEventsAssumption ==
    /\ MaxEvents \in Nat /\ MaxFaults \in Nat
    /\ Count \in Nat \ {0} /\ Take \in Nat \ {0}
    /\ Malformed \subseteq Events
    /\ IsFiniteSet(Transactions) /\ Ingestors \intersect Transactions = {}

VARIABLES
    sequence,       \* EventEmitter._sequence
    emitted,        \* history: the events XADD accepted
    stream,         \* undelivered entries
    pending,        \* entries delivered and not acknowledged
    ingestor,       \* handleEntry of each process, and the entries it holds
    locked,         \* the writer that holds the Run row, if any
    allocated,      \* the runSequence each writer has taken (0: none)
    lastSequence,   \* Run.lastSequence, committed
    rows,           \* TraceEvent rows by runSequence: an event, Synthetic or NoRow
    done,           \* transactions that have ended
    conn,           \* the SSE connection: its cursor, the rows drain has read,
                    \* what is on the wire
    cache,          \* the query cache ["run-events", runId]: its runSequences
    last,           \* useRunEvents' lastSequence
    load,           \* the page's first GET /api/runs/:id/events
    faults

emitVars == <<sequence, emitted, stream>>
dbVars == <<locked, allocated, lastSequence, rows, done>>
webVars == <<conn, cache, last, load>>
vars == <<emitVars, pending, ingestor, dbVars, webVars, faults>>

IdleIngestor == [pc |-> "idle", entry |-> 0, todo |-> {}]
NewConnection(from) == [open |-> TRUE, cursor |-> from, batch |-> {}, wire |-> {}]

(* TypeOK: every part keeps its type. *)
TypeOK ==
    /\ sequence \in 0..MaxEvents /\ emitted \subseteq 1..sequence
    /\ stream \subseteq Events /\ pending \subseteq Events
    /\ ingestor \in [Ingestors -> [pc : {"idle", "find", "store", "commit", "ack"},
                                   entry : 0..MaxEvents, todo : SUBSET Events]]
    /\ locked \in SUBSET Writers
    /\ allocated \in [Writers -> 0..MaxRows + 1]
    /\ lastSequence \in 0..MaxRows
    /\ rows \in [1..MaxRows -> {NoRow, Synthetic} \union Events]
    /\ done \subseteq Transactions
    /\ conn.open \in BOOLEAN /\ conn.cursor \in 0..MaxRows
    /\ conn.batch \subseteq 1..MaxRows /\ conn.wire \subseteq 1..MaxRows
    /\ cache \subseteq 1..MaxRows /\ last \in 0..MaxRows
    /\ load.pc \in {"asked", "answered", "done"} /\ load.list \subseteq 1..MaxRows
    /\ faults \in 0..MaxFaults

Init ==
    /\ sequence = 0 /\ emitted = {} /\ stream = {} /\ pending = {}
    /\ ingestor = [i \in Ingestors |-> IdleIngestor]
    /\ locked = {} /\ allocated = [t \in Writers |-> 0] /\ lastSequence = 0
    /\ rows = [k \in 1..MaxRows |-> NoRow] /\ done = {}
    /\ conn = NewConnection(0) /\ cache = {} /\ last = 0
    /\ load = [pc |-> "asked", list |-> {}]
    /\ faults = 0

Fault == faults < MaxFaults /\ faults' = faults + 1
NoFault == UNCHANGED faults

-----------------------------------------------------------------------------
(* The runtime. *)

emit ==
    /\ sequence < MaxEvents
    /\ sequence' = sequence + 1
    /\ \/ /\ stream' = stream \union {sequence + 1}
          /\ emitted' = emitted \union {sequence + 1}
          /\ NoFault
       \/ Fault /\ UNCHANGED <<stream, emitted>>     \* XADD fails: the number is used up
    /\ UNCHANGED <<pending, ingestor, dbVars, webVars>>

-----------------------------------------------------------------------------
(* Numbering. *)

(* UPDATE Run SET lastSequence = lastSequence + 1 RETURNING it *)
AllocateUnlocked(t) ==
    /\ allocated' = [allocated EXCEPT ![t] =
          1 + Max({lastSequence} \union {allocated[u] : u \in Writers})]
    /\ UNCHANGED locked
Allocate(t) ==
    /\ locked = {} /\ locked' = {t}
    /\ allocated' = [allocated EXCEPT ![t] = lastSequence + 1]

Release(t) ==
    /\ locked' = locked \ {t}
    /\ allocated' = [allocated EXCEPT ![t] = 0]

CommitRow(t, e) ==
    /\ rows' = [rows EXCEPT ![allocated[t]] = e]
    /\ lastSequence' = Max({lastSequence, allocated[t]})
    /\ Release(t)

RollbackKeepsNumber(t) == Release(t) /\ lastSequence' = Max({lastSequence, allocated[t]}) /\ UNCHANGED rows
Rollback(t) == Release(t) /\ UNCHANGED <<rows, lastSequence>>

(* A transaction of the control plane with a synthetic event. *)
AppendSyntheticEvent(t) ==
    /\ t \notin done /\ allocated[t] = 0
    /\ Allocate(t)
    /\ NoFault /\ UNCHANGED <<emitVars, pending, ingestor, lastSequence, rows, done, webVars>>

EndTransaction(t) ==
    /\ allocated[t] # 0
    /\ CommitRow(t, Synthetic) \/ Rollback(t)
    /\ done' = done \union {t}
    /\ NoFault /\ UNCHANGED <<emitVars, pending, ingestor, webVars>>

-----------------------------------------------------------------------------
(* The ingestor. *)

Entry(i) == ingestor[i].entry
Goto(i, pc) == ingestor' = [ingestor EXCEPT ![i].pc = pc]
Return(i) == ingestor' = [ingestor EXCEPT ![i].pc = "idle", ![i].entry = 0]
(* The first n members of S, in order (ORDER BY ... LIMIT n, COUNT n) *)
FirstOf(n, S) == {k \in S : Cardinality({j \in S : j < k}) < n}
KeyTakenIgnored(e) == FALSE
Committed(k) == rows[k] # NoRow
KeyTaken(e) == \E k \in 1..MaxRows : rows[k] = e

(* XREADGROUP of new entries, or XAUTOCLAIM of entries that have been      *)
(* pending for 30 s, those another process is still handling included.     *)
ReadGroup(i) ==
    /\ ingestor[i] = IdleIngestor /\ stream # {}
    /\ ingestor' = [ingestor EXCEPT ![i].todo = FirstOf(Count, stream)]
    /\ pending' = pending \union FirstOf(Count, stream)
    /\ stream' = stream \ FirstOf(Count, stream)
    /\ NoFault /\ UNCHANGED <<sequence, emitted, dbVars, webVars>>

AutoclaimNothing(i) == FALSE /\ UNCHANGED vars
Autoclaim(i) ==
    /\ ingestor[i] = IdleIngestor
    /\ \E S \in SUBSET pending \ {{}} :
          ingestor' = [ingestor EXCEPT ![i].todo = FirstOf(Count, S)]
    /\ NoFault /\ UNCHANGED <<emitVars, pending, dbVars, webVars>>

(* handleEntry: an event that TraceEventSchema refuses is dropped. *)
Parse(i) ==
    /\ ingestor[i].pc = "idle" /\ ingestor[i].todo # {}
    /\ LET e == Min(ingestor[i].todo)
       IN ingestor' = [ingestor EXCEPT ![i] =
            [pc |-> IF e \in Malformed THEN "ack" ELSE "find", entry |-> e, todo |-> @.todo \ {e}]]
    /\ NoFault /\ UNCHANGED <<emitVars, pending, dbVars, webVars>>

FindExisting(i) ==
    /\ ingestor[i].pc = "find"
    /\ Goto(i, IF KeyTaken(Entry(i)) THEN "ack" ELSE "store")
    /\ NoFault /\ UNCHANGED <<emitVars, pending, dbVars, webVars>>

StoreBegin(i) ==
    /\ ingestor[i].pc = "store"
    /\ Allocate(i)
    /\ Goto(i, "commit")
    /\ NoFault /\ UNCHANGED <<emitVars, pending, lastSequence, rows, done, webVars>>

(* A unique key refuses a second row for the event, or for the number      *)
(* (P2002): the transaction rolls back and the entry counts as handled.    *)
StoreCommit(i) ==
    /\ ingestor[i].pc = "commit"
    /\ IF KeyTaken(Entry(i)) \/ Committed(allocated[i]) THEN Rollback(i) ELSE CommitRow(i, Entry(i))
    /\ Goto(i, "ack")
    /\ NoFault /\ UNCHANGED <<emitVars, pending, done, webVars>>

(* Any other error, the one of ack included, is logged and leaves the entry *)
(* pending.                                                                *)
StoreFails(i) ==
    /\ ingestor[i].pc \in {"find", "store", "commit", "ack"}
    /\ Rollback(i) /\ Return(i)
    /\ Fault /\ UNCHANGED <<emitVars, pending, done, webVars>>

ack(i) ==
    /\ ingestor[i].pc = "ack"
    /\ pending' = pending \ {Entry(i)}
    /\ Return(i)
    /\ NoFault /\ UNCHANGED <<emitVars, dbVars, webVars>>

(* The process stops or loses the database or Redis: nothing is committed. *)
Crash(i) ==
    /\ ingestor[i] # IdleIngestor
    /\ ingestor' = [ingestor EXCEPT ![i] = IdleIngestor]
    /\ Rollback(i)
    /\ Fault /\ UNCHANGED <<emitVars, pending, done, webVars>>

-----------------------------------------------------------------------------
(* The SSE connection and the browser. *)

After(cursor) == {k \in 1..MaxRows : k > cursor /\ Committed(k)}

(* drain: findMany, then one write per row in the same turn; a second tick *)
(* finds it active.                                                        *)
DrainRead ==
    /\ conn.open /\ conn.batch = {} /\ After(conn.cursor) # {}
    /\ conn' = [conn EXCEPT !.batch = FirstOf(Take, After(conn.cursor))]
    /\ NoFault /\ UNCHANGED <<emitVars, pending, ingestor, dbVars, cache, last, load>>

DrainWrite ==
    /\ conn.open /\ conn.batch # {}
    /\ conn' = [conn EXCEPT !.wire = @ \union conn.batch,
                            !.batch = {}, !.cursor = Max(conn.batch)]
    /\ NoFault /\ UNCHANGED <<emitVars, pending, ingestor, dbVars, cache, last, load>>

(* One event per number, sorted. *)
mergeEvents(events, k) == events \union {k}

Receive ==
    /\ conn.open /\ conn.wire # {}
    /\ cache' = mergeEvents(cache, Min(conn.wire))
    /\ last' = Max({last, Min(conn.wire)})
    /\ conn' = [conn EXCEPT !.wire = @ \ {Min(conn.wire)}]
    /\ NoFault /\ UNCHANGED <<emitVars, pending, ingestor, dbVars, load>>

(* The connection breaks; what was on the wire is lost. *)
Disconnect ==
    /\ conn.open
    /\ conn' = [NewConnection(0) EXCEPT !.open = FALSE]
    /\ Fault /\ UNCHANGED <<emitVars, pending, ingestor, dbVars, cache, last, load>>

(* EventSource reconnects with Last-Event-ID, retry with ?lastEventId=.    *)
ReconnectFrom == last
Reconnect ==
    /\ ~conn.open
    /\ conn' = NewConnection(ReconnectFrom)
    /\ NoFault /\ UNCHANGED <<emitVars, pending, ingestor, dbVars, cache, last, load>>

(* The page is left and opened again: the query cache is still there, the  *)
(* hook starts from nothing.                                               *)
Remount ==
    /\ last # 0
    /\ last' = 0 /\ conn' = NewConnection(0)
    /\ Fault /\ UNCHANGED <<emitVars, pending, ingestor, dbVars, cache, load>>

(* The page's first load: GET /events answers with every row, and the      *)
(* answer replaces what the cache holds by then.                           *)
LoadRead ==
    /\ load.pc = "asked"
    /\ load' = [pc |-> "answered", list |-> After(0)]
    /\ NoFault /\ UNCHANGED <<emitVars, pending, ingestor, dbVars, conn, cache, last>>

LoadArrives ==
    /\ load.pc = "answered"
    /\ cache' = load.list
    /\ load' = [pc |-> "done", list |-> {}]
    /\ NoFault /\ UNCHANGED <<emitVars, pending, ingestor, dbVars, conn, last>>

-----------------------------------------------------------------------------
handleEntry(i) == Parse(i) \/ FindExisting(i) \/ StoreBegin(i) \/ StoreCommit(i) \/ ack(i)

consumeLoop(i) == ReadGroup(i) \/ Autoclaim(i) \/ handleEntry(i)

drain == DrainRead \/ DrainWrite

Next ==
    \/ emit
    \/ \E t \in Transactions : AppendSyntheticEvent(t) \/ EndTransaction(t)
    \/ \E i \in Ingestors : consumeLoop(i) \/ StoreFails(i) \/ Crash(i)
    \/ LoadRead \/ LoadArrives \/ drain \/ Receive \/ Disconnect \/ Reconnect \/ Remount

Spec == Init /\ [][Next]_vars

(* Transactions end, each consumer loop goes on, the SSE timer fires, what *)
(* is sent over an open connection arrives, and EventSource reconnects.    *)
Fairness ==
    /\ \A t \in Transactions : WF_vars(EndTransaction(t))
    /\ \A i \in Ingestors : WF_vars(consumeLoop(i))
    /\ WF_vars(drain) /\ WF_vars(Receive) /\ WF_vars(Reconnect)

FairSpec == Spec /\ Fairness

-----------------------------------------------------------------------------
(* An event the stream accepted is in the stream, pending or stored: only  *)
(* what is stored or malformed is acknowledged.                            *)
NothingLost ==
    \A e \in emitted : \/ e \in stream \union pending \union Malformed
                       \/ \E k \in 1..MaxRows : rows[k] = e

(* StoredOnce: however often an entry is delivered, reclaimed and handled  *)
(* by two processes at once, and whichever errors and crashes happen, its  *)
(* event is not lost and has one row.                                      *)
StoredOnce ==
    /\ NothingLost
    /\ \A j, k \in 1..MaxRows : rows[j] = rows[k] /\ rows[j] \in Events => j = k

(* NothingBehind: a row that a reader has passed is never filled in later: *)
(* every number up to the server's and the browser's cursor is committed,  *)
(* so polling for larger numbers misses nothing; and what the server has   *)
(* passed and the browser has not is on the wire between them.             *)
NothingBehind ==
    /\ \A k \in 1..Max({conn.cursor, last}) : Committed(k)
    /\ \A k \in 1..conn.cursor : k > last => k \in conn.wire

(* EmittedIsReceived: every well-formed event the stream accepted reaches  *)
(* the browser, over crashes, errors and broken connections, and again     *)
(* whenever the page is opened anew.                                       *)
EmittedIsReceived ==
    \A e \in Events \ Malformed :
        (e \in emitted) ~> (\E k \in 1..last : rows[k] = e)

(* ShownComplete: events are merged into the cache of the first load, as   *)
(* page.tsx says: what was received before stays listed.                   *)
ShownComplete == 1..last \subseteq cache
=============================================================================
