----------------------------- MODULE Ingestion ------------------------------
(***************************************************************************)
(* The public-data ingestion cluster behind the bus: source-scraper puts   *)
(* records into the raw-record store, knowledge-builder folds the rows     *)
(* above its watermark into the knowledge graph and refreshes the views.   *)
(* The stores are the SQL ones; the watermark is an attribute of the one   *)
(* KnowledgeBuilder object that every thread of the server shares.         *)
(*                                                                         *)
(* A worker is a thread that publishes: a request thread of the dev server *)
(* or the auto-ticker.  A run of a worker is one synchronous chain, first  *)
(* the scraper over the venture's sources, then the builder (a second pass *)
(* of the builder in the same chain is a run that fetches nothing).  Each  *)
(* step below is what happens between two points at which another thread   *)
(* can run or another transaction can commit.                              *)
(***************************************************************************)
EXTENDS Naturals, FiniteSets

CONSTANTS
  Workers,     \* threads that publish onto the bus
  Records,     \* (source_id, external_id) pairs the sources can return
  Ventures,
  NoVenture,   \* the venture of a worker that handles no event
  VentureOf,   \* the venture of a record's source
  EntitiesOf,  \* the entities (job, company, ...) extracted from each record
  Poison,      \* records on which Extractor.extract raises
  Faults,      \* phases whose calls to the outside may raise
  MaxSeq,      \* bound: values the ingested_seq sequence hands out
  MaxCrashes   \* bound: process restarts

PCs == {"idle", "scrape", "insert", "read", "extract", "advance",
        "entities", "edges", "rollup", "views"}
Phases == PCs \ {"idle", "advance"}   \* with a call to a source or the database

ASSUME VentureAssumption == VentureOf \in [Records -> Ventures] /\ NoVenture \notin Ventures
ASSUME PoisonAssumption == Poison \subseteq Records
ASSUME FaultsAssumption == Faults \subseteq Phases
ASSUME BoundsAssumption == MaxSeq \in Nat /\ MaxCrashes \in Nat

VARIABLES
  \* in the database
  seqOf,      \* ingested_seq of each committed row, 0 for none
  lastSeq,    \* last value the sequence handed out
  entities,   \* records whose entities are committed
  edges,      \* records whose edges are committed
  views,      \* per venture, the records a view of the builder's three shows
  \* in the process
  watermark,  \* KnowledgeBuilder._watermark
  pc,         \* what each worker does next
  venture,    \* venture_id of the event the worker handles
  held,       \* per worker, ingested_seq of rows inserted and not committed
  todo,       \* records the worker's loop has still to visit
  batch,      \* new_records of the builder's handle
  loaded,     \* _watermark as read by max(self._watermark, ...)
  looked,     \* what the worker last read of the graph
  crashes     \* restarts so far

database == <<seqOf, lastSeq, entities, edges, views>>
locals   == <<pc, venture, held, todo, batch, loaded, looked>>
vars     == <<database, watermark, locals, crashes>>

Committed  == {r \in Records : seqOf[r] # 0}
Of(v)      == {r \in Records : VentureOf[r] = v}
Graph(S)   == UNION {EntitiesOf[r] : r \in S}
NoRows     == [r \in Records |-> 0]
Bigger(a, b) == IF a >= b THEN a ELSE b

\* The builder's handle holds new_records.
Building(w) == pc[w] \in {"extract", "advance", "entities", "edges", "rollup", "views"}

Goto(w, to)  == pc' = [pc EXCEPT ![w] = to]
Set(f, w, x) == [f EXCEPT ![w] = x]

\* The chain returns to its publisher: its local variables are gone.
EndRun(w) ==
  /\ Goto(w, "idle")
  /\ venture' = Set(venture, w, NoVenture)
  /\ held' = Set(held, w, NoRows)
  /\ todo' = Set(todo, w, {})
  /\ batch' = Set(batch, w, {})
  /\ loaded' = Set(loaded, w, 0)
  /\ looked' = Set(looked, w, {})
-----------------------------------------------------------------------------
Init ==
  /\ seqOf = NoRows
  /\ lastSeq = 0
  /\ entities = {}
  /\ edges = {}
  /\ views = [v \in Ventures |-> {}]
  /\ watermark = 0
  /\ pc = [w \in Workers |-> "idle"]
  /\ venture = [w \in Workers |-> NoVenture]
  /\ held = [w \in Workers |-> NoRows]
  /\ todo = [w \in Workers |-> {}]
  /\ batch = [w \in Workers |-> {}]
  /\ loaded = [w \in Workers |-> 0]
  /\ looked = [w \in Workers |-> {}]
  /\ crashes = 0

(***************************************************************************)
(* Actions as a plausible bug would have them.  None is part of Next: each *)
(* stands in for the action it is named after to show that a property can  *)
(* tell the difference.                                                    *)
(***************************************************************************)
\* ON CONFLICT DO UPDATE instead of DO NOTHING.
ConflictUpdates(w, r) ==
  /\ pc[w] = "insert"
  /\ r \in todo[w]
  /\ seqOf[r] # 0
  /\ lastSeq' = lastSeq + 1
  /\ held' = [held EXCEPT ![w][r] = lastSeq + 1]
  /\ todo' = Set(todo, w, todo[w] \ {r})
  /\ UNCHANGED <<seqOf, entities, edges, views, watermark, pc, venture, batch,
                 loaded, looked, crashes>>

\* source.records.ingested is not emitted.
ScrapeDoneSilent(w) ==
  /\ pc[w] = "scrape"
  /\ EndRun(w)
  /\ UNCHANGED <<database, watermark, crashes>>

\* The watermark is taken for the next row to read, not the last one read.
ReadNewOffByOne(w) ==
  LET new == {r \in Committed : seqOf[r] > watermark + 1}
  IN /\ pc[w] = "read"
     /\ new # {}
     /\ Goto(w, "extract")
     /\ batch' = Set(batch, w, new)
     /\ todo' = Set(todo, w, new)
     /\ UNCHANGED <<database, watermark, venture, held, loaded, looked, crashes>>

\* Rows in any order, and no max().
AdvanceNoMax(w) ==
  /\ pc[w] = "advance"
  /\ \E r \in todo[w] :
       /\ watermark' = seqOf[r]
       /\ todo' = Set(todo, w, todo[w] \ {r})
  /\ Goto(w, "extract")
  /\ loaded' = Set(loaded, w, 0)
  /\ UNCHANGED <<database, venture, held, batch, looked, crashes>>

\* The watermark counts rows.
AdvanceByOne(w) ==
  /\ pc[w] = "advance"
  /\ \E r \in todo[w] :
       /\ \A q \in todo[w] : seqOf[r] <= seqOf[q]
       /\ watermark' = loaded[w] + 1
       /\ todo' = Set(todo, w, todo[w] \ {r})
  /\ Goto(w, "extract")
  /\ loaded' = Set(loaded, w, 0)
  /\ UNCHANGED <<database, venture, held, batch, looked, crashes>>

\* upsert_edges before upsert_entities.
LookEdgesFirst(w) ==
  /\ pc[w] = "extract"
  /\ todo[w] = {}
  /\ Goto(w, "edges")
  /\ looked' = Set(looked, w, entities)
  /\ UNCHANGED <<database, watermark, venture, held, todo, batch, loaded, crashes>>

\* append() for extend().
AddEntitiesNested(w) ==
  /\ pc[w] = "entities"
  /\ entities' = entities \cup {batch[w]}
  /\ Goto(w, "edges")
  /\ looked' = Set(looked, w, {})
  /\ UNCHANGED <<seqOf, lastSeq, edges, views, watermark, venture, held, todo, batch,
                 loaded, crashes>>

\* The views are rebuilt from the new records alone.
RollupOfBatch(w) ==
  /\ pc[w] = "rollup"
  /\ looked' = Set(looked, w, batch[w] \cap Of(venture[w]))
  /\ Goto(w, "views")
  /\ UNCHANGED <<database, watermark, venture, held, todo, batch, loaded, crashes>>
-----------------------------------------------------------------------------
\* tick.daily, sources.updated or scrape.requested reaches the scraper.
Begin(w, v) ==
  /\ pc[w] = "idle"
  /\ Goto(w, "scrape")
  /\ venture' = Set(venture, w, v)
  /\ UNCHANGED <<database, watermark, held, todo, batch, loaded, looked, crashes>>

\* _scrape_one has fetched a source and calls upsert_many on what it found.
OpenBatch(w, found) ==
  /\ pc[w] = "scrape"
  /\ found # {}
  /\ lastSeq + Cardinality(found) <= MaxSeq
  /\ Goto(w, "insert")
  /\ todo' = Set(todo, w, found)
  /\ UNCHANGED <<database, watermark, venture, held, batch, loaded, looked, crashes>>

\* INSERT ... ON CONFLICT DO NOTHING inserts the row.  The sequence moves at
\* once; the row is visible to others only after the commit.  A row that
\* another open transaction has inserted makes this one wait for it (the value
\* it drew before the wait counts as drawn when the wait is over).
Insert(w, r) ==
  /\ pc[w] = "insert"
  /\ r \in todo[w]
  /\ seqOf[r] = 0
  /\ \A u \in Workers : held[u][r] = 0
  /\ lastSeq' = lastSeq + 1
  /\ held' = [held EXCEPT ![w][r] = lastSeq + 1]
  /\ todo' = Set(todo, w, todo[w] \ {r})
  /\ UNCHANGED <<seqOf, entities, edges, views, watermark, pc, venture, batch,
                 loaded, looked, crashes>>

\* The row exists: nothing is inserted, a sequence value is spent.
Conflict(w, r) ==
  /\ pc[w] = "insert"
  /\ r \in todo[w]
  /\ seqOf[r] # 0
  /\ lastSeq' = lastSeq + 1
  /\ todo' = Set(todo, w, todo[w] \ {r})
  /\ UNCHANGED <<seqOf, entities, edges, views, watermark, pc, venture, held, batch,
                 loaded, looked, crashes>>

\* The transaction of upsert_many commits; the loop goes on to the next source.
Commit(w) ==
  /\ pc[w] = "insert"
  /\ todo[w] = {}
  /\ seqOf' = [r \in Records |-> IF held[w][r] # 0 THEN held[w][r] ELSE seqOf[r]]
  /\ held' = Set(held, w, NoRows)
  /\ Goto(w, "scrape")
  /\ UNCHANGED <<lastSeq, entities, edges, views, watermark, venture, todo, batch,
                 loaded, looked, crashes>>

\* The scraper's handle returns and its events (or the tick itself) reach the
\* builder.  A run in which neither happens changes nothing and is left out.
ScrapeDone(w) ==
  /\ pc[w] = "scrape"
  /\ Goto(w, "read")
  /\ UNCHANGED <<database, watermark, venture, held, todo, batch, loaded, looked, crashes>>

\* read_since(self._watermark): the rows of every venture, no limit.
ReadNew(w) ==
  LET new == {r \in Committed : seqOf[r] > watermark}
  IN /\ pc[w] = "read"
     /\ new # {}
     /\ Goto(w, "extract")
     /\ batch' = Set(batch, w, new)
     /\ todo' = Set(todo, w, new)
     /\ UNCHANGED <<database, watermark, venture, held, loaded, looked, crashes>>

\* No new rows: the builder returns early and refreshes nothing.
ReadNothing(w) ==
  /\ pc[w] = "read"
  /\ \A r \in Committed : seqOf[r] <= watermark
  /\ EndRun(w)
  /\ UNCHANGED <<database, watermark, crashes>>

\* The loop extracts the next row in seq order and evaluates the right side of
\* self._watermark = max(self._watermark, rec.ingested_seq) ...
Extract(w) ==
  /\ pc[w] = "extract"
  /\ \E r \in todo[w] \ Poison : \A q \in todo[w] : seqOf[r] <= seqOf[q]
  /\ Goto(w, "advance")
  /\ loaded' = Set(loaded, w, watermark)
  /\ UNCHANGED <<database, watermark, venture, held, todo, batch, looked, crashes>>

\* ... and stores it.
Advance(w) ==
  /\ pc[w] = "advance"
  /\ \E r \in todo[w] :
       /\ \A q \in todo[w] : seqOf[r] <= seqOf[q]
       /\ watermark' = Bigger(loaded[w], seqOf[r])
       /\ todo' = Set(todo, w, todo[w] \ {r})
  /\ Goto(w, "extract")
  /\ loaded' = Set(loaded, w, 0)
  /\ UNCHANGED <<database, venture, held, batch, looked, crashes>>

\* upsert_entities selects which of the entities exist ...
Look(w) ==
  /\ pc[w] = "extract"
  /\ todo[w] = {}
  /\ Goto(w, "entities")
  /\ looked' = Set(looked, w, entities)
  /\ UNCHANGED <<database, watermark, venture, held, todo, batch, loaded, crashes>>

\* ... and commits, inserting those it did not find.
AddEntities(w) ==
  /\ pc[w] = "entities"
  /\ Graph(batch[w]) \cap Graph(entities) \subseteq Graph(looked[w])
  /\ entities' = entities \cup batch[w]
  /\ Goto(w, "edges")
  /\ looked' = Set(looked, w, {})
  /\ UNCHANGED <<seqOf, lastSeq, edges, views, watermark, venture, held, todo, batch,
                 loaded, crashes>>

\* upsert_edges: INSERT ... ON CONFLICT DO NOTHING in a transaction of its own.
AddEdges(w) ==
  /\ pc[w] = "edges"
  /\ edges' = edges \cup batch[w]
  /\ Goto(w, "rollup")
  /\ UNCHANGED <<seqOf, lastSeq, entities, views, watermark, venture, held, todo, batch,
                 loaded, looked, crashes>>

\* _refresh_views(event.venture_id) reads the graph of that venture ...
Rollup(w) ==
  /\ pc[w] = "rollup"
  /\ looked' = Set(looked, w, entities \cap Of(venture[w]))
  /\ Goto(w, "views")
  /\ UNCHANGED <<database, watermark, venture, held, todo, batch, loaded, crashes>>

\* ... and replaces the rows of its views.
WriteViews(w) ==
  /\ pc[w] = "views"
  /\ views' = [views EXCEPT ![venture[w]] = looked[w]]
  /\ EndRun(w)
  /\ UNCHANGED <<seqOf, lastSeq, entities, edges, watermark, crashes>>

\* An exception ends the worker's whole run: its open transaction is rolled
\* back, what it committed before and the watermark stay.
Raise(w) ==
  /\ EndRun(w)
  /\ UNCHANGED <<database, watermark, crashes>>

\* A fetch, a connection or a statement fails.
Fail(w) ==
  /\ pc[w] \in Faults
  /\ Raise(w)

\* The extractor raises on the next row; the rows before it have already moved
\* the watermark.
ExtractRaises(w) ==
  /\ pc[w] = "extract"
  /\ \E r \in todo[w] \cap Poison : \A q \in todo[w] : seqOf[r] <= seqOf[q]
  /\ Raise(w)

\* Another worker inserted an entity between the select and the insert: the
\* unique constraint makes upsert_entities raise IntegrityError.
EntityConflict(w) ==
  /\ pc[w] = "entities"
  /\ ~ (Graph(batch[w]) \cap Graph(entities) \subseteq Graph(looked[w]))
  /\ Raise(w)

\* Two open transactions wait for each other's rows: Postgres aborts one.
Deadlock(w) ==
  /\ pc[w] = "insert"
  /\ \E u \in Workers \ {w} :
       /\ \E r \in todo[w] : held[u][r] # 0
       /\ \E q \in todo[u] : held[w][q] # 0
  /\ Raise(w)

\* The process dies and starts again: the database keeps what is committed.
Crash ==
  /\ crashes < MaxCrashes
  /\ crashes' = crashes + 1
  /\ watermark' = 0
  /\ pc' = [w \in Workers |-> "idle"]
  /\ venture' = [w \in Workers |-> NoVenture]
  /\ held' = [w \in Workers |-> NoRows]
  /\ todo' = [w \in Workers |-> {}]
  /\ batch' = [w \in Workers |-> {}]
  /\ loaded' = [w \in Workers |-> 0]
  /\ looked' = [w \in Workers |-> {}]
  /\ UNCHANGED database

Step(w) ==
  \/ \E found \in SUBSET Of(venture[w]) : OpenBatch(w, found)
  \/ \E r \in Records : Insert(w, r)
  \/ \E r \in Records : Conflict(w, r)
  \/ Commit(w)
  \/ ScrapeDone(w)
  \/ ReadNew(w)
  \/ ReadNothing(w)
  \/ Extract(w)
  \/ Advance(w)
  \/ Look(w)
  \/ AddEntities(w)
  \/ AddEdges(w)
  \/ Rollup(w)
  \/ WriteViews(w)
  \/ ExtractRaises(w)
  \/ EntityConflict(w)
  \/ Deadlock(w)

Next ==
  \/ \E w \in Workers, v \in Ventures : Begin(w, v)
  \/ \E w \in Workers : Step(w)
  \/ \E w \in Workers : Fail(w)
  \/ Crash

Spec == Init /\ [][Next]_vars

\* Threads keep running, and the ticker keeps publishing tick.daily.
FairSpec ==
  /\ Spec
  /\ \A w \in Workers : WF_vars(Step(w))
  /\ WF_vars(\E w \in Workers, v \in Ventures : Begin(w, v))
-----------------------------------------------------------------------------
Carried(r) == \E w \in Workers : Building(w) /\ r \in batch[w]

\* Every variable has its type.
TypeOK ==
  /\ seqOf \in [Records -> Nat]
  /\ lastSeq \in Nat
  /\ entities \subseteq Records
  /\ edges \subseteq Records
  /\ views \in [Ventures -> SUBSET Records]
  /\ watermark \in Nat
  /\ pc \in [Workers -> PCs]
  /\ venture \in [Workers -> Ventures \cup {NoVenture}]
  /\ held \in [Workers -> [Records -> Nat]]
  /\ todo \in [Workers -> SUBSET Records]
  /\ batch \in [Workers -> SUBSET Records]
  /\ loaded \in [Workers -> Nat]
  /\ looked \in [Workers -> SUBSET Records]
  /\ crashes \in Nat

\* "read_since(seq) lets the knowledge-builder process only newly-added rows on
\* each run (and resume from its own watermark)": a row the watermark has
\* passed is in the graph with its edges, or in the hands of the builder.
NothingSkipped ==
  \A r \in Committed :
    seqOf[r] <= watermark => (r \in entities /\ r \in edges) \/ Carried(r)

\* The views are "rebuilt from the current graph": a row the watermark has
\* passed is shown by the views of its own venture, or on its way there.
ViewsCurrent ==
  \A r \in Committed :
    seqOf[r] <= watermark => r \in views[VentureOf[r]] \/ Carried(r)

\* Idempotent, monotonic store: no two rows share an ingested_seq, committed
\* or not, even when workers insert the same records at the same time.
SeqsDistinct ==
  /\ \A r, q \in Committed : seqOf[r] = seqOf[q] => r = q
  /\ \A w \in Workers, r \in Records :
       held[w][r] # 0 => r \notin Committed /\ \A q \in Committed : seqOf[q] # held[w][r]

\* "existing keys are left untouched": a row keeps its ingested_seq for ever.
RowsImmutable == [][\A r \in Committed : seqOf'[r] = seqOf[r]]_seqOf

\* The watermark is never ahead of the rows: it is 0 or the ingested_seq of a
\* row that was committed when the builder read it.
WatermarkIsARow == watermark # 0 => \E r \in Committed : seqOf[r] = watermark

\* Between restarts the watermark never moves back.
WatermarkAdvances == [][watermark' >= watermark \/ crashes' # crashes]_watermark

\* The cluster implements the three stages of Pipeline.
Stages == INSTANCE Pipeline WITH stored <- Committed
ImplementsPipeline == Stages!Spec

\* Every row that is committed is at last shown by its venture's views.
EveryRowShown ==
  \A r \in Records : (seqOf[r] # 0) ~> (r \in views[VentureOf[r]])
=============================================================================
