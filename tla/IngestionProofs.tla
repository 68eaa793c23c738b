-------------------------- MODULE IngestionProofs --------------------------
(***************************************************************************)
(* Proofs about Ingestion, for any workers, records, faults and bounds.    *)
(***************************************************************************)
EXTENDS Ingestion, TLAPS

USE DEF Goto, Set
-----------------------------------------------------------------------------
(***************************************************************************)
(* Type correctness.                                                       *)
(***************************************************************************)

\* No step of Ingestion takes a variable out of its type.
LEMMA TypeStep == TypeOK /\ [Next]_vars => TypeOK'
<1> SUFFICES ASSUME TypeOK, [Next]_vars PROVE TypeOK'
  OBVIOUS
<1> USE VentureAssumption, FaultsAssumption, BoundsAssumption
<1> USE DEF TypeOK, PCs, Phases, database, locals, NoRows, Committed, Of
<1>1. ASSUME NEW w \in Workers, NEW v \in Ventures, Begin(w, v) PROVE TypeOK'
  BY <1>1 DEF Begin
<1>2. ASSUME NEW w \in Workers, NEW found \in SUBSET Of(venture[w]), OpenBatch(w, found)
      PROVE TypeOK'
  BY <1>2 DEF OpenBatch
<1>3. ASSUME NEW w \in Workers, NEW r \in Records, Insert(w, r) PROVE TypeOK'
  BY <1>3 DEF Insert
<1>4. ASSUME NEW w \in Workers, NEW r \in Records, Conflict(w, r) PROVE TypeOK'
  BY <1>4 DEF Conflict
<1>5. ASSUME NEW w \in Workers, Commit(w) PROVE TypeOK'
  BY <1>5 DEF Commit
<1>6. ASSUME NEW w \in Workers, ScrapeDone(w) PROVE TypeOK'
  BY <1>6 DEF ScrapeDone
<1>7. ASSUME NEW w \in Workers, ReadNew(w) PROVE TypeOK'
  BY <1>7 DEF ReadNew
<1>8. ASSUME NEW w \in Workers, EndRun(w), UNCHANGED <<database, watermark, crashes>>
      PROVE TypeOK'
  BY <1>8 DEF EndRun
<1>9. ASSUME NEW w \in Workers, Extract(w) PROVE TypeOK'
  BY <1>9 DEF Extract
<1>10. ASSUME NEW w \in Workers, Advance(w) PROVE TypeOK'
  BY <1>10 DEF Advance, Bigger
<1>11. ASSUME NEW w \in Workers, Look(w) PROVE TypeOK'
  BY <1>11 DEF Look
<1>12. ASSUME NEW w \in Workers, AddEntities(w) PROVE TypeOK'
  BY <1>12 DEF AddEntities
<1>13. ASSUME NEW w \in Workers, AddEdges(w) PROVE TypeOK'
  BY <1>13 DEF AddEdges
<1>14. ASSUME NEW w \in Workers, Rollup(w) PROVE TypeOK'
  BY <1>14 DEF Rollup
<1>15. ASSUME NEW w \in Workers, WriteViews(w) PROVE TypeOK'
  BY <1>15 DEF WriteViews, EndRun
<1>16. ASSUME Crash PROVE TypeOK'
  BY <1>16 DEF Crash
<1>17. CASE UNCHANGED vars
  BY <1>17 DEF vars
<1>18. ASSUME NEW w \in Workers, Step(w) PROVE TypeOK'
  BY <1>18, <1>2, <1>3, <1>4, <1>5, <1>6, <1>7, <1>8, <1>9, <1>10, <1>11, <1>12,
     <1>13, <1>14, <1>15
     DEF Step, ReadNothing, ExtractRaises, EntityConflict, Deadlock, Raise
<1> QED
  BY <1>1, <1>8, <1>16, <1>17, <1>18 DEF Next, Fail, Raise

\* Every variable keeps its type, whatever the threads and the failures.
THEOREM TypeCorrect == Spec => []TypeOK
<1>1. Init => TypeOK
  BY VentureAssumption DEF Init, TypeOK, NoRows, PCs
<1> QED
  BY <1>1, TypeStep, PTL DEF Spec
-----------------------------------------------------------------------------
(***************************************************************************)
(* Records move one way: the refinement of Pipeline.                       *)
(***************************************************************************)
\* What each stage, and each worker between two stages, knows to be behind it.
Downstream ==
  /\ entities \subseteq Committed
  /\ edges \subseteq entities
  /\ \A w \in Workers :
       /\ pc[w] # "idle" => venture[w] \in Ventures
       /\ Building(w) => batch[w] \subseteq Committed
       /\ pc[w] = "edges" => batch[w] \subseteq entities
       /\ pc[w] = "views" => looked[w] \subseteq entities \cap Of(venture[w])

\* Downstream is inductive, given the types.
LEMMA DownstreamStep == TypeOK /\ Downstream /\ [Next]_vars => Downstream'
<1> SUFFICES ASSUME TypeOK, Downstream, [Next]_vars PROVE Downstream'
  OBVIOUS
<1> USE DEF TypeOK, Downstream, database, locals, NoRows, Committed, Of, Building
<1>1. ASSUME NEW w \in Workers, NEW v \in Ventures, Begin(w, v) PROVE Downstream'
  BY <1>1 DEF Begin
<1>2. ASSUME NEW w \in Workers, NEW found \in SUBSET Of(venture[w]), OpenBatch(w, found)
      PROVE Downstream'
  BY <1>2 DEF OpenBatch
<1>3. ASSUME NEW w \in Workers, NEW r \in Records, Insert(w, r) PROVE Downstream'
  BY <1>3 DEF Insert
<1>4. ASSUME NEW w \in Workers, NEW r \in Records, Conflict(w, r) PROVE Downstream'
  BY <1>4 DEF Conflict
<1>5. ASSUME NEW w \in Workers, Commit(w) PROVE Downstream'
  BY <1>5 DEF Commit
<1>6. ASSUME NEW w \in Workers, ScrapeDone(w) PROVE Downstream'
  BY <1>6 DEF ScrapeDone
<1>7. ASSUME NEW w \in Workers, ReadNew(w) PROVE Downstream'
  BY <1>7 DEF ReadNew
<1>8. ASSUME NEW w \in Workers, EndRun(w), UNCHANGED <<database, watermark, crashes>>
      PROVE Downstream'
  BY <1>8 DEF EndRun
<1>9. ASSUME NEW w \in Workers, Extract(w) PROVE Downstream'
  BY <1>9 DEF Extract
<1>10. ASSUME NEW w \in Workers, Advance(w) PROVE Downstream'
  BY <1>10 DEF Advance
<1>11. ASSUME NEW w \in Workers, Look(w) PROVE Downstream'
  BY <1>11 DEF Look
<1>12. ASSUME NEW w \in Workers, AddEntities(w) PROVE Downstream'
  BY <1>12 DEF AddEntities
<1>13. ASSUME NEW w \in Workers, AddEdges(w) PROVE Downstream'
  BY <1>13 DEF AddEdges
<1>14. ASSUME NEW w \in Workers, Rollup(w) PROVE Downstream'
  BY <1>14 DEF Rollup
<1>15. ASSUME NEW w \in Workers, WriteViews(w) PROVE Downstream'
  BY <1>15 DEF WriteViews, EndRun
<1>16. ASSUME Crash PROVE Downstream'
  BY <1>16 DEF Crash
<1>17. CASE UNCHANGED vars
  BY <1>17 DEF vars
<1>18. ASSUME NEW w \in Workers, Step(w) PROVE Downstream'
  BY <1>18, <1>2, <1>3, <1>4, <1>5, <1>6, <1>7, <1>8, <1>9, <1>10, <1>11, <1>12,
     <1>13, <1>14, <1>15
     DEF Step, ReadNothing, ExtractRaises, EntityConflict, Deadlock, Raise
<1> QED
  BY <1>1, <1>8, <1>16, <1>17, <1>18 DEF Next, Fail, Raise

\* A step of the cluster is one of Pipeline's steps or leaves all four stages.
LEMMA StageStep == TypeOK /\ Downstream /\ [Next]_vars => [Stages!Next]_Stages!vars
<1> SUFFICES ASSUME TypeOK, Downstream, [Next]_vars PROVE [Stages!Next]_Stages!vars
  OBVIOUS
<1> DEFINE Same == UNCHANGED <<Committed, entities, edges, views>>
<1> USE DEF database, Committed
<1>1. ASSUME NEW w \in Workers, Commit(w) PROVE Stages!Store
  BY <1>1 DEF Commit, Stages!Store, TypeOK
<1>2. ASSUME NEW w \in Workers, AddEntities(w) PROVE Stages!AddEntities
  BY <1>2 DEF AddEntities, Stages!AddEntities, Downstream, Building
<1>3. ASSUME NEW w \in Workers, AddEdges(w) PROVE Stages!AddEdges
  BY <1>3 DEF AddEdges, Stages!AddEdges, Downstream
<1>4. ASSUME NEW w \in Workers, WriteViews(w)
      PROVE \E v \in Ventures : Stages!Refresh(v)
  BY <1>4 DEF WriteViews, Stages!Refresh, Stages!Of, Of, Downstream, TypeOK
<1>5. ASSUME NEW w \in Workers, Raise(w) PROVE Same
  BY <1>5 DEF Raise
<1>6. ASSUME NEW w \in Workers, Step(w) PROVE Stages!Next \/ Same
  <2>1. ASSUME NEW found, OpenBatch(w, found) PROVE Same
    BY <2>1 DEF OpenBatch
  <2>2. ASSUME NEW r \in Records, Insert(w, r) PROVE Same
    BY <2>2 DEF Insert
  <2>3. ASSUME NEW r \in Records, Conflict(w, r) PROVE Same
    BY <2>3 DEF Conflict
  <2>4. ASSUME \/ ScrapeDone(w) \/ ReadNew(w) \/ ReadNothing(w) \/ Extract(w)
               \/ Advance(w) \/ Look(w) \/ Rollup(w)
        PROVE Same
    BY <2>4 DEF ScrapeDone, ReadNew, ReadNothing, Extract, Advance, Look, Rollup
  <2> QED
    BY <1>1, <1>2, <1>3, <1>4, <1>5, <1>6, <2>1, <2>2, <2>3, <2>4
       DEF Step, ExtractRaises, EntityConflict, Deadlock, Stages!Next
<1>7. ASSUME NEW w \in Workers, NEW v \in Ventures, Begin(w, v) PROVE Same
  BY <1>7 DEF Begin
<1>8. ASSUME Crash PROVE Same
  BY <1>8 DEF Crash
<1>9. CASE UNCHANGED vars
  BY <1>9 DEF vars, Stages!vars
<1>10. Same => UNCHANGED Stages!vars
  BY DEF Stages!vars
<1> QED
  BY <1>5, <1>6, <1>7, <1>8, <1>9, <1>10 DEF Next, Fail

\* The cluster implements the three stages, with any number of threads, any
\* faults and any restarts.
THEOREM Refinement == Spec => ImplementsPipeline
<1>1. Init => Downstream
  BY DEF Init, Downstream, Building, NoRows, Committed
<1>2. Init => Stages!Init
  BY DEF Init, Stages!Init, NoRows, Committed
<1>3. Spec => []Downstream
  BY <1>1, DownstreamStep, TypeCorrect, PTL DEF Spec
<1> QED
  BY <1>2, <1>3, TypeCorrect, StageStep, PTL DEF Spec, ImplementsPipeline, Stages!Spec
-----------------------------------------------------------------------------
(***************************************************************************)
(* The raw-record store: values of the sequence and who holds them.        *)
(***************************************************************************)
\* Every value drawn from the sequence is on at most one row, committed or
\* held by one open transaction, and no row is in two places.
Drawn ==
  /\ \A r \in Records : seqOf[r] <= lastSeq
  /\ \A r, q \in Records : (seqOf[r] # 0 /\ seqOf[r] = seqOf[q]) => r = q
  /\ \A w \in Workers, r \in Records :
       /\ held[w][r] <= lastSeq
       /\ held[w][r] # 0 =>
            /\ seqOf[r] = 0
            /\ \A q \in Records : seqOf[q] # held[w][r]
            /\ \A u \in Workers : held[u][r] # 0 => u = w
            /\ \A u \in Workers, q \in Records : held[u][q] = held[w][r] => u = w /\ q = r

\* Only three kinds of steps touch the values drawn.
LEMMA DrawnStep == TypeOK /\ Drawn /\ [Next]_vars => Drawn'
<1> SUFFICES ASSUME TypeOK, Drawn, [Next]_vars PROVE Drawn'
  OBVIOUS
<1> DEFINE Kept == UNCHANGED <<seqOf, lastSeq, held>>
<1> USE DEF TypeOK, database, NoRows
<1>1. ASSUME NEW w \in Workers, NEW r \in Records, Insert(w, r) PROVE Drawn'
  BY <1>1 DEF Insert, Drawn
<1>2. ASSUME NEW w \in Workers, NEW r \in Records, Conflict(w, r) PROVE Drawn'
  BY <1>2 DEF Conflict, Drawn
<1>3. ASSUME NEW w \in Workers, Commit(w) PROVE Drawn'
  BY <1>3 DEF Commit, Drawn
<1>4. ASSUME NEW w \in Workers, EndRun(w), UNCHANGED <<seqOf, lastSeq>> PROVE Drawn'
  BY <1>4 DEF EndRun, Drawn
<1>5. ASSUME Crash PROVE Drawn'
  BY <1>5 DEF Crash, Drawn
<1>6. Kept => Drawn'
  BY DEF Drawn
<1>7. ASSUME NEW w \in Workers, Step(w) PROVE Drawn'
  <2>1. ASSUME NEW found, OpenBatch(w, found) PROVE Kept
    BY <2>1 DEF OpenBatch
  <2>2. ASSUME \/ ScrapeDone(w) \/ ReadNew(w) \/ Extract(w) \/ Advance(w) \/ Look(w)
               \/ AddEntities(w) \/ AddEdges(w) \/ Rollup(w)
        PROVE Kept
    BY <2>2 DEF ScrapeDone, ReadNew, Extract, Advance, Look, AddEntities, AddEdges, Rollup
  <2>3. ASSUME \/ ReadNothing(w) \/ WriteViews(w) \/ ExtractRaises(w)
               \/ EntityConflict(w) \/ Deadlock(w)
        PROVE EndRun(w) /\ UNCHANGED <<seqOf, lastSeq>>
    BY <2>3 DEF ReadNothing, WriteViews, ExtractRaises, EntityConflict, Deadlock, Raise
  <2> QED
    BY <1>1, <1>2, <1>3, <1>4, <1>6, <1>7, <2>1, <2>2, <2>3 DEF Step
<1>8. ASSUME NEW w \in Workers, NEW v \in Ventures, Begin(w, v) PROVE Kept
  BY <1>8 DEF Begin
<1>9. CASE UNCHANGED vars
  BY <1>9, <1>6 DEF vars, locals
<1> QED
  BY <1>4, <1>5, <1>6, <1>7, <1>8, <1>9 DEF Next, Fail, Raise

\* What was said of the numbers drawn holds in every state.
LEMMA DrawnAlways == Spec => []Drawn
<1>1. Init => Drawn
  BY DEF Init, Drawn, NoRows
<1> QED
  BY <1>1, DrawnStep, TypeCorrect, PTL DEF Spec

\* No two rows share an ingested_seq, whoever inserts at the same time.
THEOREM DistinctSeqs == Spec => []SeqsDistinct
<1>1. Drawn => SeqsDistinct
  BY DEF Drawn, SeqsDistinct, Committed
<1> QED
  BY <1>1, DrawnAlways, PTL

\* A committed row keeps its ingested_seq: only a commit writes one, and what
\* a transaction holds was not committed.
LEMMA RowsKept == TypeOK /\ Drawn /\ [Next]_vars => \A r \in Committed : seqOf'[r] = seqOf[r]
<1> SUFFICES ASSUME TypeOK, Drawn, [Next]_vars PROVE \A r \in Committed : seqOf'[r] = seqOf[r]
  OBVIOUS
<1>1. ASSUME NEW w \in Workers, Commit(w) PROVE \A r \in Committed : seqOf'[r] = seqOf[r]
  BY <1>1 DEF Commit, Drawn, Committed, TypeOK
<1>2. CASE seqOf' = seqOf
  BY <1>2
<1>3. ASSUME NEW w \in Workers, Step(w) PROVE Commit(w) \/ seqOf' = seqOf
  BY <1>3 DEF Step, OpenBatch, Insert, Conflict, ScrapeDone, ReadNew, ReadNothing, Extract,
     Advance, Look, AddEntities, AddEdges, Rollup, WriteViews, ExtractRaises,
     EntityConflict, Deadlock, Raise, database
<1> QED
  BY <1>1, <1>2, <1>3 DEF Next, Begin, Fail, Raise, Crash, database, vars

\* Existing keys are left untouched for ever.
THEOREM ImmutableRows == Spec => RowsImmutable
<1>1. TypeOK /\ Drawn /\ [Next]_vars => [\A r \in Committed : seqOf'[r] = seqOf[r]]_seqOf
  BY RowsKept
<1> QED
  BY <1>1, TypeCorrect, DrawnAlways, PTL DEF Spec, RowsImmutable
-----------------------------------------------------------------------------
(***************************************************************************)
(* The watermark.                                                          *)
(***************************************************************************)
\* 0 and the ingested_seq of every committed row.
RowNumbers == {0} \cup {seqOf[r] : r \in Committed}

\* Every number on its way to the watermark is that of a committed row.
Grounded ==
  /\ watermark \in RowNumbers
  /\ \A w \in Workers :
       /\ loaded[w] \in RowNumbers
       /\ pc[w] \in {"extract", "advance"} => todo[w] \subseteq Committed

\* A step keeps Grounded, whichever thread moves.
LEMMA GroundedStep == TypeOK /\ Drawn /\ Grounded /\ [Next]_vars => Grounded'
<1> SUFFICES ASSUME TypeOK, Drawn, Grounded, [Next]_vars PROVE Grounded'
  OBVIOUS
<1>1. RowNumbers \subseteq RowNumbers'
  BY RowsKept DEF RowNumbers, Committed, TypeOK
<1>0. 0 \in RowNumbers'
  BY DEF RowNumbers
<1>2. Committed \subseteq Committed'
  BY RowsKept DEF Committed, TypeOK
<1> DEFINE Kept == UNCHANGED <<watermark, loaded, pc, todo>>
<1> USE DEF TypeOK, Grounded, database
<1>3. ASSUME NEW w \in Workers, EndRun(w), watermark' = watermark PROVE Grounded'
  BY <1>0, <1>1, <1>2, <1>3 DEF EndRun
<1>4. ASSUME NEW w \in Workers, Advance(w) PROVE Grounded'
  <2>1. PICK r \in todo[w] : watermark' = Bigger(loaded[w], seqOf[r])
    BY <1>4 DEF Advance
  <2>2. seqOf[r] \in RowNumbers
    BY <1>4 DEF Advance, RowNumbers
  <2>3. watermark' \in RowNumbers'
    BY <1>1, <2>1, <2>2 DEF Bigger
  <2> QED
    BY <1>1, <1>2, <1>4, <2>3, <1>0 DEF Advance
<1>5. ASSUME NEW w \in Workers, ReadNew(w) PROVE Grounded'
  BY <1>1, <1>2, <1>5 DEF ReadNew
<1>6. ASSUME NEW w \in Workers, Extract(w) PROVE Grounded'
  BY <1>1, <1>2, <1>6 DEF Extract
<1>7. ASSUME Crash PROVE Grounded'
  BY <1>0, <1>7 DEF Crash
<1>8. ASSUME NEW w \in Workers, watermark' = watermark, loaded' = loaded,
             \A u \in Workers \ {w} : pc'[u] = pc[u] /\ todo'[u] = todo[u],
             pc'[w] \notin {"extract", "advance"}
      PROVE Grounded'
  BY <1>1, <1>2, <1>8
<1>9. ASSUME NEW w \in Workers, Step(w) PROVE Grounded'
  <2>1. ASSUME NEW found, OpenBatch(w, found) PROVE Grounded'
    BY <1>8, <2>1 DEF OpenBatch
  <2>2. ASSUME NEW r \in Records, Insert(w, r) \/ Conflict(w, r) PROVE Grounded'
    BY <1>8, <2>2 DEF Insert, Conflict
  <2>3. CASE Commit(w) \/ ScrapeDone(w)
    BY <1>8, <2>3 DEF Commit, ScrapeDone
  <2>4. CASE Look(w) \/ AddEntities(w)
    BY <1>8, <2>4 DEF Look, AddEntities
  <2>5. CASE AddEdges(w) \/ Rollup(w)
    BY <1>8, <2>5 DEF AddEdges, Rollup
  <2>6. CASE ReadNothing(w) \/ WriteViews(w) \/ ExtractRaises(w) \/ EntityConflict(w) \/ Deadlock(w)
    BY <1>3, <2>6 DEF ReadNothing, WriteViews, ExtractRaises, EntityConflict, Deadlock, Raise
  <2> QED
    BY <1>4, <1>5, <1>6, <1>9, <2>1, <2>2, <2>3, <2>4, <2>5, <2>6 DEF Step
<1>10. ASSUME NEW w \in Workers, NEW v \in Ventures, Begin(w, v) PROVE Grounded'
  BY <1>8, <1>10 DEF Begin
<1>11. CASE UNCHANGED vars
  BY <1>1, <1>2, <1>11 DEF vars, locals
<1> QED
  BY <1>3, <1>7, <1>9, <1>10, <1>11 DEF Next, Fail, Raise

\* The watermark never runs ahead of the rows, however threads overwrite it.
THEOREM WatermarkOnRow == Spec => []WatermarkIsARow
<1>1. Init => Grounded
  BY DEF Init, Grounded, RowNumbers, NoRows
<1>2. Grounded => WatermarkIsARow
  BY DEF Grounded, RowNumbers, WatermarkIsARow
<1> QED
  BY <1>1, <1>2, GroundedStep, TypeCorrect, DrawnAlways, PTL DEF Spec
-----------------------------------------------------------------------------
(***************************************************************************)
(* One publishing thread: when no row is lost.                             *)
(***************************************************************************)
\* One thread, no record the extractor chokes on, and no failure between the
\* first row the watermark passes and the commit of the edges.
OneCarefulWorker ==
  /\ \E w : Workers = {w}
  /\ Poison = {}
  /\ Faults \cap {"extract", "entities", "edges"} = {}

InGraph(r) == r \in entities /\ r \in edges

\* What the builder has read and what is in the graph cover every row the
\* watermark may pass, and rows still to be committed come after it.
Covered ==
  \A w \in Workers :
    /\ ~Building(w) => \A r \in Committed : seqOf[r] <= watermark => InGraph(r)
    /\ Building(w) => \A r \in Committed : InGraph(r) \/ r \in batch[w]
    /\ pc[w] # "insert" => held[w] = NoRows
    /\ pc[w] = "insert" => \A r \in Records : held[w][r] # 0 => held[w][r] > watermark
    /\ pc[w] = "entities" => looked[w] = entities
    /\ pc[w] \in {"edges", "rollup", "views"} => batch[w] \subseteq entities
    /\ pc[w] \in {"rollup", "views"} => batch[w] \subseteq edges

\* A step of the one careful thread, or a restart, keeps Covered.
LEMMA CoveredStep ==
  ASSUME OneCarefulWorker, TypeOK, Drawn, Grounded, Covered, [Next]_vars
  PROVE  Covered'
<1> USE DEF OneCarefulWorker, TypeOK, Covered, database, locals, NoRows, InGraph, Committed, Building
<1>1. ASSUME NEW w \in Workers, NEW v \in Ventures, Begin(w, v) PROVE Covered'
  BY <1>1 DEF Begin
<1>2. ASSUME NEW w \in Workers, NEW found \in SUBSET Of(venture[w]), OpenBatch(w, found)
      PROVE Covered'
  BY <1>2 DEF OpenBatch
<1>3. ASSUME NEW w \in Workers, NEW r \in Records, Insert(w, r) PROVE Covered'
  <2>1. watermark <= lastSeq
    BY DEF Grounded, RowNumbers, Drawn
  <2> QED
    BY <1>3, <2>1 DEF Insert
<1>4. ASSUME NEW w \in Workers, NEW r \in Records, Conflict(w, r) PROVE Covered'
  BY <1>4 DEF Conflict
<1>5. ASSUME NEW w \in Workers, Commit(w) PROVE Covered'
  BY <1>5 DEF Commit
<1>6. ASSUME NEW w \in Workers, ScrapeDone(w) PROVE Covered'
  BY <1>6 DEF ScrapeDone
<1>7. ASSUME NEW w \in Workers, ReadNew(w) PROVE Covered'
  BY <1>7 DEF ReadNew
<1>8. ASSUME NEW w \in Workers, EndRun(w), UNCHANGED <<database, watermark>>, ~Building(w)
      PROVE Covered'
  BY <1>8 DEF EndRun
<1>9. ASSUME NEW w \in Workers, Extract(w) PROVE Covered'
  BY <1>9 DEF Extract
<1>10. ASSUME NEW w \in Workers, Advance(w) PROVE Covered'
  BY <1>10 DEF Advance
<1>11. ASSUME NEW w \in Workers, Look(w) PROVE Covered'
  BY <1>11 DEF Look
<1>12. ASSUME NEW w \in Workers, AddEntities(w) PROVE Covered'
  BY <1>12 DEF AddEntities
<1>13. ASSUME NEW w \in Workers, AddEdges(w) PROVE Covered'
  BY <1>13 DEF AddEdges
<1>14. ASSUME NEW w \in Workers, Rollup(w) PROVE Covered'
  BY <1>14 DEF Rollup
<1>15. ASSUME NEW w \in Workers, EndRun(w), UNCHANGED <<seqOf, entities, edges, watermark>>,
              pc[w] \in {"rollup", "views"}
       PROVE Covered'
  BY <1>15 DEF EndRun
<1>16. ASSUME Crash PROVE Covered'
  BY <1>16 DEF Crash
<1>17. CASE UNCHANGED vars
  BY <1>17 DEF vars
<1>18. ASSUME NEW w \in Workers, Step(w) PROVE Covered'
  <2>1. ~ExtractRaises(w) /\ ~Deadlock(w) /\ ~EntityConflict(w)
    BY DEF ExtractRaises, Deadlock, EntityConflict
  <2>2. CASE ReadNothing(w)
    BY <1>8, <2>2 DEF ReadNothing
  <2>3. CASE WriteViews(w)
    BY <1>15, <2>3 DEF WriteViews
  <2> QED
    BY <1>2, <1>3, <1>4, <1>5, <1>6, <1>7, <1>9, <1>10, <1>11, <1>12, <1>13, <1>14,
       <1>18, <2>1, <2>2, <2>3 DEF Step
<1>19. ASSUME NEW w \in Workers, Fail(w) PROVE Covered'
  <2>1. EndRun(w) /\ UNCHANGED <<database, watermark>>
    BY <1>19 DEF Fail, Raise
  <2>2. ~Building(w) \/ pc[w] \in {"rollup", "views"}
    BY <1>19, FaultsAssumption DEF Fail, Phases, PCs
  <2> QED
    BY <1>8, <1>15, <2>1, <2>2
<1> QED
  BY <1>1, <1>16, <1>17, <1>18, <1>19 DEF Next

\* With one publishing thread a row the watermark has passed is in the graph or
\* in the builder's hands, through any restart and any failure outside the
\* three phases OneCarefulWorker names.
THEOREM NothingSkippedSerially ==
  ASSUME OneCarefulWorker PROVE Spec => []NothingSkipped
<1>1. Init => Covered
  BY DEF Init, Covered, NoRows, Building, Committed
<1>2. Covered /\ TypeOK => NothingSkipped
  BY DEF OneCarefulWorker, Covered, NothingSkipped, Carried, InGraph, TypeOK
<1>3. TypeOK /\ Drawn /\ Grounded /\ Covered /\ [Next]_vars => Covered'
  BY CoveredStep
<1>4. Init => Grounded
  BY DEF Init, Grounded, RowNumbers, NoRows
<1> QED
  BY <1>1, <1>2, <1>3, <1>4, GroundedStep, TypeCorrect, DrawnAlways, PTL DEF Spec

\* The one thread's read of the watermark is still good when it is used.
Fresh == \A w \in Workers : pc[w] = "advance" => loaded[w] = watermark

\* A step of the one thread keeps Fresh and lowers the watermark only in a restart.
LEMMA FreshStep ==
  ASSUME NEW w \in Workers, Workers = {w}, TypeOK, Fresh, [Next]_vars
  PROVE  Fresh' /\ (watermark' >= watermark \/ crashes' # crashes)
<1> USE DEF TypeOK, Fresh, database
<1>1. CASE Extract(w)
  BY <1>1 DEF Extract
<1>2. CASE Advance(w)
  BY <1>2 DEF Advance, Bigger
<1>3. CASE Crash
  BY <1>3 DEF Crash
<1>4. CASE watermark' = watermark /\ pc'[w] # "advance"
  BY <1>4
<1>5. ASSUME Step(w) PROVE Extract(w) \/ Advance(w) \/ (watermark' = watermark /\ pc'[w] # "advance")
  <2>1. ASSUME NEW found, OpenBatch(w, found) PROVE watermark' = watermark /\ pc'[w] # "advance"
    BY <2>1 DEF OpenBatch
  <2>2. ASSUME NEW r \in Records, Insert(w, r) \/ Conflict(w, r)
        PROVE watermark' = watermark /\ pc'[w] # "advance"
    BY <2>2 DEF Insert, Conflict
  <2> QED
    BY <1>5, <2>1, <2>2 DEF Step, Commit, ScrapeDone, ReadNew, ReadNothing, Look, AddEntities,
       AddEdges, Rollup, WriteViews, ExtractRaises, EntityConflict, Deadlock, Raise, EndRun
<1>6. CASE UNCHANGED vars
  BY <1>6 DEF vars, locals
<1> QED
  BY <1>1, <1>2, <1>3, <1>4, <1>5, <1>6 DEF Next, Begin, Fail, Raise, EndRun

\* Between restarts the watermark never moves back when one thread publishes.
THEOREM WatermarkAdvancesSerially ==
  ASSUME \E w : Workers = {w} PROVE Spec => WatermarkAdvances
<1>1. Init => Fresh
  BY DEF Init, Fresh
<1>2. TypeOK /\ Fresh /\ [Next]_vars =>
        Fresh' /\ [watermark' >= watermark \/ crashes' # crashes]_watermark
  BY FreshStep
<1> QED
  BY <1>1, <1>2, TypeCorrect, PTL DEF Spec, WatermarkAdvances
-----------------------------------------------------------------------------
(***************************************************************************)
(* One publishing thread and one venture: when the views are current.      *)
(***************************************************************************)
\* What the careful thread needs for its views: everything is of the venture it
\* refreshes, and no failure between the first row passed and the views' commit.
OneVentureAtATime ==
  /\ OneCarefulWorker
  /\ \E v : Ventures = {v}
  /\ Faults \cap {"rollup", "views"} = {}

\* What the views show and what the builder has read cover every row the watermark
\* may pass; what the builder is about to show is every row there is.
Shown ==
  \A w \in Workers :
    /\ ~Building(w) => \A r \in Committed : seqOf[r] <= watermark => r \in views[VentureOf[r]]
    /\ Building(w) => \A r \in Committed : r \in views[VentureOf[r]] \/ r \in batch[w]
    /\ pc[w] = "views" => Committed \subseteq looked[w]

\* A step of the one careful thread, or a restart, keeps Shown.
LEMMA ShownStep ==
  ASSUME OneVentureAtATime, TypeOK, Downstream, Covered, Shown, [Next]_vars
  PROVE  Shown'
<1> USE VentureAssumption DEF OneVentureAtATime, OneCarefulWorker, TypeOK, Shown, database, locals, NoRows,
                              Committed, Building
<1>1. ASSUME NEW w \in Workers, NEW v \in Ventures, Begin(w, v) PROVE Shown'
  BY <1>1 DEF Begin
<1>2. ASSUME NEW w \in Workers, NEW found \in SUBSET Of(venture[w]), OpenBatch(w, found)
      PROVE Shown'
  BY <1>2 DEF OpenBatch
<1>3. ASSUME NEW w \in Workers, NEW r \in Records, Insert(w, r) PROVE Shown'
  BY <1>3 DEF Insert
<1>4. ASSUME NEW w \in Workers, NEW r \in Records, Conflict(w, r) PROVE Shown'
  BY <1>4 DEF Conflict
<1>5. ASSUME NEW w \in Workers, Commit(w) PROVE Shown'
  BY <1>5 DEF Commit, Covered
<1>6. ASSUME NEW w \in Workers, ScrapeDone(w) PROVE Shown'
  BY <1>6 DEF ScrapeDone
<1>7. ASSUME NEW w \in Workers, ReadNew(w) PROVE Shown'
  BY <1>7 DEF ReadNew
<1>8. ASSUME NEW w \in Workers, EndRun(w), UNCHANGED <<database, watermark>>, ~Building(w)
      PROVE Shown'
  BY <1>8 DEF EndRun
<1>9. ASSUME NEW w \in Workers, Extract(w) PROVE Shown'
  BY <1>9 DEF Extract
<1>10. ASSUME NEW w \in Workers, Advance(w) PROVE Shown'
  BY <1>10 DEF Advance
<1>11. ASSUME NEW w \in Workers, Look(w) PROVE Shown'
  BY <1>11 DEF Look
<1>12. ASSUME NEW w \in Workers, AddEntities(w) PROVE Shown'
  BY <1>12 DEF AddEntities
<1>13. ASSUME NEW w \in Workers, AddEdges(w) PROVE Shown'
  BY <1>13 DEF AddEdges
<1>14. ASSUME NEW w \in Workers, Rollup(w) PROVE Shown'
  <2>1. Committed \subseteq entities
    BY <1>14 DEF Rollup, Covered, InGraph
  <2>2. venture[w] \in Ventures
    BY <1>14 DEF Rollup, Downstream
  <2>3. Of(venture[w]) = Records
    BY <2>2 DEF Of
  <2> QED
    BY <1>14, <2>1, <2>3 DEF Rollup
<1>15. ASSUME NEW w \in Workers, WriteViews(w) PROVE Shown'
  <2>1. venture[w] \in Ventures
    BY <1>15 DEF WriteViews, Downstream
  <2>2. \A r \in Records : views'[VentureOf[r]] = looked[w]
    BY <1>15, <2>1 DEF WriteViews
  <2> QED
    BY <1>15, <2>2 DEF WriteViews, EndRun
<1>16. ASSUME Crash PROVE Shown'
  BY <1>16 DEF Crash
<1>17. CASE UNCHANGED vars
  BY <1>17 DEF vars
<1>18. ASSUME NEW w \in Workers, Step(w) PROVE Shown'
  <2>1. ~ExtractRaises(w) /\ ~Deadlock(w) /\ ~EntityConflict(w)
    BY DEF ExtractRaises, Deadlock, EntityConflict, Covered
  <2>2. CASE ReadNothing(w)
    BY <1>8, <2>2 DEF ReadNothing
  <2> QED
    BY <1>2, <1>3, <1>4, <1>5, <1>6, <1>7, <1>9, <1>10, <1>11, <1>12, <1>13, <1>14, <1>15,
       <1>18, <2>1, <2>2 DEF Step
<1>19. ASSUME NEW w \in Workers, Fail(w) PROVE Shown'
  <2>1. EndRun(w) /\ UNCHANGED <<database, watermark>>
    BY <1>19 DEF Fail, Raise
  <2>2. ~Building(w)
    BY <1>19, FaultsAssumption DEF Fail, Phases, PCs
  <2> QED
    BY <1>8, <2>1, <2>2
<1> QED
  BY <1>1, <1>16, <1>17, <1>18, <1>19 DEF Next

\* With one publishing thread and one venture, a row the watermark has passed is shown
\* by the views or in the builder's hands, through any restart and any failure of the
\* scraper (knowledge_builder.py _refresh_views).
THEOREM ViewsCurrentSerially ==
  ASSUME OneVentureAtATime PROVE Spec => []ViewsCurrent
<1>1. Init => Covered /\ Shown /\ Downstream /\ Grounded
  BY DEF Init, Covered, Shown, Downstream, Grounded, RowNumbers, NoRows, Building, Committed
<1>2. Shown /\ TypeOK => ViewsCurrent
  BY DEF OneVentureAtATime, OneCarefulWorker, Shown, ViewsCurrent, Carried, TypeOK
<1>3. TypeOK /\ Drawn /\ Grounded /\ Covered /\ [Next]_vars => Covered'
  BY CoveredStep DEF OneVentureAtATime
<1>4. TypeOK /\ Downstream /\ Covered /\ Shown /\ [Next]_vars => Shown'
  BY ShownStep
<1> QED
  BY <1>1, <1>2, <1>3, <1>4, GroundedStep, DownstreamStep, TypeCorrect, DrawnAlways, PTL DEF Spec
=============================================================================
