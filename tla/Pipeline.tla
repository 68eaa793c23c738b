------------------------------ MODULE Pipeline ------------------------------
(***************************************************************************)
(* What the ingestion cluster promises its readers, whatever its threads,  *)
(* transactions and failures: records move one way through three stages.   *)
(* A record is stored before it is in the knowledge graph, its entities    *)
(* are in the graph before its edges, and a view shows only what the graph *)
(* holds for that view's venture.  Nothing leaves the store or the graph.  *)
(***************************************************************************)
CONSTANTS Records, Ventures, VentureOf

VARIABLES
  stored,    \* records in the raw-record store
  entities,  \* records whose entities are in the graph
  edges,     \* records whose edges are in the graph
  views      \* per venture, the records its materialized views show

vars == <<stored, entities, edges, views>>

Of(v) == {r \in Records : VentureOf[r] = v}

Init ==
  /\ stored = {}
  /\ entities = {}
  /\ edges = {}
  /\ views = [v \in Ventures |-> {}]

Store ==
  /\ stored' \in SUBSET Records
  /\ stored \subseteq stored'
  /\ UNCHANGED <<entities, edges, views>>

AddEntities ==
  /\ entities' \in SUBSET stored
  /\ entities \subseteq entities'
  /\ UNCHANGED <<stored, edges, views>>

AddEdges ==
  /\ edges' \in SUBSET entities
  /\ edges \subseteq edges'
  /\ UNCHANGED <<stored, entities, views>>

Refresh(v) ==
  /\ \E shown \in SUBSET (entities \cap Of(v)) : views' = [views EXCEPT ![v] = shown]
  /\ UNCHANGED <<stored, entities, edges>>

Next ==
  \/ Store
  \/ AddEntities
  \/ AddEdges
  \/ \E v \in Ventures : Refresh(v)

Spec == Init /\ [][Next]_vars
=============================================================================
