------------------------------- MODULE Feeds --------------------------------
(***************************************************************************)
(* The ingestion nodes over the in-memory stores, which take no lock:      *)
(* source-scraper inserts what a feed lists, knowledge-builder folds the   *)
(* rows past its watermark into the graph and refreshes the views, and     *)
(* insight-inferrer turns the views into verdicts for the founder.         *)
(*                                                                         *)
(* Scraper models how a plan and a cursor choose records, Ingestion the    *)
(* same nodes over SQL.  Here the plans are snapshots: every record listed *)
(* is offered to the store.                                                *)
(***************************************************************************)
EXTENDS Requests, Extract

CONSTANTS
  Sources,   \* the enabled sources, in the order list_enabled gives them
  OwnerOf,   \* per source, its venture
  KindOf,    \* per source, the kind in its enrichment
  Listed,    \* per source, the sequences of records the feed may list
  Quoted,    \* the names that repr writes between double quotes
  Written    \* per name that repr writes with a backslash, how it starts: what
             \* stands before the next single quote

\* A raw record carries the venture of its source (_collect_records).
ASSUME FeedsAssumption ==
  /\ Sources \in Seq(Range(Sources))
  /\ \A s \in Range(Sources) : \A recs \in Listed[s] :
       recs \in Seq(Range(recs)) /\ \A r \in Range(recs) : r.ven = OwnerOf[s]

\* Such a name has a character in it, and a backslash as written.
ASSUME ReprAssumption ==
  \A c \in DOMAIN Written : Written[c] \notin {"", "(unknown)"}

VARIABLES
  rows,        \* InMemoryRawRecordStore._rows
  keys,        \* ._keys
  seq,         \* ._seq
  watermark,   \* the builder's
  graph,       \* InMemoryKnowledgeStore._entities
  edges,       \* ._edges
  views,       \* ._views, per venture
  overlapped,  \* history: two threads were inside these nodes at once
  strayed      \* history: a builder took rows of a venture not its event's

feedVars == <<rows, keys, seq, watermark, graph, edges, views, overlapped, strayed>>
rawVars  == <<rows, keys, seq>>
knowVars == <<graph, edges, views>>

NoViews == [roles |-> <<>>, catalog |-> <<>>, sentiment |-> <<>>]

FeedsInit ==
  /\ rows = <<>>
  /\ keys = {}
  /\ seq = 0
  /\ watermark = 0
  /\ graph = <<>>
  /\ edges = {}
  /\ views = [v \in Ventures |-> NoViews]
  /\ overlapped = FALSE
  /\ strayed = FALSE

Ingesting(t) ==
  /\ \E n \in {"source-scraper", "knowledge-builder"} : Handling(t, n)
  /\ loc[t].pc # "start"

Overlap(t) == overlapped' = (overlapped \/ \E u \in Threads \ {t} : Ingesting(u))

-----------------------------------------------------------------------------
\* _sources_to_scrape: the enabled sources of the event's venture.
ListEnabled(ven) ==
  Flat([i \in DOMAIN Sources |-> IF OwnerOf[Sources[i]] = ven THEN <<Sources[i]>> ELSE <<>>])

Scrape(t, srcs, outs) ==
  IF srcs = <<>> THEN Finish(t, outs)
  ELSE Goto(t, [pc |-> "fetch", srcs |-> srcs, outs |-> outs])

ScrapeStart(t) ==
  /\ At(t, "source-scraper", "start")
  /\ Scrape(t, ListEnabled(Ev(t).ven), <<>>)
  /\ Overlap(t)
  /\ UNCHANGED <<rawVars, watermark, knowVars, strayed>>

Fetch(t) ==
  /\ At(t, "source-scraper", "fetch")
  /\ \E recs \in Listed[Head(loc[t].srcs)] :
       Goto(t, [pc |-> "insert", srcs |-> loc[t].srcs, outs |-> loc[t].outs, recs |-> recs])
  /\ UNCHANGED feedVars

FetchFails(t) ==
  /\ At(t, "source-scraper", "fetch")
  /\ Raise(t)
  /\ UNCHANGED feedVars

\* A plausible bug: rows are numbered by how many there are.
ClaimLen(t) ==
  /\ At(t, "source-scraper", "insert")
  /\ loc[t].recs # <<>>
  /\ IF Own(Head(loc[t].recs)) \in keys
     THEN Goto(t, [loc[t] EXCEPT !.recs = Tail(@)]) /\ UNCHANGED seq
     ELSE /\ seq' = Len(rows) + 1
          /\ Goto(t, [pc |-> "store", srcs |-> loc[t].srcs, outs |-> loc[t].outs,
                      recs |-> Tail(loc[t].recs),
                      row |-> [seq |-> Len(rows) + 1, rec |-> Head(loc[t].recs)]])
  /\ UNCHANGED <<rows, keys, watermark, knowVars, overlapped, strayed>>

\* A plausible bug: a record the store has already is never left behind.
ClaimStuck(t) ==
  /\ At(t, "source-scraper", "insert")
  /\ loc[t].recs # <<>>
  /\ Own(Head(loc[t].recs)) \notin keys
  /\ seq' = seq + 1
  /\ Goto(t, [pc |-> "store", srcs |-> loc[t].srcs, outs |-> loc[t].outs,
              recs |-> Tail(loc[t].recs),
              row |-> [seq |-> seq + 1, rec |-> Head(loc[t].recs)]])
  /\ UNCHANGED <<rows, keys, watermark, knowVars, overlapped, strayed>>

\* upsert_many: the key is looked up and a sequence number taken, with no call
\* between, so CPython switches no thread there; the row is copied, and other
\* threads may run before it is stored.
Claim(t) ==
  /\ At(t, "source-scraper", "insert")
  /\ loc[t].recs # <<>>
  /\ IF Own(Head(loc[t].recs)) \in keys
     THEN Goto(t, [loc[t] EXCEPT !.recs = Tail(@)]) /\ UNCHANGED seq
     ELSE /\ seq' = seq + 1
          /\ Goto(t, [pc |-> "store", srcs |-> loc[t].srcs, outs |-> loc[t].outs,
                      recs |-> Tail(loc[t].recs),
                      row |-> [seq |-> seq + 1, rec |-> Head(loc[t].recs)]])
  /\ UNCHANGED <<rows, keys, watermark, knowVars, overlapped, strayed>>

\* The append and the key: nobody reads keys between the two but another claim,
\* which then finds the key missing as it would have before.
Store(t) ==
  /\ At(t, "source-scraper", "store")
  /\ rows' = Append(rows, loc[t].row)
  /\ keys' = keys \cup {Own(loc[t].row.rec)}
  /\ Goto(t, [pc |-> "insert", srcs |-> loc[t].srcs, outs |-> loc[t].outs,
              recs |-> loc[t].recs])
  /\ UNCHANGED <<seq, watermark, knowVars, overlapped, strayed>>

\* The state is saved and the next source scraped; the events of all sources are
\* published when the handler is over.
SourceDone(t) ==
  /\ At(t, "source-scraper", "insert")
  /\ loc[t].recs = <<>>
  /\ Scrape(t, Tail(loc[t].srcs),
            Append(loc[t].outs, Out("source.records.ingested", Head(loc[t].srcs), "")))
  /\ UNCHANGED feedVars

-----------------------------------------------------------------------------
\* read_since: the rows past the watermark, in the order of their numbers.
ReadSince(n) ==
  LET at == InOrder({<<rows[i].seq, i>> : i \in {j \in DOMAIN rows : rows[j].seq > n}})
  IN [k \in DOMAIN at |-> rows[at[k][2]]]

BuilderRead(t) ==
  /\ At(t, "knowledge-builder", "start")
  /\ IF ReadSince(watermark) = <<>> THEN Finish(t, <<>>)
     ELSE Goto(t, [pc |-> "extract", new |-> ReadSince(watermark)])
  /\ Overlap(t)
  /\ strayed' = (strayed \/ \E i \in DOMAIN rows :
                  rows[i].seq > watermark /\ rows[i].rec.ven # Ev(t).ven)
  /\ UNCHANGED <<rawVars, watermark, knowVars>>

Facts(new) == [i \in DOMAIN new |-> ExtractAs(KindOf[new[i].rec.source], new[i].rec)]

\* The records are extracted one by one; the new watermark is computed from the
\* one found, and assigned in a step of its own.
BuilderExtract(t) ==
  /\ At(t, "knowledge-builder", "extract")
  /\ LET new == loc[t].new
         facts == Facts(new)
     IN Goto(t, [pc |-> "advance",
                 ents |-> Flat([i \in DOMAIN new |-> facts[i].ents]),
                 edges |-> UNION {facts[i].edges : i \in DOMAIN new},
                 mark |-> Max({watermark, Last(new).seq})])
  /\ UNCHANGED feedVars

BuilderAdvance(t) ==
  /\ At(t, "knowledge-builder", "advance")
  /\ watermark' = loc[t].mark
  /\ Goto(t, [pc |-> "entities", ents |-> loc[t].ents, edges |-> loc[t].edges])
  /\ UNCHANGED <<rawVars, knowVars, overlapped, strayed>>

\* upsert_entities, then upsert_edges.
UpsertEntities(t) ==
  /\ At(t, "knowledge-builder", "entities")
  /\ graph' = Merge(graph, loc[t].ents)
  /\ Goto(t, [pc |-> "edges", edges |-> loc[t].edges])
  /\ UNCHANGED <<rawVars, watermark, edges, views, overlapped, strayed>>

UpsertEdges(t) ==
  /\ At(t, "knowledge-builder", "edges")
  /\ edges' = edges \cup loc[t].edges
  /\ Goto(t, [pc |-> "rollup"])
  /\ UNCHANGED <<rawVars, watermark, graph, views, overlapped, strayed>>

\* A plausible bug: only companies nobody has shown yet get a row.
RollUpsOnce(ven) ==
  IF views[ven] # NoViews THEN views[ven]
  ELSE [roles |-> OpenRoles(graph, ven), catalog |-> Catalog(graph, ven),
        sentiment |-> Reviewed(graph, ven)]

RollUps(ven) ==
  [roles |-> OpenRoles(graph, ven), catalog |-> Catalog(graph, ven),
   sentiment |-> Reviewed(graph, ven)]

\* _refresh_views: the rollups of the event's venture are computed, then stored.
RollUp(t) ==
  /\ At(t, "knowledge-builder", "rollup")
  /\ Goto(t, [pc |-> "refresh", views |-> RollUps(Ev(t).ven)])
  /\ UNCHANGED feedVars

Refresh(t) ==
  /\ At(t, "knowledge-builder", "refresh")
  /\ views' = [views EXCEPT ![Ev(t).ven] = loc[t].views]
  /\ Finish(t, <<Out("knowledge.updated", "", "")>>)
  /\ UNCHANGED <<rawVars, watermark, graph, edges, overlapped, strayed>>

-----------------------------------------------------------------------------
\* The canned reasoner has the rows of a view as their repr, and looks in it for
\* what follows 'company' between single quotes: it does not see a name with an
\* apostrophe, which repr writes between double quotes, and reads an escaped one as
\* it is written.  "(unknown)" is nobody.
ReadOff(c) == IF c \in DOMAIN Written THEN Written[c] ELSE c
Found(companies) == {ReadOff(c) : c \in companies \ Quoted} \ {"", "(unknown)"}

\* _canned_insights: a lead for every company with open roles, a risk for every
\* company whose reviews are mostly negative.
Leading(ven) == Found(DOMAIN views[ven].roles)
Risky(ven)   ==
  Found({c \in DOMAIN views[ven].sentiment : MostlyNegative(views[ven].sentiment[c])})

Verdict(company, kind) ==
  <<Out("market.insight", company, kind),
    [Out("signal.verdict", company, "strong") EXCEPT !.urgent = TRUE]>>

Insights(ven) ==
  Flat(SetToSeq({Verdict(c, "lead_opportunity") : c \in Leading(ven)})
       \o SetToSeq({Verdict(c, "risk_signal") : c \in Risky(ven)}))

\* insight-inferrer: with both views empty there is nothing to reason about.
Infer(t) ==
  /\ At(t, "insight-inferrer", "start")
  /\ \E outs \in {Insights(Ev(t).ven)} : Finish(t, outs)
  /\ UNCHANGED feedVars

InferFails(t) ==
  /\ At(t, "insight-inferrer", "start")
  /\ views[Ev(t).ven].roles # <<>> \/ views[Ev(t).ven].sentiment # <<>>
  /\ Raise(t)
  /\ UNCHANGED feedVars

FeedsStep(t) ==
  \/ ScrapeStart(t) \/ Fetch(t) \/ FetchFails(t) \/ Claim(t) \/ Store(t) \/ SourceDone(t)
  \/ BuilderRead(t) \/ BuilderExtract(t) \/ BuilderAdvance(t) \/ UpsertEntities(t)
  \/ UpsertEdges(t) \/ RollUp(t) \/ Refresh(t) \/ Infer(t) \/ InferFails(t)
-----------------------------------------------------------------------------
\* No two rows have one number, whatever the threads do; and unless two threads
\* were inside the ingestion nodes at once no record is stored twice
\* (raw_record_store.py InMemoryRawRecordStore.upsert_many).
RowsSound ==
  \A i, j \in DOMAIN rows :
    i # j => /\ rows[i].seq # rows[j].seq
             /\ Own(rows[i].rec) = Own(rows[j].rec) => overlapped

\* Every edge of the graph joins entities of the graph, at every moment and
\* whichever threads build it: entities are written before the edges between
\* them (knowledge_builder.py handle, StructuralExtractor, ReviewExtractor).
NoDanglingEdges == \A e \in edges : e.src \in DOMAIN graph /\ e.dst \in DOMAIN graph
=============================================================================
