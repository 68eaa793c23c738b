----------------------------- MODULE MCDispatch -----------------------------
(***************************************************************************)
(* The ingestion slice of the venture's topology: the order of a type's    *)
(* handlers is the order of the nodes in the venture file.                 *)
(***************************************************************************)
EXTENDS Dispatch, TLC

MCTypes == {"tick.daily", "source.records.ingested", "knowledge.updated", "signal.verdict"}
MCNodes == {"source-scraper", "knowledge-builder", "insight-inferrer", "thesis-tracker"}

MCSubs ==
  ("tick.daily" :> <<"source-scraper", "knowledge-builder", "insight-inferrer">>) @@
  ("source.records.ingested" :> <<"knowledge-builder">>) @@
  ("knowledge.updated" :> <<"insight-inferrer">>) @@
  ("signal.verdict" :> <<"thesis-tracker">>) @@
  (TraceCaptured :> <<"layer3">>)

MCReactions ==
  [n \in MCNodes |-> [t \in MCTypes |->
    CASE n = "source-scraper"    -> {<<>>, <<"source.records.ingested">>,
                                     <<"source.records.ingested", "source.records.ingested">>}
      [] n = "knowledge-builder" -> {<<>>, <<"knowledge.updated">>}
      [] n = "insight-inferrer"  -> {<<>>, <<"signal.verdict">>}
      [] OTHER                   -> {<<>>}]]

\* Any event first, then one more run after the first returned or raised.
MCRoots == <<MCTypes, {"knowledge.updated"}>>

MCWild == <<"wildcard">>
=============================================================================
