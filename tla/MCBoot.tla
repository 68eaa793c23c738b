------------------------------- MODULE MCBoot -------------------------------
(***************************************************************************)
(* Six venture files over eight of the nodes: the offline and the live    *)
(* one, cut to what their configs differ in, one whose functions disagree, *)
(* one with an implementation that does not exist, one that names a node   *)
(* nobody has, and one whose lead-sourcer is live and not canned.          *)
(***************************************************************************)
EXTENDS Boot

Spec1(name, config) == [name |-> name, config |-> config]
Bare(name)      == Spec1(name, <<>>)
IsLive(name)    == Spec1(name, [live |-> "true"])
Is(name, value) == Spec1(name, [canned |-> value])

Feed == <<Bare("source-registry"), Is("source-scraper", "true"), Bare("knowledge-builder")>>

Ventures ==
  [offline |-> <<<<Bare("lead-sourcer"), Bare("human-review-queue")>>,
                 Append(Feed, Bare("insight-inferrer"))>>,
   live    |-> <<<<IsLive("lead-sourcer"), Bare("human-review-queue")>>,
                 Append(Feed, IsLive("insight-inferrer")),
                 <<Bare("human-review-queue"), Bare("lead-sourcer")>>>>,
   torn    |-> <<<<Bare("source-registry"), Bare("signal-analyzer")>>,
                 <<Is("signal-analyzer", "false"), Spec1("post-drafter", [impl |-> "human"])>>,
                 <<Is("lead-sourcer", "false"), Is("signal-analyzer", "false")>>,
                 <<IsLive("lead-sourcer")>>>>,
   agent   |-> <<Feed, <<Spec1("post-drafter", [impl |-> "agent-v1"])>>>>,
   typo    |-> <<Feed, <<Bare("signal-analyser")>>>>,
   both    |-> <<<<Spec1("lead-sourcer", [canned |-> "false", live |-> "true"])>>>>]

Worlds == {[venture |-> v, set |-> s] : v \in {"offline", "live"},
            s \in {{}, {"DB_URL"}, {"OPENAI_API_KEY"}, {"OPENAI_API_KEY", "FIRECRAWL_API_KEY"}}}

\* reacts_to and emits of the classes; the queue's are those of its result map.
In(name) ==
  CASE name = "lead-sourcer" -> <<"lead-search.requested">>
    [] name = "human-review-queue" -> <<"review.approved", "post.drafted", "pitch.drafted">>
    [] name = "source-registry" -> <<"source.register.requested", "source.enrich.requested">>
    [] name = "source-scraper" -> <<"sources.updated", "scrape.requested", "tick.daily">>
    [] name = "knowledge-builder" -> <<"source.records.ingested", "tick.daily">>
    [] name = "insight-inferrer" -> <<"knowledge.updated", "tick.daily">>
    [] name = "signal-analyzer" ->
         <<"campaign.metrics.updated", "post.metrics.updated", "survey.responded">>
    [] name = "post-drafter" -> <<"input.captured">>
    [] OTHER -> <<>>

To(name) ==
  CASE name = "lead-sourcer" -> <<"companies.discovered">>
    [] name = "human-review-queue" -> <<"post.approved", "pitch.approved">>
    [] name = "source-registry" -> <<"sources.updated">>
    [] name = "source-scraper" -> <<"source.records.ingested", "source.inference.low_confidence">>
    [] name = "knowledge-builder" -> <<"knowledge.updated">>
    [] name = "insight-inferrer" -> <<"market.insight", "signal.verdict">>
    [] name = "signal-analyzer" -> <<"signal.verdict">>
    [] name = "post-drafter" -> <<"post.drafted">>
    [] OTHER -> <<>>

HearsOf == [n \in Known |-> In(n)]
SaysOf  == [n \in Known |-> To(n)]
=============================================================================
