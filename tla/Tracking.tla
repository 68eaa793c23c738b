------------------------------ MODULE Tracking ------------------------------
(***************************************************************************)
(* How evidence reaches the founder: the nodes that gather it (research,   *)
(* discovery calls, ads, posts, surveys), signal-analyzer that judges it,  *)
(* thesis-tracker that keeps per venture what it believes of each          *)
(* assumption, and founder-notifier that mails what changed.               *)
(*                                                                         *)
(* What a model or an ads platform answers is any answer of the right      *)
(* shape; or it raises.                                                    *)
(***************************************************************************)
EXTENDS Requests

CONSTANT Assumptions

VARIABLES
  belief,   \* thesis-tracker._state: per venture and assumption
  told      \* what the founder was sent, and by which channel

trackingVars == <<belief, told>>

TrackingInit ==
  /\ belief = [v \in Ventures |-> [a \in Assumptions |-> "untested"]]
  /\ told = {}

-----------------------------------------------------------------------------
\* What each stateless node may emit in answer to ev: a set of sequences.

\* market-scanner: the summary names a gap or competitors, or it does not.
Scan(ev) == {<<Out("market.landscape.summarized", "", s)>> : s \in {"yes", "no"}}

\* pain-extractor: pains are found, or none.
ExtractPain(ev) == {<<Out("pain.extracted", "", s)>> : s \in {"yes", "no"}}

\* ad-campaign-runner: a platform it has no client for is ignored.
Launch(ev) ==
  {IF ev.about \in {"linkedin", "meta"}
   THEN <<Out("campaign.launched", ev.about, "campaign")>> ELSE <<>>}

\* ad-analytics-collector: it also wants a campaign id.
Collect(ev) ==
  {IF ev.about \in {"linkedin", "meta"} /\ ev.says # ""
   THEN <<Out("campaign.metrics.updated", ev.about, "")>> ELSE <<>>}

\* signal-analyzer: one verdict on whatever it is sent.
Judge(ev) == {<<Out("signal.verdict", "", v)>> : v \in {"strong", "weak", "kill"}}

\* post-analytics-collector: a post without an id has no metrics.
Measure(ev) ==
  {IF ev.about # "" THEN <<Out("post.metrics.updated", ev.about, "")>> ELSE <<>>}

\* customer-survey: the answer comes with the question.
Survey(ev) == {<<Out("survey.responded", ev.about, ev.says)>>}

Reactions(node, ev) ==
  CASE node = "market-scanner"           -> Scan(ev)
    [] node = "pain-extractor"           -> ExtractPain(ev)
    [] node = "ad-campaign-runner"       -> Launch(ev)
    [] node = "ad-analytics-collector"   -> Collect(ev)
    [] node = "signal-analyzer"          -> Judge(ev)
    [] node = "post-analytics-collector" -> Measure(ev)
    [] node = "customer-survey"          -> Survey(ev)

Stateless == {"market-scanner", "pain-extractor", "ad-campaign-runner",
  "ad-analytics-collector", "signal-analyzer", "post-analytics-collector",
  "customer-survey"}

React(t) ==
  /\ \E n \in Stateless : Handling(t, n)
  /\ \E outs \in Reactions(Head(todo[t]).node, Ev(t)) : Finish(t, outs)
  /\ UNCHANGED trackingVars

\* The model, the ads platform or the mailer raises.
ReactFails(t) ==
  /\ \E n \in Stateless : Handling(t, n)
  /\ Raise(t)
  /\ UNCHANGED trackingVars

-----------------------------------------------------------------------------
\* thesis-tracker.EVIDENCE_MAP: the assumption an event bears on, and whether it
\* supports it ("yes"), contradicts it ("no") or says nothing.
Evidence(ev) ==
  CASE ev.type = "evidence.collected" ->
         IF ev.about = "" THEN [of |-> "", is |-> "none"]
         ELSE [of |-> ev.about, is |-> IF ev.says = "yes" THEN "yes" ELSE "no"]
    [] ev.type = "market.landscape.summarized" -> [of |-> "market_gap_exists", is |-> ev.says]
    [] ev.type = "pain.extracted" -> [of |-> "problem_is_real", is |-> ev.says]
    [] ev.type = "signal.verdict" -> [of |-> "demand_validated",
         is |-> CASE ev.says = "strong" -> "yes" [] ev.says = "kill" -> "no" [] OTHER -> "none"]
    [] ev.type = "survey.responded" ->
         [of |-> "customers_satisfied", is |-> IF ev.says = "yes" THEN "yes" ELSE "no"]

State(reading) == IF reading = "yes" THEN "supported" ELSE "contradicted"

TrackerIgnores(t) ==
  /\ At(t, "thesis-tracker", "start")
  /\ Evidence(Ev(t)).is = "none"
  /\ Finish(t, <<>>)
  /\ UNCHANGED trackingVars

TrackerWrites(t) ==
  /\ At(t, "thesis-tracker", "start")
  /\ LET e == Evidence(Ev(t))
     IN /\ e.is # "none"
        /\ belief' = [belief EXCEPT ![Ev(t).ven][e.of] = State(e.is)]
  /\ Goto(t, [pc |-> "announce"])
  /\ UNCHANGED told

Update(t, state) ==
  Finish(t, <<Out("thesis.state.updated", Evidence(Ev(t)).of, state)>>)

\* A plausible bug: no announcement when the founder was once told the same.
TrackerAnnouncesNews(t) ==
  /\ At(t, "thesis-tracker", "announce")
  /\ LET e == Evidence(Ev(t))
     IN IF \E m \in told : m.about = e.of THEN Finish(t, <<>>)
        ELSE Update(t, belief[Ev(t).ven][e.of])
  /\ UNCHANGED trackingVars

\* It announces what it finds now, which another thread may have written.
TrackerAnnounces(t) ==
  /\ At(t, "thesis-tracker", "announce")
  /\ Update(t, belief[Ev(t).ven][Evidence(Ev(t)).of])
  /\ UNCHANGED trackingVars

Urgent(ev) ==
  ev.urgent \/ (ev.type = "signal.verdict" /\ ev.says \in {"strong", "kill"})

Send(t, via) ==
  told' = told \cup {[ven |-> Ev(t).ven, type |-> Ev(t).type, about |-> Ev(t).about,
                      says |-> Ev(t).says, via |-> via]}

\* founder-notifier: what is urgent goes to Slack first; everything is mailed.
NotifierPosts(t) ==
  /\ At(t, "founder-notifier", "start")
  /\ Urgent(Ev(t))
  /\ Send(t, "slack")
  /\ Goto(t, [pc |-> "mail"])
  /\ UNCHANGED belief

NotifierMails(t) ==
  /\ \/ At(t, "founder-notifier", "mail")
     \/ At(t, "founder-notifier", "start") /\ ~Urgent(Ev(t))
  /\ Send(t, "mail")
  /\ Finish(t, <<Out("founder.notified", Ev(t).type, "")>>)
  /\ UNCHANGED belief

NotifierFails(t) ==
  /\ Handling(t, "founder-notifier")
  /\ Raise(t)
  /\ UNCHANGED trackingVars

TrackingStep(t) ==
  \/ React(t) \/ ReactFails(t)
  \/ TrackerIgnores(t) \/ TrackerWrites(t) \/ TrackerAnnounces(t)
  \/ NotifierPosts(t) \/ NotifierMails(t) \/ NotifierFails(t)
-----------------------------------------------------------------------------
\* At rest the founder has been sent, by mail, what the tracker believes of every
\* assumption that evidence has touched, unless the run that would have sent it
\* raised: two threads that write one assumption at once may announce the same
\* state twice, never a state that nobody announces
\* (thesis_tracker.py handle, founder_notifier.py handle).
BeliefTold ==
  AtRest =>
    \A v \in Ventures, a \in Assumptions :
      \/ belief[v][a] = "untested"
      \/ \E m \in told : /\ m.ven = v /\ m.about = a /\ m.says = belief[v][a]
                         /\ m.type = "thesis.state.updated" /\ m.via = "mail"
      \/ \E d \in dropped : d.node = "founder-notifier" /\ d.ev.ven = v /\ d.ev.about = a
=============================================================================
