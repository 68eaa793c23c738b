------------------------------- MODULE Server -------------------------------
(***************************************************************************)
(* One dev-server process with its in-memory venture: the request threads  *)
(* of Requests, and the nodes of Tracking, Billing and Feeds that they run *)
(* into one another through the bus, the stores and the nodes' own state.  *)
(*                                                                         *)
(* The nodes of the review flow and of lead generation have modules of     *)
(* their own (Review, Leads); no request here reaches them.                *)
(***************************************************************************)
EXTENDS Tracking, Billing, Feeds

vars == <<requestVars, trackingVars, billingVars, feedVars>>

Init == RequestsInit /\ TrackingInit /\ BillingInit /\ FeedsInit

Step(t) ==
  \/ /\ Publish(t) \/ Reset(t) \/ Reply(t)
     /\ UNCHANGED <<trackingVars, billingVars, feedVars>>
  \/ TrackingStep(t) /\ UNCHANGED <<billingVars, feedVars>>
  \/ BillingStep(t) /\ UNCHANGED <<trackingVars, feedVars>>
  \/ FeedsStep(t) /\ UNCHANGED <<trackingVars, billingVars>>

Next == \E t \in Threads : Step(t)

Spec == Init /\ [][Next]_vars

\* Python's threads take turns.
FairSpec == Spec /\ \A t \in Threads : WF_vars(Step(t))
-----------------------------------------------------------------------------
\* The reply of a publish shows its run as it was: every delivery of the run and
\* no other, in order; a step follows the earlier step that emitted its trigger,
\* starts the chain exactly if the outside event triggered it, and ends it
\* exactly if nobody handled what it emitted.  Rows a reset took away are the
\* first ones (app.py publish, _chains_from, _build_chain; substrate.py record).
ReplyTrue ==
  \A t \in Threads :
    LET r == reply[t]
        shown == [i \in DOMAIN r.chain |-> r.chain[i].row]
    IN r.how = "chain" =>
         /\ \E k \in 1 .. Len(r.did) + 1 :
              /\ k = 1 \/ r.cut
              /\ shown = SubSeq(r.did, k, Len(r.did))
         /\ \A i \in DOMAIN r.chain :
              LET s == r.chain[i]
              IN /\ ~s.start => (s.parent < i /\ s.row.trig \in Range(shown[s.parent].out))
                 /\ ~r.cut => (s.start <=> s.row.trig = r.root)
                 /\ (s.end <=> ~\E j \in DOMAIN shown : shown[j].trig \in Range(s.row.out))

\* The founder has been mailed a verdict on this company of this venture.
MailedOn(company, ven) ==
  \E m \in told : /\ m.type = "signal.verdict" /\ m.about = company
                 /\ m.ven = ven /\ m.via = "mail"

\* A row that names no company, or no job, or one of whose venture's runs raised.
Excused(rec) ==
  \/ Company(rec) \in {"", "(unknown)"}
  \/ KindOf[rec.source] \in {"review-feed", "reviews", "ratings"}
  \/ \E d \in dropped : d.ev.ven = rec.ven

\* At rest the founder has been sent a verdict on every company whose job the
\* raw store holds, by the name the canned reasoner reads, unless a run of that
\* venture raised, two threads were inside the ingestion nodes at once, or a
\* builder took the rows of one venture for another, whose views it refreshed.
\* A company with an apostrophe in its name is left out: EveryCompanyTold
\* (source_scraper.py, knowledge_builder.py, insight_inferrer.py and
\* founder_notifier.py handle, one after the other; registry.py _companies_after).
EveryLeadTold ==
  AtRest /\ ~overlapped /\ ~strayed =>
    \A i \in DOMAIN rows :
      LET rec == rows[i].rec
      IN \/ Excused(rec)
         \/ Company(rec) \in Quoted
         \/ MailedOn(ReadOff(Company(rec)), rec.ven)

\* The same, whatever the company is called: "Lead opportunities: any company
\* appearing in the open-roles section" (registry.py _canned_insights).
\* The code breaks it for names with an apostrophe (README, section 3).
EveryCompanyTold ==
  AtRest /\ ~overlapped /\ ~strayed =>
    \A i \in DOMAIN rows :
      LET rec == rows[i].rec
      IN Excused(rec) \/ MailedOn(Company(rec), rec.ven)

\* Every request is answered and every tick ends, whatever the others do
\* (app.py publish, tick, reset, _start_auto_ticker).
RequestsEnd == \A t \in Threads : Serving(t) ~> ~Serving(t)
=============================================================================
