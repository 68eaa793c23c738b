------------------------------ MODULE MCServer ------------------------------
(***************************************************************************)
(* Two threads, each with at most two requests, in scenarios that bring    *)
(* together the nodes that share state.                                    *)
(***************************************************************************)
EXTENDS Server, TLC

CONSTANTS t1, t2

Ask(type, about, says) == [type |-> type, ven |-> "postlineai", about |-> about,
                           says |-> says, urgent |-> FALSE]
Tick       == Ask("tick.daily", "", "")
RivalTick  == [Tick EXCEPT !.ven = "rival"]
Clear      == Ask("reset", "", "")
Signed(c)  == Ask("subscription.requested", c, "")
Quit(c, s) == Ask("subscription.cancellation_requested", c, s)
Seen(s)    == Ask("evidence.collected", "customers_satisfied", s)
Rate(s)    == Ask("survey.requested", "ann", s)
Two(p, q)  == t1 :> p @@ t2 :> q

Scenes ==
  { \* evidence for and against one assumption, and a reset between
    Two(<<Rate("yes")>>, <<Seen("no"), Clear>>),
    Two(<<Ask("campaign.requested", "meta", ""), Rate("no")>>, <<Clear>>),
    Two(<<Ask("campaign.requested", "radio", "")>>,
        <<Ask("campaign.launched", "meta", ""), Ask("post.published", "", "")>>),
    Two(<<Ask("post.published", "post", "")>>, <<Ask("research.requested", "", ""), Clear>>),
    Two(<<Ask("transcript.captured", "", "")>>, <<Ask("evidence.collected", "", "")>>),
    \* customers that come, come back and go
    Two(<<Signed("ann"), Signed("ann")>>, <<Quit("ann", NoId), Clear>>),
    Two(<<Signed("ann"), Quit("ann", NoId)>>, <<Signed("bob"), Quit("bob", NoId)>>),
    Two(<<Signed("ann")>>, <<Quit("bob", SubId(1)), Quit("bob", NoId)>>),
    \* ticks of the ingestion nodes, with and without other requests
    Two(<<Tick, Tick>>, <<>>),
    Two(<<Tick>>, <<Clear>>),
    Two(<<RivalTick>>, <<RivalTick>>),
    Two(<<RivalTick>>, <<Ask("source.records.ingested", "board", "")>>),
    Two(<<RivalTick>>, <<[Rate("no") EXCEPT !.ven = "rival"]>>) }

SourceList == <<"jobs", "reviews", "board">>
Venture == [s \in Range(SourceList) |-> IF s = "board" THEN "rival" ELSE "postlineai"]
Kinds   == [s \in Range(SourceList) |-> IF s = "reviews" THEN "review-feed" ELSE "job-board"]

Rec(source, ext, raw, categories) ==
  [ven |-> Venture[source], source |-> source, ext |-> ext, raw |-> raw, categories |-> categories]

\* A name with an apostrophe, and one with a backslash, which repr doubles.
QuotedNames  == {"o'neil"}
WrittenNames == "ac\\me" :> "ac\\\\me"

\* An Ashby job with a department of its own, and a Lever job whose company is
\* stamped and whose department and location are nested.
Writer == Rec("jobs", "j1", [title |-> Text("writer"), company |-> Text("o'neil"),
                             department |-> Named("brand")], Nothing)
Editor == Rec("jobs", "j2", [text |-> Text("editor"), _company |-> Text("bolt")],
              [team |-> Text("brand"), location |-> Text("rome")])
Rated  == Rec("reviews", "r1", [company |-> Text("acme"), rating |-> Numeral("1", 1),
                                score |-> Number(5), product |-> Text("app"), body |-> Text("love")], Nothing)
Worded == Rec("reviews", "r2", [organization |-> Text("o'neil"), review |-> Text("love")], Nothing)

Listing == Rec("board", "j1", [name |-> Text("writer"), org |-> Text("ac\\me")], Nothing)

Feed  == [s \in Range(SourceList) |->
           CASE s = "jobs"    -> {<<Writer>>, <<Writer, Editor>>}
             [] s = "reviews" -> {<<Rated, Worded>>}
             [] s = "board"   -> {<<Listing>>}]
Tones == ("love" :> 1) @@ ("awful" :> -1) @@ ("" :> 0)

\* One thread whose tick finds both jobs.
Lone     == {Two(<<Tick>>, <<>>)}
BothJobs == [Feed EXCEPT !["jobs"] = {<<Writer, Editor>>}]
=============================================================================
