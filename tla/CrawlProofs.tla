----------------------------- MODULE CrawlProofs -----------------------------
(***************************************************************************)
(* Proofs about Crawl, for every site, goal and budget.                    *)
(***************************************************************************)
EXTENDS Crawl, FiniteSetTheorems, TLAPS

USE DEF Entry, Entries

\* A page whose links all lead to URLs has a finite number of them to follow.
LEMMA FollowedFinite ==
  ASSUME TypeOK, NEW u \in Urls, NEW d \in Nat
  PROVE  /\ IsFiniteSet(Followed(u, d))
         /\ Cardinality(Followed(u, d)) \in Nat
         /\ \A k \in Followed(u, d) : Rank(u, k, d) \in Nat /\ site[u][k] \in Urls
<1>1. site[u] \in Seq(Urls)
  BY SitesAssumption DEF TypeOK
<1>2. IsFiniteSet(1 .. Len(site[u]))
  BY <1>1, FS_Interval
<1>3. Followed(u, d) \subseteq 1 .. Len(site[u])
  BY <1>1 DEF Followed
<1>4. IsFiniteSet(Followed(u, d))
  BY <1>2, <1>3, FS_Subset
<1>5. ASSUME NEW k \in Followed(u, d)  PROVE Rank(u, k, d) \in Nat /\ site[u][k] \in Urls
  <2> DEFINE before == {j \in Followed(u, d) :
                          \/ Score[site[u][j]] > Score[site[u][k]]
                          \/ Score[site[u][j]] = Score[site[u][k]] /\ j < k}
  <2>1. IsFiniteSet(before)
    <3>1. before \subseteq Followed(u, d)
      OBVIOUS
    <3> HIDE DEF before
    <3> QED BY <1>4, <3>1, FS_Subset
  <2>2. Rank(u, k, d) = Cardinality(before)
    BY DEF Rank
  <2>3. Rank(u, k, d) \in Nat
    BY <2>1, <2>2, FS_CardinalityType
  <2> QED BY <1>1, <1>3, <1>5, <2>3
<1> QED BY <1>4, <1>5, FS_CardinalityType

\* What a page adds to the frontier are entries one level below it.
LEMMA PushedEntries ==
  ASSUME TypeOK, NEW u \in Urls, NEW d \in Nat
  PROVE  /\ Pushed(u, d) \subseteq Entries
         /\ \A e \in Pushed(u, d) : e.depth = d + 1 /\ SameSite(u, e.url)
<1> SUFFICES ASSUME NEW k \in Followed(u, d)
             PROVE  LET e == Entry(LinkScore(site[u][k], d), count + Rank(u, k, d), site[u][k], d + 1)
                    IN e \in Entries /\ e.depth = d + 1 /\ SameSite(u, e.url)
  BY DEF Pushed
<1>1. Rank(u, k, d) \in Nat /\ site[u][k] \in Urls
  BY FollowedFinite
<1>2. LinkScore(site[u][k], d) \in Int
  BY <1>1, GoalAssumption DEF LinkScore
<1>3. SameSite(u, site[u][k])
  BY DEF Followed
<1> QED BY <1>1, <1>2, <1>3 DEF TypeOK

\* A scraped page comes last.
LEMMA PageAppended ==
  ASSUME TypeOK, Scrape
  PROVE  /\ current.url \in Urls /\ current.depth \in Nat
         /\ DOMAIN pages' = DOMAIN pages \cup {Len(pages) + 1}
         /\ Len(pages') = Len(pages) + 1 /\ Len(pages) \in Nat
         /\ \A k \in DOMAIN pages : pages'[k] = pages[k] /\ k \in 1 .. Len(pages)
         /\ pages'[Len(pages) + 1] = [url |-> current.url, depth |-> current.depth]
         /\ Crawled' = Crawled \cup {current.url}
<1>1. pages' = Append(pages, [url |-> current.url, depth |-> current.depth])
  BY DEF Scrape
<1>2. /\ current.url \in Urls /\ current.depth \in Nat
      /\ DOMAIN pages' = DOMAIN pages \cup {Len(pages) + 1}
      /\ Len(pages') = Len(pages) + 1 /\ Len(pages) \in Nat
      /\ \A k \in DOMAIN pages : pages'[k] = pages[k] /\ k \in 1 .. Len(pages)
      /\ pages'[Len(pages) + 1] = [url |-> current.url, depth |-> current.depth]
  BY <1>1 DEF TypeOK
<1>3. Crawled' = Crawled \cup {current.url}
  BY <1>2 DEF Crawled
<1> QED BY <1>2, <1>3

\* A step keeps every variable's type.
LEMMA TypeStep == TypeOK /\ [Next]_vars => TypeOK'
<1> SUFFICES ASSUME TypeOK, [Next]_vars PROVE TypeOK'
  OBVIOUS
<1> USE DEF TypeOK
<1>1. ASSUME NEW e \in frontier, PopVisited(e) \/ Pop(e)  PROVE TypeOK'
  BY <1>1 DEF PopVisited, Pop
<1>2. CASE Scrape
  <2> DEFINE u == current.url
             d == current.depth
  <2>1. u \in Urls /\ d \in Nat
    OBVIOUS
  <2>2. Pushed(u, d) \subseteq Entries
    BY <2>1, PushedEntries
  <2>3. Cardinality(Followed(u, d)) \in Nat
    BY <2>1, FollowedFinite
  <2>4. pages' \in Seq([url : Urls, depth : Nat])
    BY <1>2, <2>1 DEF Scrape
  <2>5. frontier' \in {frontier, frontier \cup Pushed(u, d)}
        /\ count' \in {count, count + Cardinality(Followed(u, d))}
        /\ UNCHANGED <<site, visited, current, clock>>
        /\ fetched' = [fetched EXCEPT ![u] = fetched[u] + 1]
        /\ pc' \in {"loop", "done"} /\ reason' \in {"goal_met", reason}
    BY <1>2 DEF Scrape, Fetched
  <2> HIDE DEF u, d
  <2>6. frontier' \subseteq Entries /\ count' \in Nat
    BY <2>2, <2>3, <2>5
  <2>7. fetched' \in [Urls -> Nat]
    BY <2>1, <2>5
  <2> QED BY <2>4, <2>5, <2>6, <2>7 DEF Reasons
<1>3. CASE ScrapeRaises \/ Pass
  <2>1. current.url \in Urls
    OBVIOUS
  <2> QED BY <1>3, <2>1 DEF ScrapeRaises, Pass, Fetched
<1>4. CASE FrontierEmpty \/ OutOfPages \/ OutOfTime
  BY <1>4 DEF FrontierEmpty, OutOfPages, OutOfTime, End, Reasons
<1>5. CASE UNCHANGED vars
  BY <1>5 DEF vars
<1> QED BY <1>1, <1>2, <1>3, <1>4, <1>5 DEF Next, Step

\* Every variable of the crawl keeps its type.
THEOREM TypeCorrect == Spec => []TypeOK
<1>1. Init => TypeOK
  BY SitesAssumption DEF Init, TypeOK
<1> QED BY <1>1, TypeStep, PTL DEF Spec
-----------------------------------------------------------------------------
(***************************************************************************)
(* The seed's host, for what is in the frontier as well.                   *)
(***************************************************************************)
OnSite ==
  /\ StaysOnSite
  /\ \A e \in frontier : Host[e.url] = Host[Seed]
  /\ Host[current.url] = Host[Seed]

\* A step keeps OnSite.
LEMMA OnSiteStep == TypeOK /\ OnSite /\ [Next]_vars => OnSite'
<1> SUFFICES ASSUME TypeOK, OnSite, [Next]_vars PROVE OnSite'
  OBVIOUS
<1> USE DEF OnSite, StaysOnSite
<1>1. ASSUME NEW e \in frontier, PopVisited(e) \/ Pop(e)  PROVE OnSite'
  BY <1>1 DEF PopVisited, Pop
<1>2. CASE Scrape
  <2>1. current.url \in Urls /\ current.depth \in Nat
    BY DEF TypeOK
  <2>2. \A e \in Pushed(current.url, current.depth) : Host[e.url] = Host[Seed]
    BY <2>1, PushedEntries DEF SameSite
  <2>3. /\ frontier' \in {frontier, frontier \cup Pushed(current.url, current.depth)}
        /\ UNCHANGED <<visited, current>>
    BY <1>2 DEF Scrape
  <2> QED BY <2>2, <2>3
<1>3. CASE ScrapeRaises \/ Pass \/ FrontierEmpty \/ OutOfPages \/ OutOfTime \/ UNCHANGED vars
  BY <1>3 DEF ScrapeRaises, Pass, FrontierEmpty, OutOfPages, OutOfTime, End, vars
<1> QED BY <1>1, <1>2, <1>3 DEF Next, Step

\* The crawl never leaves the seed's host.
THEOREM StaysHome == Spec => []StaysOnSite
<1>1. Init => OnSite
  BY DEF Init, OnSite, StaysOnSite
<1>2. OnSite => StaysOnSite
  BY DEF OnSite
<1> QED BY <1>1, <1>2, OnSiteStep, TypeCorrect, PTL DEF Spec
-----------------------------------------------------------------------------
(***************************************************************************)
(* What is fetched was popped, once, with budget to spare and not too deep.*)
(***************************************************************************)
Bounded ==
  /\ FetchedOnce
  /\ WithinBudgets
  /\ Crawled \subseteq visited
  /\ \A u \in Urls : fetched[u] # 0 => u \in visited
  /\ \A e \in frontier : e.depth <= MaxDepth
  /\ pc = "scrape" => /\ current.url \in visited
                      /\ fetched[current.url] = 0
                      /\ current.depth <= MaxDepth
                      /\ Len(pages) < MaxPages

\* A step keeps Bounded.
LEMMA BoundedStep == TypeOK /\ Bounded /\ [Next]_vars => Bounded'
<1> SUFFICES ASSUME TypeOK, Bounded, [Next]_vars PROVE Bounded'
  OBVIOUS
<1>1. ASSUME NEW e \in frontier, PopVisited(e)  PROVE Bounded'
  BY <1>1 DEF PopVisited, Bounded, FetchedOnce, WithinBudgets, Crawled
<1>2. ASSUME NEW e \in frontier, Pop(e)  PROVE Bounded'
  <2>1. e.url \in Urls /\ fetched \in [Urls -> Nat]
    BY DEF TypeOK
  <2> QED
    BY <1>2, <2>1 DEF Pop, PagesLeft, Bounded, FetchedOnce, WithinBudgets, Crawled
<1>3. CASE Scrape
  <2>1. pc = "scrape" /\ pc' # "scrape" /\ UNCHANGED visited
    BY <1>3 DEF Scrape
  <2>2. FetchedOnce' /\ \A u \in Urls : fetched'[u] # 0 => u \in visited'
    BY <1>3, <2>1 DEF Scrape, Fetched, Bounded, FetchedOnce, TypeOK
  <2>3. WithinBudgets'
    BY <1>3, <2>1, PageAppended, BudgetAssumption DEF Bounded, WithinBudgets
  <2>4. Crawled' \subseteq visited'
    BY <1>3, <2>1, PageAppended DEF Bounded
  <2>5. ASSUME NEW e \in frontier'  PROVE e.depth <= MaxDepth
    <3>1. CASE e \in frontier
      BY <3>1 DEF Bounded
    <3>2. CASE e \notin frontier
      <4>1. current.depth < MaxDepth /\ e \in Pushed(current.url, current.depth)
        BY <1>3, <2>5, <3>2 DEF Scrape
      <4>2. e.depth = current.depth + 1 /\ current.depth \in Nat
        BY <1>3, <4>1, PushedEntries, PageAppended
      <4> QED BY <4>1, <4>2, BudgetAssumption
    <3> QED BY <3>1, <3>2
  <2> QED BY <2>1, <2>2, <2>3, <2>4, <2>5 DEF Bounded
<1>4. CASE Pass \/ FrontierEmpty \/ OutOfPages \/ OutOfTime \/ UNCHANGED vars
  BY <1>4 DEF Pass, FrontierEmpty, OutOfPages, OutOfTime, End, vars,
              Bounded, FetchedOnce, WithinBudgets, Crawled
<1>5. CASE ScrapeRaises
  <2>1. current.url \in Urls /\ fetched \in [Urls -> Nat]
    BY DEF TypeOK
  <2>2. fetched[current.url] = 0
    BY <1>5 DEF ScrapeRaises, Bounded
  <2>3. fetched' = [fetched EXCEPT ![current.url] = fetched[current.url] + 1]
    BY <1>5 DEF ScrapeRaises, Fetched
  <2>4. \A u \in Urls : fetched'[u] = IF u = current.url THEN 1 ELSE fetched[u]
    BY <2>1, <2>2, <2>3
  <2> QED
    BY <1>5, <2>1, <2>4 DEF ScrapeRaises, Bounded, FetchedOnce, WithinBudgets, Crawled
<1> QED BY <1>1, <1>2, <1>3, <1>4, <1>5 DEF Next, Step

\* Bounded holds in every state.
LEMMA BoundedAlways == Spec => [](TypeOK /\ Bounded)
<1>1. Init => Bounded
  BY BudgetAssumption DEF Init, Bounded, FetchedOnce, WithinBudgets, Crawled
<1> QED BY <1>1, BoundedStep, TypeCorrect, PTL DEF Spec

\* No URL is fetched twice, scraped or failed.
THEOREM NeverTwice == Spec => []FetchedOnce
<1>1. Bounded => FetchedOnce
  BY DEF Bounded
<1> QED BY <1>1, BoundedAlways, PTL

\* The budgets of pages and depth are kept.
THEOREM BudgetsKept == Spec => []WithinBudgets
<1>1. Bounded => WithinBudgets
  BY DEF Bounded
<1> QED BY <1>1, BoundedAlways, PTL
-----------------------------------------------------------------------------
(***************************************************************************)
(* Until the crawl is done it has no reason to stop, and it is not         *)
(* satisfied.                                                              *)
(***************************************************************************)
Unfinished ==
  /\ StopReasonTrue
  /\ pc # "done" => reason = Running /\ ~ Satisfied(Crawled)

\* A step keeps Unfinished.
LEMMA UnfinishedStep == TypeOK /\ Bounded /\ Unfinished /\ [Next]_vars => Unfinished'
<1> SUFFICES ASSUME TypeOK, Bounded, Unfinished, [Next]_vars PROVE Unfinished'
  OBVIOUS
<1>0. ASSUME UNCHANGED pages  PROVE Satisfied(Crawled)' <=> Satisfied(Crawled)
  BY <1>0 DEF Satisfied, Crawled
<1>1. ASSUME NEW e \in frontier, PopVisited(e) \/ Pop(e)  PROVE Unfinished'
  BY <1>0, <1>1 DEF PopVisited, Pop, Unfinished, StopReasonTrue
<1>2. CASE Scrape
  <2>1. Satisfied(Crawled)' <=> Satisfied(Crawled \cup {current.url})
    BY <1>2, PageAppended DEF Satisfied
  <2>2. pc = "scrape" /\ reason = Running
    BY <1>2 DEF Scrape, Unfinished
  <2>3. CASE Satisfied(Crawled \cup {current.url})
    BY <1>2, <2>1, <2>3 DEF Scrape, SatisfiedBy, Unfinished, StopReasonTrue
  <2>4. CASE ~ Satisfied(Crawled \cup {current.url})
    BY <1>2, <2>1, <2>2, <2>4 DEF Scrape, SatisfiedBy, Unfinished, StopReasonTrue
  <2> QED BY <2>3, <2>4
<1>3. CASE ScrapeRaises \/ Pass
  BY <1>0, <1>3 DEF ScrapeRaises, Pass, Unfinished, StopReasonTrue
<1>4. CASE FrontierEmpty
  BY <1>0, <1>4 DEF FrontierEmpty, End, Unfinished, StopReasonTrue
<1>5. CASE OutOfPages
  <2>1. Len(pages) = MaxPages
    BY <1>5, BudgetAssumption DEF OutOfPages, PagesLeft, Bounded, WithinBudgets, TypeOK
  <2> QED BY <1>0, <1>5, <2>1 DEF OutOfPages, End, Unfinished, StopReasonTrue
<1>6. CASE OutOfTime
  <2>1. clock > TimeLimit
    BY <1>6, BudgetAssumption DEF OutOfTime, TimeLeft, TypeOK
  <2> QED BY <1>0, <1>6, <2>1 DEF OutOfTime, End, Unfinished, StopReasonTrue
<1>7. CASE UNCHANGED vars
  BY <1>0, <1>7 DEF vars, Unfinished, StopReasonTrue
<1> QED BY <1>1, <1>2, <1>3, <1>4, <1>5, <1>6, <1>7 DEF Next, Step

\* Unfinished holds in every state.
LEMMA UnfinishedAlways == Spec => [](TypeOK /\ Bounded /\ Unfinished)
<1>1. Init => Unfinished
  <2> SUFFICES ASSUME Init PROVE ~ Satisfied(Crawled)
    BY DEF Init, Unfinished, StopReasonTrue
  <2>1. Crawled \cap Matching = {}
    BY DEF Init, Crawled
  <2> QED BY <2>1, FS_EmptySet, GoalAssumption DEF Satisfied
<1> QED BY <1>1, UnfinishedStep, BoundedAlways, PTL DEF Spec

\* The reason given for stopping is the reason.
THEOREM ReasonsAreTrue == Spec => []StopReasonTrue
<1>1. Unfinished => StopReasonTrue
  BY DEF Unfinished
<1> QED BY <1>1, UnfinishedAlways, PTL
-----------------------------------------------------------------------------
\* A link leads to what was visited or waits in the frontier.
Known(u) == u \in visited \/ \E e \in frontier : e.url = u

\* The promising links of the p-th page are known.
Kept(p) ==
  pages[p].depth < MaxDepth =>
    \A k \in DOMAIN site[pages[p].url] :
      /\ SameSite(pages[p].url, site[pages[p].url][k])
      /\ LinkScore(site[pages[p].url][k], pages[p].depth) >= Floor
      => Known(site[pages[p].url][k])

\* A promising link of the page being scraped is known afterwards, if the crawl
\* goes on.
LEMMA LinkPushed ==
  ASSUME TypeOK, Scrape, reason' # "goal_met", current.depth < MaxDepth,
         NEW k \in DOMAIN site[current.url],
         SameSite(current.url, site[current.url][k]),
         LinkScore(site[current.url][k], current.depth) >= Floor
  PROVE  \/ site[current.url][k] \in visited
         \/ \E e \in frontier' : e.url = site[current.url][k]
<1> SUFFICES ASSUME site[current.url][k] \notin visited
             PROVE  \E e \in frontier' : e.url = site[current.url][k]
  OBVIOUS
<1> DEFINE u == current.url
           d == current.depth
           e == Entry(LinkScore(site[u][k], d), count + Rank(u, k, d), site[u][k], d + 1)
<1>1. k \in Followed(u, d)
  BY DEF Followed
<1>2. e \in Pushed(u, d)
  BY <1>1 DEF Pushed
<1>3. frontier' = frontier \cup Pushed(u, d)
  BY DEF Scrape
<1>4. e.url = site[u][k]
  OBVIOUS
<1> HIDE DEF e
<1> QED BY <1>2, <1>3, <1>4

\* A step keeps NoLinkForgotten.
LEMMA NoLinkForgottenStep ==
  ASSUME TypeOK, Unfinished, NoLinkForgotten, [Next]_vars
  PROVE  NoLinkForgotten'
<1>a. NoLinkForgotten <=> (reason # "goal_met" => \A p \in DOMAIN pages : Kept(p))
  BY DEF NoLinkForgotten, Kept, Known
<1>b. NoLinkForgotten' <=> (reason' # "goal_met" => \A p \in DOMAIN pages' : Kept(p)')
  BY DEF NoLinkForgotten, Kept, Known
<1>1. ASSUME NEW e \in frontier, PopVisited(e) \/ Pop(e)  PROVE NoLinkForgotten'
  <2>1. UNCHANGED <<site, pages, reason>>
    BY <1>1 DEF PopVisited, Pop
  <2>2. ASSUME NEW x, Known(x)  PROVE Known(x)'
    BY <1>1, <2>2 DEF PopVisited, Pop, Known
  <2>3. ASSUME NEW p, Kept(p)  PROVE Kept(p)'
    BY <2>1, <2>2, <2>3 DEF Kept, SameSite, LinkScore
  <2> QED BY <1>a, <1>b, <2>1, <2>3
<1>2. CASE Scrape /\ reason' # "goal_met"
  <2>1. UNCHANGED <<site, visited, current>> /\ frontier \subseteq frontier' /\ reason = Running
    BY <1>2 DEF Scrape, Unfinished
  <2>2. ASSUME NEW x, Known(x)  PROVE Known(x)'
    BY <2>1, <2>2 DEF Known
  <2>3. ASSUME NEW p \in DOMAIN pages  PROVE Kept(p)'
    <3>1. Kept(p)
      BY <1>a, <2>1 DEF Running
    <3>2. pages'[p] = pages[p]
      BY <1>2, PageAppended
    <3> QED BY <2>1, <2>2, <3>1, <3>2 DEF Kept, SameSite, LinkScore
  <2>4. ASSUME NEW p, p = Len(pages) + 1  PROVE Kept(p)'
    <3>1. pages'[p] = [url |-> current.url, depth |-> current.depth]
      BY <1>2, <2>4, PageAppended
    <3>2. ASSUME current.depth < MaxDepth,
                 NEW k \in DOMAIN site[current.url],
                 SameSite(current.url, site[current.url][k]),
                 LinkScore(site[current.url][k], current.depth) >= Floor
          PROVE  Known(site[current.url][k])'
      BY <1>2, <2>1, <3>2, LinkPushed DEF Known
    <3> QED BY <2>1, <3>1, <3>2 DEF Kept, SameSite, LinkScore
  <2> QED BY <1>2, <1>b, <2>3, <2>4, PageAppended
<1>3. CASE Scrape /\ reason' = "goal_met"
  BY <1>3 DEF NoLinkForgotten
<1>4. CASE ScrapeRaises \/ Pass \/ UNCHANGED vars
  BY <1>4 DEF ScrapeRaises, Pass, vars, NoLinkForgotten
<1>5. CASE FrontierEmpty \/ OutOfPages \/ OutOfTime
  BY <1>5 DEF FrontierEmpty, OutOfPages, OutOfTime, End, Unfinished, Running, NoLinkForgotten
<1> QED BY <1>1, <1>2, <1>3, <1>4, <1>5 DEF Next, Step

\* No promising link of a scraped page is forgotten while the crawl goes on.
THEOREM NothingForgotten == Spec => []NoLinkForgotten
<1>1. Init => NoLinkForgotten
  BY DEF Init, NoLinkForgotten
<1> QED BY <1>1, NoLinkForgottenStep, UnfinishedAlways, PTL DEF Spec
=============================================================================
