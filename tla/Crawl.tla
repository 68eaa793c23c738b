-------------------------------- MODULE Crawl --------------------------------
(***************************************************************************)
(* CrawlAgent.crawl: a best-first walk over a web site towards a goal,     *)
(* within budgets of pages, depth and time.  The goal (ContactCrawlGoal,   *)
(* KeywordCrawlGoal) scores links and counts the pages it can use.  Any    *)
(* page may fail, any page may take long; the site is any of Sites.        *)
(***************************************************************************)
EXTENDS Integers, Sequences, FiniteSets

CONSTANTS
  Urls,
  Host,       \* urlparse(url).netloc
  Seed,       \* the URL the crawl starts from
  Sites,      \* the sites it may meet: per URL, the links of its page in order
  Score,      \* what the goal sees in a link, before its depth is deducted
  DepthCost,  \* what a link loses for every level its page is below the seed
  Floor,      \* min_link_score: links that score less are not followed
  Matching,   \* pages the goal can use: with an email, with a keyword
  Enough,     \* how many of them satisfy it: 1, min_matches
  MaxPages,   \* budget of pages scraped
  MaxDepth,   \* links of pages at this depth are not followed
  TimeLimit   \* budget of time

ASSUME SitesAssumption ==
  /\ Seed \in Urls
  /\ Sites \subseteq [Urls -> Seq(Urls)]
ASSUME GoalAssumption ==
  /\ Score \in [Urls -> Int] /\ DepthCost \in Nat /\ Floor \in Int
  /\ Matching \subseteq Urls /\ Enough \in Nat \ {0}
ASSUME BudgetAssumption ==
  MaxPages \in Nat /\ MaxDepth \in Nat /\ TimeLimit \in Nat

VARIABLES
  site,      \* the site
  frontier,  \* the heap, as a set: its entries differ in their counter
  count,     \* itertools.count, the heap's tie-breaker
  visited,   \* URLs popped so far
  pages,     \* pages scraped, with their depths, in order
  fetched,   \* history: how often each URL was fetched, scraped or failed
  current,   \* the entry being scraped
  clock,     \* time since the crawl started, up to the first beyond the limit
  pc,        \* loop, scrape or done
  reason     \* stop_reason

vars == <<site, frontier, count, visited, pages, fetched, current, clock, pc, reason>>

Reasons == {"frontier_empty", "budget_pages", "budget_time", "goal_met"}
Running == "running"

LinkScore(u, d) == Score[u] - DepthCost * d

(***************************************************************************)
(* Operators as a plausible bug would have them, none of them used below.  *)
(***************************************************************************)
\* The seed is pushed a level too high.
EntryTooHigh(score, n, u, d) == [score |-> score, n |-> n, url |-> u, depth |-> d - 1]

\* Links are kept whatever site they lead to.
FollowedAnywhere(u, d) ==
  {k \in DOMAIN site[u] :
     site[u][k] \notin visited /\ LinkScore(site[u][k], d) >= Floor}
-----------------------------------------------------------------------------
Entry(score, n, u, d) == [score |-> score, n |-> n, url |-> u, depth |-> d]

\* The heap's least element: the highest score, then the oldest entry.
Best(e) ==
  /\ e \in frontier
  /\ \A f \in frontier : e.score > f.score \/ (e.score = f.score /\ e.n <= f.n)

Crawled == {pages[k].url : k \in DOMAIN pages}

Satisfied(urls) == Cardinality(urls \cap Matching) >= Enough

\* (As a plausible bug would have it: asked before the page was absorbed.)
SatisfiedBefore(u) == Satisfied(Crawled)

\* The goal is asked once it has absorbed the page u.
SatisfiedBy(u) == Satisfied(Crawled \cup {u})

\* A link of a page is on its host, or on that of the seed.
SameSite(from, to) == Host[to] = Host[from] \/ Host[to] = Host[Seed]

\* The links _rank_links keeps of a page at depth d.
Followed(u, d) ==
  {k \in DOMAIN site[u] :
     /\ SameSite(u, site[u][k])
     /\ site[u][k] \notin visited
     /\ LinkScore(site[u][k], d) >= Floor}

\* How many of them come before the k-th: a stable sort, best score first.
Rank(u, k, d) ==
  Cardinality({j \in Followed(u, d) :
    \/ Score[site[u][j]] > Score[site[u][k]]
    \/ Score[site[u][j]] = Score[site[u][k]] /\ j < k})

\* (As a plausible bug would have it: only the best link is pushed.)
PushedBest(u, d) ==
  {Entry(LinkScore(site[u][k], d), count + Rank(u, k, d), site[u][k], d + 1) :
     k \in {j \in Followed(u, d) : Rank(u, j, d) = 0}}

\* The entries pushed for a page that was reached at depth d.
Pushed(u, d) ==
  {Entry(LinkScore(site[u][k], d), count + Rank(u, k, d), site[u][k], d + 1) :
     k \in Followed(u, d)}
-----------------------------------------------------------------------------
Init ==
  /\ site \in Sites
  /\ frontier = {Entry(1, 0, Seed, 0)}
  /\ count = 1
  /\ visited = {}
  /\ pages = <<>>
  /\ fetched = [u \in Urls |-> 0]
  /\ current = Entry(1, 0, Seed, 0)
  /\ clock = 0
  /\ pc = "loop"
  /\ reason = Running

Fetched(u) == fetched' = [fetched EXCEPT ![u] = @ + 1]

(***************************************************************************)
(* Operators as a plausible bug would have them, none of them used below.  *)
(***************************************************************************)
\* The page budget is checked with > instead of >=.
PagesLeftPlusOne == Len(pages) <= MaxPages

\* A page that failed counts as not visited, for another link to try again.
ScrapeRaisesForgetful ==
  /\ pc = "scrape"
  /\ pc' = "loop"
  /\ Fetched(current.url)
  /\ visited' = visited \ {current.url}
  /\ UNCHANGED <<site, frontier, count, pages, current, clock, reason>>

\* A URL that was visited before is pushed and popped for ever.
PopVisitedBack(e) ==
  /\ pc = "loop"
  /\ Best(e)
  /\ e.url \in visited
  /\ UNCHANGED vars
-----------------------------------------------------------------------------
(***************************************************************************)
(* The crawl.                                                              *)
(***************************************************************************)
PagesLeft == Len(pages) < MaxPages
TimeLeft  == clock <= TimeLimit

\* The loop ends between two pages.
End(why) ==
  /\ pc' = "done"
  /\ reason' = why
  /\ UNCHANGED <<site, frontier, count, visited, pages, fetched, current, clock>>

FrontierEmpty == pc = "loop" /\ frontier = {} /\ End("frontier_empty")
OutOfPages    == pc = "loop" /\ frontier # {} /\ ~ PagesLeft /\ End("budget_pages")
OutOfTime     == pc = "loop" /\ frontier # {} /\ PagesLeft /\ ~ TimeLeft /\ End("budget_time")

\* Pop an entry whose URL another entry has led to before.
PopVisited(e) ==
  /\ pc = "loop" /\ PagesLeft /\ TimeLeft
  /\ Best(e)
  /\ e.url \in visited
  /\ frontier' = frontier \ {e}
  /\ UNCHANGED <<site, count, visited, pages, fetched, current, clock, pc, reason>>

Pop(e) ==
  /\ pc = "loop" /\ PagesLeft /\ TimeLeft
  /\ Best(e)
  /\ e.url \notin visited
  /\ frontier' = frontier \ {e}
  /\ visited' = visited \cup {e.url}
  /\ current' = e
  /\ pc' = "scrape"
  /\ UNCHANGED <<site, count, pages, fetched, clock, reason>>

\* "One bad page must not kill the crawl."
ScrapeRaises ==
  /\ pc = "scrape"
  /\ pc' = "loop"
  /\ Fetched(current.url)
  /\ UNCHANGED <<site, frontier, count, visited, pages, current, clock, reason>>

\* The goal absorbs the page; unless it is satisfied or the page too deep, its
\* links join the frontier.
Scrape ==
  LET u == current.url
      d == current.depth
  IN /\ pc = "scrape"
     /\ pages' = Append(pages, [url |-> u, depth |-> d])
     /\ Fetched(u)
     /\ IF SatisfiedBy(u)
          THEN /\ pc' = "done"
               /\ reason' = "goal_met"
               /\ UNCHANGED <<frontier, count>>
          ELSE /\ pc' = "loop"
               /\ reason' = reason
               /\ frontier' = IF d < MaxDepth THEN frontier \cup Pushed(u, d) ELSE frontier
               /\ count' = IF d < MaxDepth THEN count + Cardinality(Followed(u, d)) ELSE count
     /\ UNCHANGED <<site, visited, current, clock>>

\* Scraping takes time.
Pass ==
  /\ pc = "scrape"
  /\ clock <= TimeLimit
  /\ clock' = clock + 1
  /\ UNCHANGED <<site, frontier, count, visited, pages, fetched, current, pc, reason>>

Step ==
  \/ FrontierEmpty \/ OutOfPages \/ OutOfTime
  \/ \E e \in frontier : PopVisited(e) \/ Pop(e)
  \/ ScrapeRaises
  \/ Scrape

Next == Step \/ Pass

Spec == Init /\ [][Next]_vars

\* One thread runs the loop, and every request ends by its timeout.
FairSpec == Spec /\ WF_vars(Step)
-----------------------------------------------------------------------------
Entries == [score : Int, n : Nat, url : Urls, depth : Nat]

\* Every variable has its type.
TypeOK ==
  /\ site \in Sites
  /\ frontier \subseteq Entries
  /\ count \in Nat
  /\ visited \subseteq Urls
  /\ pages \in Seq([url : Urls, depth : Nat])
  /\ fetched \in [Urls -> Nat]
  /\ current \in Entries
  /\ clock \in Nat
  /\ pc \in {"loop", "scrape", "done"}
  /\ reason \in Reasons \cup {Running}

\* "A visited set (dedupe, no re-fetch)": no URL is fetched twice, whether its
\* page was scraped or the fetch failed, however many links lead to it.
FetchedOnce == \A u \in Urls : fetched[u] <= 1

\* "Hard budgets": neither more pages nor deeper ones than allowed are scraped.
WithinBudgets ==
  /\ Len(pages) <= MaxPages
  /\ \A k \in DOMAIN pages : pages[k].depth <= MaxDepth

\* "Same-domain restriction": the crawl never leaves the seed's host, whatever
\* hosts the pages link to.
StaysOnSite == \A u \in visited : Host[u] = Host[Seed]

\* No promising link is forgotten while the crawl goes on: whatever a scraped
\* page above the depth limit links to on the site, with a score the goal
\* accepts, was visited or waits in the frontier.
NoLinkForgotten ==
  reason # "goal_met" =>
    \A p \in DOMAIN pages : pages[p].depth < MaxDepth =>
      \A k \in DOMAIN site[pages[p].url] :
        LET u == site[pages[p].url][k]
        IN (SameSite(pages[p].url, u) /\ LinkScore(u, pages[p].depth) >= Floor) =>
             u \in visited \/ \E e \in frontier : e.url = u

\* The stop_reason says why: the goal is reported met exactly when it is, even
\* on the last page a budget allows, and each budget only when it is used up.
StopReasonTrue ==
  pc = "done" =>
    /\ reason = "goal_met" <=> Satisfied(Crawled)
    /\ reason = "budget_pages" => Len(pages) = MaxPages
    /\ reason = "budget_time" => clock > TimeLimit
    /\ reason = "frontier_empty" => frontier = {}

\* Every crawl ends, though pages link to one another in circles.
CrawlEnds == <>(pc = "done")
=============================================================================
