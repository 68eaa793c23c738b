# AI Flywheel: TLA+ verification project

This directory specifies the core of the AI Flywheel, an event-driven runtime in
which small nodes (scrapers, drafters, reviewers, analysts) react to one another
over an in-memory bus. The modules are translated from the Python sources under
`src/flywheel`; `PROJECT.json` maps each definition to the lines it stands for.
TLC checks small instances of every module; TLAPS proves the main results for
all values of the constants.

## 1. The system

One process holds one venture. A YAML file is loaded into a list of nodes; the
runtime subscribes each node to the bus for the event types it declares. An event
enters from a request thread of the dev server (`/api/publish`,
`/api/review/approve`) or from a timer. `bus.publish` calls the handlers of the
event's type one after another, in subscription order, in the caller's thread; a
node's handler returns the events it emits and the runtime publishes each of
them, recursively, before the next sibling runs. Every invocation is traced.
Nothing on that path catches an exception. The dev server is threaded, so several
such runs are active at once over the same node objects, the same stores and the
same database: that is where most of the hard behaviour lies.

### Components

| Component | State | Operations | Must hold | Modelled in |
|---|---|---|---|---|
| Event kernel (`core/events`, `node`, `substrate`) | handler lists, the Python call stack, trace rows, persistent log | subscribe, publish, wrap a node, capture, `trace.captured` | each handler once per event, trace before delivery, depth first, an exception ends the run and reaches the publisher, every publish ends | `Dispatch` |
| Timers (`core/timers`) | tick period | publish a tick | ticks drive the ingestion chain | `Publish` of `Dispatch`, `Begin` of `Ingestion`, `Tick` of `Scraper` |
| Dev server (`devserver/app`) | bus, recorder, queue, auto-ticker thread | publish, tick, approve, reset, reads of traces and topology | threads interleave without corrupting what they share; a reply is the chain of its own run; every request ends | `Requests`, `Server`; approve in `Review`; the import in `Boot` |
| SQL stores (`persistence/sql_*`) | source rows, raw records with `ingested_seq`, entities, edges, views | upsert, read_since, save_state, list_enabled, rollups | idempotent, monotonic, immutable rows | `Ingestion`, `Pipeline`, `Scraper` |
| In-memory stores | the same, in lists and dictionaries, without a lock | the same | distinct numbers, no record twice, no edge without its ends | `Feeds`, `Extract` |
| source-scraper | none of its own; cursor and plan in the source row | select sources, fetch pages, reuse or infer a plan, skip by cursor, store, save | resumes where it left off, reuses a plan only for the shape it was made for, scrapes every source | `Scraper`; its store step in `Ingestion` |
| source-registry | none; source rows | register, enrich (read, merge, write the row) | an edit beside a scrape does no harm | `Scraper` |
| knowledge-builder | `_watermark`, extractors | read new rows, extract, upsert entities and edges, refresh views | no row skipped, views current, every company told | `Ingestion` (SQL), `Feeds` (in memory), `Extract` |
| insight-inferrer | none; reads two views | an insight and a verdict per lead and risk | every lead reaches the founder | `Feeds` |
| thesis-tracker, founder-notifier | state of each assumption; none | read evidence, write, announce; Slack and mail | the founder has been told what the tracker believes | `Tracking` |
| human-review-queue | `_pending` | park, resume, pending | one place per item, nothing forgotten, released once | `Review`, `Gate` |
| post-drafter, post-scheduler | none | draft; publish an approved post | only approved text, once | `Review` |
| subscription-manager, billing client | customer to subscription; the client's ledger | subscribe, charge, cancel | no active subscription out of reach, one charge for each | `Billing` |
| lead sourcing (`lead_sourcer`, `job_board_client`, `lead_store`) | `_seen`, `last_errors` | scan boards, filter, dedup, enrich, report | a posting is not repeated, none is hidden, failures are reported with the scan they happened in | `Leads` |
| crawler (`agents/crawl_agent`) | frontier, visited, budgets | best-first crawl until a stop reason | budgets, no URL fetched twice, no link forgotten, true stop reason, ends | `Crawl` |
| signal, ads, survey, research nodes | none | one event in, one or two out | what they learn reaches the tracker | `Tracking` |
| LLM seam | none or a fake's list | one call | - | any answer, or a raise, in `Tracking`, `Feeds`, `Scraper`; the choice of a gateway in `Boot` |
| leaf clients | none or a fake's list | one call | - | not modelled |
| venture loading (`venture/*`, `devserver/topology`) | the global store bundle, the nodes and the bus of each runtime, the app's module | resolve stores, reset the bundle, build and register nodes, describe, lint | one bundle per runtime, the app reads its own, a page that says what the bus does, live is real | `Boot` |
| front end | - | renders what the server returns | - | not modelled |

### How components interact

* Call: every delivery is a nested Python call; a run is a stack of them (`Dispatch`).
* Shared memory: `KnowledgeBuilder._watermark`, `HumanReviewQueue._pending`, the
  lead store's `_seen`, the board client's `last_errors`, `ThesisTracker._state`,
  `SubscriptionManager._active`, the fake ledger and the in-memory stores are plain
  attributes that all request threads read and write without a lock.
* Global state: the node factories read the store bundle from a module variable
  that every build replaces; the app's module keeps a reference to the one it found.
* Database: each store method is one transaction (`engine.begin()`); between two
  methods of one handler other threads' transactions commit.
* Copies: the scraper works on `Source` copies read when its run began and writes
  single columns back; the registry reads a row and writes the whole of it back.
* The outside: sources change shape and publish records at any time, an answer of
  LinkedIn may be lost, any call may raise, the process may restart.

### What is hard here

Interleavings of request threads over the watermark, the review dictionary and
the source rows; transactions that commit in another order than they numbered
their rows; a failure between moving the watermark and committing what it stands
for; a cursor compared under another plan than it was saved under; exceptions
that unwind a whole tree of deliveries; restarts that lose the in-memory parts;
a recorder that is emptied in the middle of a run; chains of four nodes and three
stores, each of which skips what it takes to be old.
`PROJECT.json` lists each hazard at its line with the properties that catch it.

## 2. Modules

| Module | Role |
|---|---|
| `Dispatch` | the kernel as an explicit call stack |
| `Pipeline` | abstract: records are stored, then in the graph, then shown |
| `Ingestion` | scraper's store step, builder and SQL stores under threads; implements `Pipeline` |
| `Scraper` | source selection, plan cache, pages, cursor, registry, ticks |
| `Gate` | abstract: drafted, waiting, released, delivered, or lost |
| `Review` | drafting, the queue's dictionary, the approval endpoint, publication; implements `Gate` |
| `Crawl` | frontier, visited set, budgets, stop reasons over any site |
| `Leads` | overlapping scans over boards, the store of seen postings, the errors of a scan |
| `Lists` | a finite set of positions in order, several sequences one after the other, without recursion |
| `Requests` | request threads, the recorder and replies; extended by the three below |
| `Tracking` | evidence, verdicts, the thesis tracker and the founder's notifications |
| `Billing` | subscription-manager over the client's ledger |
| `Extract` | pure: extractors, sentiment, upsert of entities, rollups |
| `Feeds` | scraper, builder and inferrer over the in-memory stores |
| `Server` | `Tracking`, `Billing` and `Feeds` composed: one process and its threads |
| `Boot` | builds of runtimes in one process, the venture page |
| `MC...` | the finite instances |
| `DispatchProofs`, `IngestionProofs`, `ScraperProofs`, `ReviewProofs`, `CrawlProofs`, `LeadsProofs`, `BootProofs`, `ServerProofs` | theorems |

Each concrete module has a block of operators "as a plausible bug would have
them". No action uses them; each is a defect that one of the properties must
notice, and `PROJECT.json` pairs it with that property.

### Dispatch

State and code: `stack` is the Python call stack. A frame is a `bus.publish` with
the handlers it has still to call (`events.py`), or a wrapped node
(`node.py`, `substrate.py`) that is running its `handle`, publishing what it
emitted, or re-raising. `events`, `rows` are the events created and the trace
rows written; `seen` is what raw observers got; `done` and `failed` record how
each outside publish ended. Actions: `Publish` (an outside event), `Invoke` and
`Observe` (the bus calls a node or a raw handler), `Handle`/`HandleRaises` with
`Capture` (the node returns or raises; in both cases the `finally` writes the
row and publishes `trace.captured`), `PublishNext`, `Return`, `Reraise`,
`ObserverRaises`. `Unwind` is an exception on its way up: no frame stops it except
the `finally` of a node, whose capture has already run.

The model has one thread: bus, runtime and recorder hold no state one run reads
from another. `NoSelfTrace` states the code's own condition that no node listens
to its own trace event; otherwise publishing would not end. `TraceRecorder.clear`,
which empties the list a client reads, is no action.

### Ingestion and Pipeline

A worker is a publishing thread; a run is one chain: the scraper opens
`upsert_many` (`OpenBatch`), draws a number and inserts row by row (`Insert`,
`Conflict` for a key that is committed already, which spends a number; a key
another open transaction holds makes the insert wait), commits
(`Commit`, `ScrapeDone`); the builder reads rows above the watermark (`ReadNew`,
or `ReadNothing`, the early return), then per row extracts and reads the
watermark (`Extract`) and stores the larger number (`Advance`): `max` over a
shared attribute is two steps. Then entities (`Look`, `AddEntities`: the code
selects, then inserts), edges (`AddEdges`), and the views (`Rollup`, a read, then
`WriteViews`). `Fail`, `ExtractRaises`, `EntityConflict` and `Deadlock` end a run
the way an exception does: open rows are rolled back, what was committed and the
watermark stay. `Crash` empties the process and resets the watermark.

Abstractions: a record's entities are a constant set (`EntitiesOf`); merging of
an entity's properties is left out; `views` stands for each of the builder's
three views, which are computed the same way; a second builder pass in one chain
is a run whose scrape found nothing.

`Pipeline` is the contract: three stages, rows move only forwards, entities
before edges, a view shows only its own venture's part of the graph.

### Scraper

`row` holds the source rows (imposed hint, enabled, cached plan, fingerprint,
cursor), `queue` the copies a run still has to visit. `Tick` and `Request` start a
run, `ListSources` is `list_enabled`, `Fetch` fetches the first page and resolves
the plan (hints, else the cached plan if the fingerprint is unchanged, else
inference; `FetchUnsure` is low confidence, which emits a question for hints and skips),
`FetchNext` follows the next-page token up to `MaxPages`, `StoreRecords` commits
what the cursor does not exclude, `SaveState` writes cursor, plan and
fingerprint. What a run emits is only buffered (`outbox`): the runtime publishes it when
`handle` has returned (`node.py:116-120`), which is `Finish`, and only then has anybody
been `asked`; `FetchRaises` and `Fail` end the whole run and drop it. `Register`, `EnrichRead`
and `EnrichWrite` are the registry. `PublishRecord` and `Drift` are the outside.

The cursor arithmetic is the code's: `RawTs` is the number or text the plan's
field holds, `UtcTs` the datetime the code compares, `Skips` compares as Python
does (numbers with numbers, text with text; a mixed pair raises, is caught and
skips nothing), and `NewCursor` keeps the largest of one kind. Units are part of the value, so a cursor in
milliseconds is larger than a later time in seconds.

Abstractions: a plan is only how its timestamp field is written; fields always
exist in the records of their shape; a source keeps its shape while one walk is
on its pages; a registry request names one source; `Crash` restarts all threads. That
a handler which raises on one published emission drops those behind it is the kernel's
matter (`Dispatch`): `Finish` publishes all of them.

### Review and Gate

`Draft` is a run whose node emits a batch; `Park` is the queue's `handle` storing
the head of the batch in `_pending`, `Notify` the end of that delivery, `Unheard`
an event the queue is not subscribed to or that is not tagged. `Approve` is the
endpoint receiving a request, `Look` the start of `pending()`, `Found` its end with
the lookup of the correlation id, `LookRaises` the `RuntimeError` Python
raises when the dictionary changed size under the iteration. `ApproveDirectly` is
`review.approved` on `/api/publish`, with a chain of its own. `Resume` pops the item
and publishes the result; `ResumeNothing` is the branch for an unknown id.
`Publish` and `PublishUnanswered` are post-scheduler with and without an answer of
LinkedIn. `Fail` ends a run, `Crash` the process: `_pending` is lost.

An item is a model value with an event type; a text is what a person typed over
it. The queue's choices depend on nothing else of the payload. It decides by type,
not by tag: of the tagged events those of a type in its result map are `Parkable`, and
`NoneForgotten` is about these; of the others see the limits in section 3.

`Gate` forgets threads, dictionary and endpoint: each item moves from drafted to
waiting to released to delivered, or is lost before delivery, never twice.

### Crawl

The loop of `CrawlAgent.crawl`. `frontier` is the heap as a set: entries differ in
their counter, so `Best` (highest score, then oldest) is what `heappop` returns.
The checks at the head of the loop are actions of their own (`FrontierEmpty`,
`OutOfPages`, `OutOfTime`); `PopVisited` is `continue` on a visited URL, `Pop` marks
it. `Scrape` is the rest of an iteration: the goal absorbs the page, the crawl ends
or, above the depth limit, the ranked links are pushed; `ScrapeRaises` swallows the
failure. `fetched` counts the fetches of each URL, failed ones included: `visited` holds
what was popped, `pages` what was scraped, and neither tells how often a page that
fails is asked for. `Pass` lets time go by while a page is fetched.

Abstractions: the site is any of `Sites`; `Host` is `netloc`; a link's score depends on
its URL (`Score`) less a cost per level, where the code also reads the link's text;
a goal is the set of pages it can use and how many it wants: one page with an
email address for the contact goal, `min_matches` for the keyword goal. The pruning
floor is a number; `None` is a floor below every score. A page's reported URL is the
one asked for. The scraping client's own work is `Scrape` or `ScrapeRaises`.

### Leads

A thread is at a scan: `Search` is `search_postings` beginning (it empties
`last_errors`), `FetchBoard`, `UnknownAts`, `FetchRaises` and `NormalizeRaises` one
round of its loop over boards, `Pass`, `New` and `Mark` one round of the loop over
postings, where the store's `seen` and `mark_seen` are two steps, `NextBoard` and
`SearchDone` the loop's ends. `Report` is the end of the node: leads with the client's
`last_errors`. `List` is a company putting a posting online, `Restart` empties the
in-memory store. `own`, `alone`, `reported` and `lost` only record what happened.

Abstractions: the criteria are fixed (`Matching`, `Limit`); a posting is its URL, and
`Keyed` are those that have one; grouping by company and enrichment, each call of
which has a try of its own, are one step that cannot fail. `NormalizeRaises` is a
payload that is JSON but not of the expected form: normalisation stands outside the
try of the fetch, so it ends the scan although the class promises that a bad board
is skipped and recorded.

Known limits, which the properties state exactly: two overlapping scans can both
report a posting, and either can report the other's failures, so `NeverAgain` and
`OwnErrors` speak of a scan beside which no other was active. A posting without a URL
is never remembered and takes one of the limit's places in every scan; if there are
`Limit` of them in front, `EveryMatchReported` fails.

### Requests, Tracking, Billing, Feeds and Server

`Dispatch` shows what a publish does call by call. `Requests` keeps of it what
follows: a synchronous, depth-first publish is the sequence `todo` of deliveries
still to be made, and a handler that returns puts the deliveries of what it emitted
in front. Several threads do this at once over shared nodes, so a handler that
touches shared state more than once has an action for each touch, with what it
remembers in `loc`. `Publish` is `/api/publish`, `/api/tick` or a turn of the
auto-ticker, `Reset` empties the recorder, `Reply` builds the chain of the answer
from what the recorder then holds (`BuildChain`). `Raise` is an exception: the row is
written, the rest of the run is dropped, the client sees an error.

* `Tracking`: `React` is any of the stateless nodes with any answer its model or
  platform may give; `TrackerWrites` and `TrackerAnnounces` are the two halves of
  thesis-tracker's handler (it announces what it reads back), `NotifierPosts` and
  `NotifierMails` the two channels of founder-notifier.
* `Billing`: `TakeId`, `Create`, `Remember`, `Charge` are `_activate` with the client's
  calls taken apart; `Forget` and `Cancel` are `_cancel`.
* `Feeds`: `Claim` and `Store` are the two halves of the in-memory `upsert_many`;
  `BuilderRead` to `Refresh` are the builder's handler; `Infer` reads the views and
  emits an insight and a verdict for each lead and risk. What is extracted and rolled
  up is `Extract`: aliases of fields in order, nested values, blank names, ratings
  (numbers, or text that reads as one) before words, edges to the dimensions a record
  names. The canned reasoner has no view but its rows as Python prints them, and looks
  for companies with a pattern (`registry.py:512`): `Found` is what it finds. A name
  with an apostrophe is printed in double quotes and not found (`Quoted`, a constant);
  a name with a character that printing escapes is found as it is written (`Written`,
  the names for which that differs).

Abstractions: an event is its type, whom it is about and what it says; `source-registry`,
the review flow and lead generation have modules of their own and no request of
`Server` reaches them; plans of the feeds are snapshots; each of `read_since`,
`upsert_entities`, `upsert_edges` and the computing of the rollups is one step, and
the three rollups are computed from one state of the graph; extraction does not raise
(`Ingestion` has that branch, `ExtractRaises`, for records whose values the extractor
chokes on; the feeds of `Server` hold none). A number the fake ledger
gives out is the one-element sequence that holds it, and `NoId` the empty one. `overlapped`,
`strayed`, `superseded` and `dropped` only record what happened: the properties name with
them the cases in which the code keeps no promise (two threads may store a record twice,
and leave a row out of the views the way the SQL stores do; a builder that takes up rows
of a venture other than its event's moves the watermark past them and refreshes the
views of the event's venture only; a second subscription hides the first; two threads
may be given one number by the fake ledger; a cancellation that raises has already
forgotten the customer).

### Boot

`env` is the environment, `global` the registry's `_INGESTION_STORES`, `building` the
build under way, `runtimes` those built, `app` the dev server's module. A build
starts (`ImportApp`, or `BuildAnother` for a demo or a test), resolves its stores
(`ResolveStores`: with `DB_URL` set this replaces the global bundle once already),
resets the bundle (`ResetStores`) and then builds and registers node after node
(`Register`), each wired to what `global` holds at that moment, until a factory raises
(`Refuse`) or the runtime is returned (`Finish`). `Places` are the positions of a file's specs in
order, `Firsts` those the loader keeps (the first of each name) and `NodeSpecs` what is
built from them. `Factory` is the registry: what each
factory makes of `canned`, `live`, `impl` and the keys of the environment. `Describe`,
`FunctionView`, `Lint` and `Mode` are what the venture page and the badge are
computed from.

A store is a number and whether it is over the database: two stores over one
database share their rows, two in memory do not. Builds do not overlap: they run at
import or in a test's own thread. Of an agentic node only the gateway matters that
it was given.

## 3. Runs

| Run | Instance | Shows |
|---|---|---|
| `dispatch` | the venture's four ingestion nodes, a wildcard and a trace handler, two outside events in a row, every choice of emissions, four fallible handlers | delivery order and uniqueness, trace before delivery, a publish that returned was heard in full, fail fast, nothing swallowed, every publish ends |
| `ingestion_serial` | one thread, one venture, three records of which two share a company, one restart | the builder loses nothing, views stay current, every row is shown at last |
| `ingestion_threads` | two threads, two ventures, all faults, a poison record, a restart, `MaxSeq` 3 | what survives everything: the promises of `Pipeline` |
| `ingestion_commit_order` (violated) | two threads, no fault | `NothingSkipped` fails: numbers are drawn in one order and committed in another |
| `scraper` | two threads, one source that changes from epoch seconds to ISO dates, page size 1, one fault or restart, two edits | the cursor never hides a record that is not stored; a reused plan fits its fingerprint |
| `scraper_fair` | two sources, the last unreachable, drift, an unsure model, one fault or restart, one edit | every record is stored at last, or the question about its source was published, or cannot be because of the unreachable one |
| `scraper_drift` (violated) | one source, milliseconds then seconds | `CursorCovers` fails |
| `review` | two threads; a post, an untagged draft, a run with two pitches; edits, early, double and direct approvals; one fault | one place, nothing forgotten, as approved, threaded; implements `Gate` |
| `crawl` | 36 sites of four pages and one elsewhere, three pages, two levels, two units of time, any page failing or slow | no URL fetched twice, scraped or failed, no link forgotten, a true stop reason; every crawl ends |
| `leads` | two threads, three boards of which one is of an unknown kind, a limit of two, a posting without a URL, one failing call or restart | nothing reported twice by scans that ran alone, nothing hidden, own errors; every match is reported at last |
| `server` | two threads in thirteen scenes of at most two requests: evidence for and against, campaigns, posts, transcripts, subscriptions that come, come back and go, ticks over three feeds of two ventures, a tick of one venture beside records announced in the other, resets; one failing call | a reply is its run; what the tracker believes and the feeds say has reached the founder; no subscription out of reach, one charge each; distinct numbers, no dangling edge; every request ends |
| `boot` | three builds, six venture files, two of them broken, eight environments, the app's import at any place | one bundle per runtime, the app reads its nodes' stores, a true venture page, live reasoners are real, a badge that says fake is true |

The violated runs are recorded as findings with the sentence of the
repository they contradict. They are assumptions of the passing runs turned
round: `ingestion_serial` needs one thread, one venture and no failing call because of
the commit order and of the limits below; `scraper` uses a drift from numbers
to dates because a drift of units is the other finding. The same property holds in one
and fails in the other, so neither verdict is an accident of the model.

### Limits of the code, as TLC shows them

More sentences of the repository fail where a passing run's instance is widened, or
where a property is asked without its exception. Each has a configuration that shows it
(`tlc -config <name>.cfg <module>.tla` ends in a violation), but no standing run.

| Configuration | Module | Violated | What the code does |
|---|---|---|---|
| `ReviewQuestion` | `MCReview` | `TaggedIsParked` | The queue reacts to the types of its result map (`human_review_queue.py:73`), which are `post.drafted` and `pitch.drafted` (`registry.py:343-346`): a tagged `source.inference.low_confidence` is delivered to nobody. `new_docs/layer1-nodes.md:246` has the queue react to "any event tagged `requires_human=true`", `:382-383` has this one "parked by the existing `human-review-queue`". `NoneForgotten` is therefore about the types subscribed to. |
| `ScraperUnasked` | `MCScraper` | `DoubtIsAsked` | `ctx.emit` buffers the question (`source_scraper.py:145`); a later source of the loop that raises (`:89`, `:106`) ends `handle` before the runtime publishes it (`node.py:116-120`), on every tick, although `layer1-nodes.md:381-382` has it emitted "when unsure and no hints exist". `EveryRecordStored` names the case (`Unaskable`). |
| `BootBadge` | `MCBoot` | `BadgeHonest` | `_lead_sourcer` looks at `canned` first (`registry.py:179`), `runtime_mode` at `live` only: with `canned: false` and `live: true` the badge says live over the fake job-board client. `topology.py:71-75` calls it "Derived honestly", `registry.py:164-167` says "if live, always real". `BadgeTells` is the half that holds, of a badge that says fake; `LiveIsReal` is about the reasoners. |
| `ServerQuoted` | `MCServer` | `EveryCompanyTold` | The canned reasoner looks for `'company':\s*'([^']+)'` (`registry.py:512`) in the printed rows; Python prints a name that has an apostrophe in double quotes, so it gets no lead, although `:465` says "any company appearing in the open-roles section". `EveryLeadTold` leaves such names out, and asks for others as the reasoner reads them. |
| `IngestionUpsert` | `MCIngestion` | `NothingSkipped` | The watermark is moved (`knowledge_builder.py:326`) before the entities are committed (`:328`): after one failed upsert the rows of the batch stay out of the graph until a restart, although `sql_stores.py:8-9` calls the builder's re-runs safe. |
| `IngestionVentures` | `MCIngestion` | `ViewsCurrent` | Rows of every venture are folded in, only the event's venture has its views refreshed (`knowledge_builder.py:330`), and the other's next run finds nothing new. |
| `ScraperOffset` | `MCScraper` | `CursorCovers` | An ISO cursor is saved as the source wrote it (`source_scraper.py:289`) and compared with a UTC date. |
| `ScraperPages` | `MCScraper` | `CursorCovers` | The page limit (`source_scraper.py:205`) ends the walk from new to old in the middle, the cursor is saved as the newest timestamp, and the pages below are never read again. |

Two more were seen with TLC:
* with a tick that carries the name of a venture file (`postlineai-live`) in `server`,
  the scraper finds no source: the auto-ticker (`app.py:379`) ticks with the file's
  name, while file, sources and endpoints say `postlineai`, so with that file
  the flywheel does not run "without a manual /api/tick call" (`app.py:363-364`);
* with the unreachable source before the other one in `scraper_fair`,
  `EveryRecordStored` fails: a fetch that raises ends the loop over sources.

### Bounds, and why they are enough

* `Roots` (runs of the kernel): two, so that a run after a returned and after a
  raised one is seen. Runs share no state, so a third repeats the second.
* Three records: two in one batch that share an entity, one that comes late or
  belongs to another venture. Two threads: every race above is between two.
* `MaxSeq`: the sequence values handed out, with gaps from conflicts and
  rollbacks; 5 leaves two gaps for three records, 3 in the two-thread run lets
  the cluster run dry, which only stops scraping (the safety is about prefixes).
* `MaxCrashes` and `MaxFaults` 1: a second restart finds the same kind of state
  as the first. `MaxClock`, `MaxEdits`: two publications and two edits suffice
  for an overwritten cursor. `MaxPages` 2 with pages of 1 or 2 reaches the limit.
* Symmetry is declared only for threads, in runs without liveness.
* `Crawl`: three pages with two levels let a crawl run out of pages, of depth, of
  links and of time; the sites have circles, two links to one page, ties in the
  score, a link below the floor and one to another host that links back.
* `Leads`: a limit of two with three matching postings cuts scans short; one board
  fails always, another may fail once.
* `Server`: each scene brings together requests that share state: two writers of one
  assumption, two activations, an activation and a cancellation, two ticks of one
  venture, a reset beside a run. A third thread or request repeats one of these
  pairs. The feeds list a job of each of the two shapes the aliases are for, a
  rated and an unrated review, a rating written as text, a company whose name Python
  prints in double quotes and one whose name it escapes, and a record that appears later.
* `Boot`: with three builds the app's comes before, between and after others; the files
  hold each combination of `canned`, `live` and `impl` a factory distinguishes, a node
  in two functions with two configs, a factory that raises, a name nobody has, and a
  lead-sourcer live in one function and bare in another.
* `CHECK_DEADLOCK FALSE` appears in `Dispatch.cfg`, where the system stops when the
  runs of `Roots` are over, in `Crawl.cfg`, where the crawl is done, and in
  `Server.cfg`, where every request has been served. The others always have a next
  tick, request or change of the environment.
* `TypeOK` of `Leads` is no property of a standing run and not proved (its walk over the
  postings is a fold). It holds in the `leads` instance; to see it, add
  `INVARIANT TypeOK` to its cfg.

### Fairness

* `Dispatch`: weak fairness of `Step`. It is one thread executing Python; it never
  waits for anything. New outside events are not fair.
* `Ingestion`: weak fairness of each worker's `Step` (the operating system
  schedules threads; database waits end by commit, rollback or deadlock abort) and
  of `Begin`: the auto-ticker keeps publishing `tick.daily`. The auto-ticker is
  opt-in (`FLYWHEEL_TICK_SECONDS`), so the liveness results speak of a server that
  runs it.
* `Scraper`: as above, but strong fairness of `Tick`: the ticker has a thread of
  its own and cannot be kept from ticking by requests on other threads, whereas in
  the model a worker that is busy disables it again and again. People, faults and
  sources are not fair.
* `Crawl`: weak fairness of `Step`: one thread runs the loop, and every request ends by
  its timeout. `Pass` is not fair.
* `Server`: weak fairness of each thread's `Step`: the interpreter lets threads take
  turns. New requests are in the scenario from the start.
* `Leads`: weak fairness of each thread's `Work`, and of `Search`: somebody keeps
  asking for leads. Nothing in the repository asks by itself, so
  `EveryMatchReported` speaks of a venture that goes on using the search.

## 4. Proofs

TLAPS checks the following for every value of the constants that satisfies the
named assumptions of the modules.

`DispatchProofs`
* `TypeCorrect`: types of the kernel's state with `Linked`: no id points outside the
  events, and all frames of the stack serve one outside event that has not
  ended. Without `Linked` the type invariant is not inductive, because `Capture`
  indexes `events` by what a frame holds.
* `FailsFast` and `NothingSwallowed`: the invariant is `Accounted`: every error row
  belongs to a run that failed or is failing, a failing run has a re-raising frame
  on its stack, and nothing can be above such a frame except the publishing of its
  own trace to observers (`RaiseNearTop`).
* `SafeDeliveredOnce`: no handler gets an event twice, under the assumption
  `SubscribedOnce` (no handler is listed twice for what one publish calls; the loader
  registers each node name once, `schema.py:57`, which `Boot` models). The invariant
  `Once` is about everything still to be done: nobody was given an event that waits in
  a frame, or an event by a handler its publish has still to call (`Fresh`), and no two
  frames have the same thing still to do (`Apart`). An event therefore moves once
  from the list it waits in to its publish, and from there to each handler.
* `SafeTracedBeforeDelivered`: the invariant `Traced` says of every event created inside
  a run that its row is written, in the same run, and lists it (or the event is that
  row's own trace event), and that rows it triggered come after that row.
* `SafeSiblingsWait` and `SafeCompleteOnReturn`, both under `SubscribedOnce`: what a
  sibling does not overtake, and what is done when a publish returns. The invariant
  `Depth` counts what is owed. `Unforgotten`: a subscriber of an event has been given
  it, or a frame of the stack owes it to him, in every run that has not failed. `Nested`: what
  followed from the rows below a publish is done or owed by frames *above* that publish,
  so that it is done when the publish is on top again. `Called`: a handler that runs was
  called by the publish below it. `Waited` is `SiblingsWait` itself, with what nodes and
  observers were told in one set (`Told`). `Nested` is what makes it inductive: when a second
  row for one event is written, everything after the first has left the stack.

`IngestionProofs`
* `TypeCorrect`, and `Refinement`: `Spec => ImplementsPipeline` for any number of
  threads, records and ventures, every fault, poison set and restart.
* `DistinctSeqs`, `ImmutableRows`, `WatermarkOnRow`: the invariant `Drawn` (a
  number drawn from the sequence is on at most one row, committed or in one open
  transaction, and at most the last one drawn) and `Grounded` (each value on its
  way into the watermark is a committed row's).
* `NothingSkippedSerially`, `WatermarkAdvancesSerially`: the two halves of the
  builder's promise under the assumption `OneCarefulWorker` (one thread, and no
  failure between the watermark's update and the edges). `ingestion_commit_order` and
  `IngestionUpsert` (section 3) show that the assumption cannot be dropped; every other fault is allowed.
* `ViewsCurrentSerially`: the views cover the graph whenever the builder rests, under
  `OneVentureAtATime` (one thread, one venture, no failure from the first row passed to
  the commit of the views). The invariant `Shown` says what the views and the rows still
  in the builder's hands cover between them, and that what is about to be written is
  the whole graph. With two ventures it is false: `IngestionVentures` (section 3).

`ScraperProofs`
* `TypeCorrect` with `Occupied`: a thread that walks pages, saves or enriches is at a
  source.
* `SafePlanFitsShape`: the invariant `Fitting` says it of the rows, of every copy a
  thread holds and of what a thread is about to save. A copy written back by an
  enrichment may be old, but plan and fingerprint are old together.
* `SafeCursorCovers`, under `Orderly`: the source publishes in the order of its
  timestamps, writes dates in UTC and counts in one unit, and has no more records than
  the page limit admits. Each of the four is needed: TLC refutes `CursorCovers`
  without the first (`InOrder = FALSE` in `scraper`), and `scraper_drift`, `ScraperOffset` and
  `ScraperPages` (section 3) show it for the others. The invariant `Covering` has a
  part about cursors (`Covered`: an absent cursor, or the timestamp of a published
  record with everything not later stored), of rows and of all copies, and one about the
  walk (`Walk`): what was not seen is either later than all that was seen or, while there is
  a next page, older (`Whole`), and as many full pages were seen as were fetched, so
  that the limit never cuts a walk short. So a stale copy that a second thread saves puts
  the cursor back, never forward over something missing.

`ReviewProofs`
* `TypeCorrect` with `Clean`: a thread that notifies is at an event, one that resumes
  is at an item, and no run delivers an event twice.
* `HeldInOnePlace`, `NeverPostedTwice`: the invariant `Place` adds to `OnePlace` what
  is in a thread's hands: nothing released before the queue, only released
  items before LinkedIn. The argument is
  that `pop` is atomic in CPython: only one thread gets an item out of the
  dictionary, and nothing puts it back.
* `OnlyApprovedPosts`, `ResumesThread`: the invariant `Chained` of where an approval
  stands: as long as an item that was parked when its approval arrived is still in
  the queue, the look finds its correlation id, whatever other threads do to the
  dictionary in between; if it has gone, there is nothing left to resume.
* `TaggedNotForgotten`: nothing tagged and of a type the queue subscribes to
  disappears without a fault, without any assumption on the items. What a step takes out
  of a thread's hands or out of the dictionary it puts into another place, or counts as lost.
* `Refinement`: `Spec => ImplementsGate`.

`CrawlProofs`, for every set of sites, goal and budgets
* `TypeCorrect`: the frontier needs that a page has a finite number of links, so that
  their ranks are numbers.
* `StaysHome`: the invariant `OnSite` says it of the frontier as well; the check
  compares a link with the page it is on or with the seed, and by induction these
  are the same host.
* `NeverTwice`, `BudgetsKept`: the invariant `Bounded` (what was fetched, scraped or
  not, is among the visited; the page about to be fetched never was before, and there is
  budget to spare for it).
* `ReasonsAreTrue`: the invariant `Unfinished`: until the crawl is done the goal is not
  met, because it is asked after every page.
* `NothingForgotten`: a link leaves the frontier only into `visited`.

`LeadsProofs`, for any number of threads, boards, postings and faults
* `SafeNeverAgain`, `SafeNothingHidden`, `SafeOwnErrors`: the invariant says that an idle
  thread holds nothing (`Rested`), that the store has every keyed posting that is held or
  was reported (`Stored`), and what it means that a scan is marked alone (`Alone`:
  nobody else is active, what it is about to keep is not in the store, and the client's
  errors are those of its own searches). The three properties need each other's parts:
  a posting is new to the store only if no scan holds it.

`BootProofs`, for every set of venture files, functions, environments and any number
of builds
* `SafeOneBundle`: the invariant says of each runtime finished that all its nodes are
  wired to one bundle, of the runtimes that the memory stores of their bundles differ,
  and of the one under way that its nodes are wired to `global`, whose memory stores
  no finished runtime has. The last is what fails if a build keeps an old bundle.
* `SafeAppReadsItsNodes`: from the same invariant, with what it says of the app: its
  bundle is the one its runtime's nodes are wired to, and no later step changes it.
* `SafeLiveIsReal`, `SafeBadgeTells` and `SafeViewTrue`: the invariant `FileInv` says of a runtime that its
  nodes are, one by one, made from the first specs of its file with each name
  (`Complete`), of the one under way that it has made a beginning of them and still
  holds the rest (`Halfway`), and that its bus holds what these nodes subscribe to, each
  once and in order (`Brought`). The work is in the lemmas about `NodeSpecs`: it holds
  every name of the file once, whatever its functions repeat, so a lookup by name finds
  the node built. They rest on the positions of a file being finite and linearly
  ordered; `NodeSpecs` picks them by rank instead of by recursion for their sake.
  Assumed of the constants: files and reactions are finite lists
  (`FilesAssumption`, `ReactsAssumption`, the latter without repetition, as a node
  class declares a type once), and an environment selects a file there is.

`ServerProofs`, for any number of threads, scenarios, sources and feeds
* `SafeRowsSound`: the invariant `Numbered` (a number that was taken is at most
  `seq`, and on one row, stored or in one thread's hands), `Unique` (unless two
  threads were in the nodes at once, no key is stored twice and a row in hand has a
  new one), `Apart` (two threads inside the nodes have been noticed) and `Placed`
  (a row in hand is that of a thread running source-scraper). Only `Claim` and
  `Store` touch the rows; every other step of every node is `Quiet`. The model
  takes from CPython that no thread switch falls between the look at the keys and
  the new number: no call lies between them in `upsert_many`.
* What the others rest on is `Shaped`: deliveries still to be made are of events of
  their run, created by its thread, in a venture there is and about a customer where
  billing needs one (`Queued`); what a handler remembers between two steps has the
  form its next step reads (`Remembered`, one case for each place); the graph and the
  views stay finite (`Finite`). Assumed: `ScenariosAssumption` and `CustomersAssumption`,
  which say only that requests are made in a venture and by a customer there is.
* `SafeNoDanglingEdges`: the invariant `Linked` follows facts from `Extract` to the
  graph: once a builder has written its entities, the ends of the edges in its hands
  are in the graph, and nobody takes an entity out. That an edge has its ends among the
  entities it was extracted with is proved of both extractors.
* `SafeBeliefTold`: the invariant `Believed`: a belief that is not `untested` is told, or
  lost with a delivery that raised, or a thread is about to announce it, or an event
  with it waits for founder-notifier (`Backed`). The difficult step is the announcement
  by a thread that reads back what *another* wrote: it announces that one's belief,
  not its own.
* `SafeSubscriptionsHeld`: the invariants `Booked` (the form of the ledger's records, and
  an activation under way has a number) and `Held`: each subscription is kept (`Kept`,
  the cases of the property) or a thread is about to remember or to cancel just that one.
* `SafeChargedOnce`: the invariant `Balanced`, of each customer: payments plus the charges
  threads still have to make are at most the subscriptions created, and these at
  most that sum plus the requests that failed. `LostOnce` says that a delivery lost to
  a raise is not delivered again, so that each failed request counts once.
* `SafeReplyTrue`: the invariant `Traced`: of a run under way, that each row was caused by
  its first event or by one that an earlier row lists (`Chained`), that the deliveries
  left are of that event or of one a row lists, and that its ids were given out by its
  thread (`Following`); and that the recorder holds, under the run's id, the tail of the
  rows the run wrote, all of them unless it was emptied meanwhile (`Recorded`).
  `Replied` is the property, of every answer given so far.
* `SafeEveryLeadTold`: the invariant `Followed` says, of runs that were never overlapped
  nor strayed, where a row with a lead is. Past the watermark: knowledge-builder is called
  in its venture or will be, by the scraper at work or by a delivery on its way, or that
  was lost to a raise (`Awaited`). Behind it: in the graph with its company, or among the
  entities a builder is about to merge (`Graphed`); and in the views of its venture, or a
  builder is on its way to refresh them (`Viewed`). For the builder's part it says what
  is in its hands at each place (`Builds`): all rows past the watermark, then all their
  jobs, while the new watermark is past every row; for the scraper's (`Gathers`), that its
  records are of its event's venture and its row in hand is not behind the watermark yet.
  The second invariant, `Sent`, takes a company from the views to the founder, whatever
  overlaps. `Solo` is why calm is enough: whoever is inside the nodes is alone there, so
  no row arrives between the reading and the new watermark. Equal keys are equal rows
  (`Unique`), so no later entity overwrites the company of a job. Assumed:
  `FeedsAssumption`, that sources and feeds are lists and that a record carries the
  venture of its source, as `_collect_records` gives it (`source_scraper.py:197`), and
  `ReprAssumption`, that no escaped name is written as the empty one or as `(unknown)`.

Only model-checked: the liveness properties (`PublishEnds`, `EveryRowShown`,
`EveryRecordStored`, `CrawlEnds`, `EveryMatchReported`, `RequestsEnd`),
since TLAPS has no rules for fairness here; `ViewsCurrent` and `NothingSkipped` where
several threads or ventures are at work, because there they are false in the code (the
findings and limits of section 3). `TypeOK` of `Dispatch`, `SeqsDistinct`, `ImmutableRows`,
`WatermarkOnRow`, `WatermarkAdvancesSerially`, `NeverPostedTwice`, `StaysHome` and
`BudgetsKept` are proved and need no run.

## 5. Not modelled

* Prompts, wording, scoring and normalisation of text beyond the choices that
  `Extract` makes: data no property here tells apart.
* Leaf clients: pure I/O, or fakes of it with a list. A call is answered in any way its
  type allows, or raises.
* `input-intake`, `company-needs-analyzer` and the body of a pitch: one event in, one
  out, no state; what matters of them is the kernel's delivery.
* The extractor cache of knowledge-builder: only an enrichment that changes the kind of
  a source beside a running builder would show it.
* The read-only endpoints, the topology document, schema migrations, the front end:
  they change nothing.

Seen while reading, with no property of its own: a source-scraper with
`canned: false` gets an `LLMInferencer` whose default gateway is the fake one
(`core/inferencer.py:182-186`), although `registry.py:408-410` speaks of real runs.

## 6. Plan

Done: `Dispatch` with proofs; `Pipeline`/`Ingestion` with proofs; `Scraper` with
proofs; `Gate`/`Review` with proofs; `Crawl` with proofs; `Leads` with proofs;
`Requests`/`Tracking`/`Billing`/`Extract`/`Feeds`/`Server` with proofs; `Boot` with
proofs.

Next, in this order:
1. An abstract specification of the lead scan (each matching posting is reported at
   most once, and once unless a scan raised) which `Leads` with one thread refines.
2. `Requests` as what `Dispatch` with one thread implements.

The number of runs stays small: a new module brings one passing run with its
invariants and its refinement, a finding's run only where a sentence of the
repository is contradicted, and a new run takes the place of one that says less.

## 7. Running

    tlc -workers 2 -config Review.cfg MCReview.tla
    tlapm ReviewProofs.tla

The longest passing runs take from one minute (`scraper`, `review`, `leads`) to three
(`server`, most of it for `RequestsEnd`); `ServerProofs` takes about seven.
