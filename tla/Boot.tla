-------------------------------- MODULE Boot ---------------------------------
(***************************************************************************)
(* Building runtimes from venture files, any number of times in one        *)
(* process: the dev server builds one when it is imported, demos and tests *)
(* build more.  The node factories take the three ingestion stores from a  *)
(* global bundle that every build replaces, so what a node is wired to     *)
(* depends on when it was built; the app keeps the bundle of its own build *)
(* for its endpoints.                                                      *)
(*                                                                         *)
(* Feeds and Server start where a build is over.                           *)
(***************************************************************************)
EXTENDS Integers, Sequences, FiniteSets, Functions

CONSTANTS
  Files,        \* the venture files
  FunctionsOf,  \* per file, its functions: sequences of node specs
  Envs,         \* environments: the venture selected and the variables set
  Reacts,       \* per node name, the events it subscribes to
  Emits,        \* per node name, the events it says it emits
  MaxBuilds     \* bound: builds started

\* A file is a list of functions, a function a list of specs.
Listed(s) == Len(s) \in Nat /\ DOMAIN s = 1 .. Len(s)
ASSUME FilesAssumption ==
  \A file \in Files :
    /\ Listed(FunctionsOf[file])
    /\ \A k \in DOMAIN FunctionsOf[file] : Listed(FunctionsOf[file][k])
ASSUME EnvsAssumption == \A e \in Envs : e.venture \in Files

VARIABLES
  env,        \* the process environment, which a test may change between builds
  global,     \* registry._INGESTION_STORES
  made,       \* store objects created so far
  building,   \* the build under way, if any
  runtimes,   \* those built: the file, the nodes, the bus
  app,        \* the dev server's module: its runtime, the bundle it bound
  begun       \* builds started

vars == <<env, global, made, building, runtimes, app, begun>>

Roles  == {"source", "raw", "knowledge"}
Store(db, n) == [db |-> db, n |-> n]

\* _IngestionStores(): three new stores in memory, or over the database.
NewBundle(db, n) ==
  [source |-> Store(db, n + 1), raw |-> Store(db, n + 2), knowledge |-> Store(db, n + 3)]

NoBuild == [pc |-> "none"]
NoApp   == [pc |-> "none"]
-----------------------------------------------------------------------------
\* A node spec: a name, and a config with some of the keys canned, live, impl.
Says(config, key, default) == IF key \in DOMAIN config THEN config[key] ELSE default

Canned(config) == Says(config, "canned", "true") = "true"
Live(config)   == Says(config, "live", "false") = "true"

\* Where the specs of a file are, function by function, and which comes first.
Places(file) ==
  UNION {{k} \X DOMAIN FunctionsOf[file][k] : k \in DOMAIN FunctionsOf[file]}
SpecAt(file, p) == FunctionsOf[file][p[1]][p[2]]
Before(p, q)    == p[1] < q[1] \/ (p[1] = q[1] /\ p[2] < q[2])

\* The first spec of each name.
Firsts == [file \in Files |->
  {p \in Places(file) : \A q \in Places(file) :
     Before(q, p) => SpecAt(file, q).name # SpecAt(file, p).name}]

\* Venture.node_specs: the first spec of each name, in the order of the file.
NodeSpecs == [file \in Files |->
  [k \in 1 .. Cardinality(Firsts[file]) |->
    SpecAt(file, CHOOSE p \in Firsts[file] :
                   Cardinality({q \in Firsts[file] : Before(q, p)}) = k - 1)]]

\* What a factory returns: how the node is made and the stores it takes.
Made(how, roles) == [ok |-> TRUE, how |-> how, roles |-> roles]
Raises           == [ok |-> FALSE, how |-> "", roles |-> {}]

\* _market_scanner, _pain_extractor and _signal_analyzer: a gateway with a
\* scripted answer, or the fake that returns schema defaults.
Scripted(config) == Made(IF Canned(config) THEN "scripted" ELSE "plain", {})

\* _post_drafter
Drafter(config) ==
  IF Says(config, "impl", "human") = "human" THEN Made("human", {}) ELSE Raises

\* _lead_sourcer: canned is read before live.
LeadSourcer(config) ==
  Made(IF ~Canned(config) THEN "plain"
       ELSE IF Live(config)
       THEN IF "FIRECRAWL_API_KEY" \in env.set THEN "ats+firecrawl" ELSE "ats+httpx"
       ELSE "scripted", {})

\* A plausible bug: without a key the scripted answer serves.
ReasonerLenient(config, roles) ==
  IF Live(config) /\ "OPENAI_API_KEY" \in env.set THEN Made("llm", roles)
  ELSE Made(IF Canned(config) THEN "scripted" ELSE "plain", roles)

\* _company_needs_analyzer, _pitch_generator and _insight_inferrer: live is read
\* first, and raises without the provider's key (_require_env).
Reasoner(config, roles) ==
  IF Live(config)
  THEN IF "OPENAI_API_KEY" \in env.set THEN Made("llm", roles) ELSE Raises
  ELSE Made(IF Canned(config) THEN "scripted" ELSE "plain", roles)

\* _source_scraper: a real client and a model, or the seed bodies.
SourceScraper(config) ==
  Made(IF Canned(config) THEN "scripted" ELSE "http", {"source", "raw"})

\* NODE_BUILDERS
Plain == {"thesis-tracker", "ad-campaign-runner", "ad-analytics-collector",
  "founder-notifier", "input-intake", "human-review-queue", "post-scheduler",
  "subscription-manager", "post-analytics-collector", "customer-survey"}
Demo  == {"market-scanner", "pain-extractor", "signal-analyzer"}
Known == Plain \cup Demo \cup
  {"post-drafter", "lead-sourcer", "company-needs-analyzer", "pitch-generator",
   "source-registry", "source-scraper", "knowledge-builder", "insight-inferrer"}

\* A node class, or the result map of the queue, lists an event once.
ASSUME ReactsAssumption ==
  \A n \in Known : /\ Listed(Reacts[n])
                   /\ \A i, j \in DOMAIN Reacts[n] : Reacts[n][i] = Reacts[n][j] => i = j

\* build_node
Factory(spec) ==
  CASE spec.name \in Plain -> Made("plain", {})
    [] spec.name \in Demo  -> Scripted(spec.config)
    [] spec.name = "post-drafter" -> Drafter(spec.config)
    [] spec.name = "lead-sourcer" -> LeadSourcer(spec.config)
    [] spec.name \in {"company-needs-analyzer", "pitch-generator"} ->
         Reasoner(spec.config, {})
    [] spec.name = "insight-inferrer"  -> Reasoner(spec.config, {"knowledge"})
    [] spec.name = "source-registry"   -> Made("plain", {"source"})
    [] spec.name = "source-scraper"    -> SourceScraper(spec.config)
    [] spec.name = "knowledge-builder" -> Made("plain", Roles)
    [] spec.name \notin Known -> Raises
-----------------------------------------------------------------------------
Init ==
  /\ env \in Envs
  /\ global = NewBundle(FALSE, 0)
  /\ made = 3
  /\ building = NoBuild
  /\ runtimes = <<>>
  /\ app = NoApp
  /\ begun = 0

\* A test changes the environment.
SetEnv ==
  /\ building = NoBuild
  /\ env' \in Envs
  /\ UNCHANGED <<global, made, building, runtimes, app, begun>>

Begin(file, who) ==
  /\ building = NoBuild
  /\ begun < MaxBuilds
  /\ begun' = begun + 1
  /\ building' = [pc |-> "stores", who |-> who, file |-> file]
  /\ UNCHANGED <<env, global, made, runtimes>>

\* The app's module is imported: build_runtime of the venture selected.
ImportApp == app = NoApp /\ Begin(env.venture, "app") /\ app' = [pc |-> "importing"]

\* A demo or a test builds a runtime of its own.
BuildAnother == \E file \in Files : Begin(file, "other") /\ UNCHANGED app

Resolved(over) ==
  [pc |-> "reset", who |-> building.who, file |-> building.file, over |-> over]

\* resolve_ingestion_stores: with DB_URL set the global bundle is one over the
\* database already here, and the build is told to keep its stores.
ResolveStores ==
  /\ building.pc = "stores"
  /\ IF "DB_URL" \in env.set
     THEN /\ global' = NewBundle(TRUE, made)
          /\ made' = made + 3
          /\ building' = Resolved({NewBundle(TRUE, made)})
     ELSE /\ building' = Resolved({})
          /\ UNCHANGED <<global, made>>
  /\ UNCHANGED <<env, runtimes, app, begun>>

Wiring(specs, nodes, bus) ==
  [pc |-> "nodes", who |-> building.who, file |-> building.file,
   specs |-> specs, nodes |-> nodes, bus |-> bus]

\* A plausible bug: fresh stores only for the first build.
ResetOnce ==
  /\ building.pc = "reset"
  /\ IF begun = 1 THEN global' = NewBundle(FALSE, made) ELSE UNCHANGED global
  /\ made' = made + 3
  /\ building' = Wiring(NodeSpecs[building.file], <<>>, <<>>)
  /\ UNCHANGED <<env, runtimes, app, begun>>

\* reset_ingestion_stores: a new bundle, of new stores or of those handed over.
ResetStores ==
  /\ building.pc = "reset"
  /\ \/ building.over = {} /\ global' = NewBundle(FALSE, made)
     \/ global' \in building.over
  /\ made' = made + 3
  /\ building' = Wiring(NodeSpecs[building.file], <<>>, <<>>)
  /\ UNCHANGED <<env, runtimes, app, begun>>

\* build_node and Runtime.register: the next node, wired to the global stores,
\* is subscribed to its events.
Register ==
  /\ building.pc = "nodes"
  /\ building.specs # <<>>
  /\ LET spec == Head(building.specs)
         node == Factory(spec)
     IN /\ node.ok
        /\ building' = Wiring(Tail(building.specs),
             Append(building.nodes,
                    [name |-> spec.name, config |-> spec.config, how |-> node.how,
                     at |-> [r \in node.roles |-> global[r]]]),
             building.bus \o [k \in DOMAIN Reacts[spec.name] |->
                               [on |-> Reacts[spec.name][k], node |-> spec.name]])
  /\ UNCHANGED <<env, global, made, runtimes, app, begun>>

\* A factory raises: there is no runtime, and no app if this was its import; the
\* global bundle stays replaced.
Refuse ==
  /\ building.pc = "nodes"
  /\ building.specs # <<>>
  /\ ~Factory(Head(building.specs)).ok
  /\ building' = NoBuild
  /\ app' = IF building.who = "app" THEN [pc |-> "failed"] ELSE app
  /\ UNCHANGED <<env, global, made, runtimes, begun>>

\* The runtime is there; the app also binds the bundle that is global now.
Finish ==
  /\ building.pc = "nodes"
  /\ building.specs = <<>>
  /\ runtimes' = Append(runtimes,
       [file |-> building.file, nodes |-> building.nodes, bus |-> building.bus])
  /\ app' = IF building.who = "app"
            THEN [pc |-> "up", runtime |-> Len(runtimes) + 1, bundle |-> global] ELSE app
  /\ building' = NoBuild
  /\ UNCHANGED <<env, global, made, begun>>

Next ==
  \/ SetEnv \/ ImportApp \/ BuildAnother
  \/ ResolveStores \/ ResetStores \/ Register \/ Refuse \/ Finish

Spec == Init /\ [][Next]_vars
-----------------------------------------------------------------------------
\* Runtime.describe, as far as the venture page reads it.
Describe(r) == [n \in {r.nodes[k].name : k \in DOMAIN r.nodes} |->
                 [reacts |-> Range(Reacts[n]), emits |-> Range(Emits[n])]]

\* function_view
FunctionView(file, nodes) ==
  [k \in DOMAIN FunctionsOf[file] |->
    LET members == {FunctionsOf[file][k][i].name : i \in DOMAIN FunctionsOf[file][k]}
    IN [in  |-> UNION {nodes[n].reacts : n \in members \cap DOMAIN nodes},
        out |-> UNION {nodes[n].emits : n \in members \cap DOMAIN nodes}]]

\* A plausible bug: configs are compared within a function.
ConflictsWithin == [file \in Files |->
  {n \in Known : \E k \in DOMAIN FunctionsOf[file] :
     LET specs == FunctionsOf[file][k]
     IN \E i, j \in DOMAIN specs : /\ specs[i].name = n /\ specs[j].name = n
                                  /\ specs[i].config # specs[j].config}]

\* A spec whose config is not that of the first of its name.
Conflicts == [file \in Files |->
  {SpecAt(file, p).name : p \in
     {q \in Places(file) : \E f \in Firsts[file] :
        /\ SpecAt(file, f).name = SpecAt(file, q).name
        /\ SpecAt(file, f).config # SpecAt(file, q).config}}]

\* lint_venture
Lint(file, nodes) ==
  LET named == {SpecAt(file, p).name : p \in Places(file)}
      Emitted == UNION {nodes[n].emits : n \in DOMAIN nodes}
      Heard   == UNION {nodes[n].reacts : n \in DOMAIN nodes}
  IN [unknown |-> named \ Known, inactive |-> (named \cap Known) \ DOMAIN nodes,
      conflicts |-> Conflicts[file], orphans |-> Emitted \ Heard, external |-> Heard \ Emitted]

\* A plausible bug: the last spec of the name counts, not the one that is wired.
ModeLast(file) ==
  IF \E p \in Places(file) :
       /\ SpecAt(file, p).name = "lead-sourcer"
       /\ Live(SpecAt(file, p).config)
       /\ \A q \in Places(file) : SpecAt(file, q).name = "lead-sourcer" =>
            q[1] < p[1] \/ (q[1] = p[1] /\ q[2] <= p[2])
  THEN "live" ELSE "fake"

\* runtime_mode: the LIVE/FAKE badge.
Mode(file) ==
  LET specs == NodeSpecs[file]
  IN IF \E k \in DOMAIN specs : specs[k].name = "lead-sourcer" /\ Live(specs[k].config)
     THEN "live" ELSE "fake"

\* A plausible bug: the endpoints ask the registry when they are called.
AppStoresNow == global

\* The bundle /api/ingestion/... reads.
AppStores == app.bundle
-----------------------------------------------------------------------------
StoresOf(r) == UNION {Range(r.nodes[k].at) : k \in DOMAIN r.nodes}

\* The nodes of one runtime share one store of each role, and two runtimes of a
\* process share no store in memory, whichever builds failed half way and
\* whatever DB_URL was then (registry.py reset_ingestion_stores and the
\* factories, loader.py build_runtime_from_venture).
OneBundle ==
  /\ \A i \in DOMAIN runtimes : \A k, l \in DOMAIN runtimes[i].nodes :
       LET a == runtimes[i].nodes[k].at
           b == runtimes[i].nodes[l].at
       IN \A r \in DOMAIN a \cap DOMAIN b : a[r] = b[r]
  /\ \A i, j \in DOMAIN runtimes :
       i # j => \A x \in StoresOf(runtimes[i]) \cap StoresOf(runtimes[j]) : x.db

\* The endpoints of the app read the stores that the app's own nodes write,
\* whatever was built before the app's import and since (app.py _ingestion).
AppReadsItsNodes ==
  app.pc = "up" =>
    \A k \in DOMAIN runtimes[app.runtime].nodes :
      LET at == runtimes[app.runtime].nodes[k].at
      IN \A r \in DOMAIN at : at[r] = AppStores[r]

\* What the venture page says of a runtime is so: no node is missing; a conflict
\* is reported exactly for the nodes of which some function does not get the
\* config it asks for; the events a function takes in are those the bus brings
\* to its members, and brings once (view.py, node.py describe and register).
ViewTrue ==
  \A i \in DOMAIN runtimes :
    LET r    == runtimes[i]
        lint == Lint(r.file, Describe(r))
        view == FunctionView(r.file, Describe(r))
        Asked(k)  == Range(FunctionsOf[r.file][k])
        Brings(k) == {b \in DOMAIN r.bus : \E s \in Asked(k) : s.name = r.bus[b].node}
    IN /\ lint.unknown = {} /\ lint.inactive = {}
       /\ lint.conflicts = {r.nodes[n].name : n \in {m \in DOMAIN r.nodes :
            \E k \in DOMAIN view : \E s \in Asked(k) :
              s.name = r.nodes[m].name /\ s.config # r.nodes[m].config}}
       /\ \A k \in DOMAIN view : view[k].in = {r.bus[b].on : b \in Brings(k)}
       /\ \A b, c \in DOMAIN r.bus : r.bus[b] = r.bus[c] => b = c

\* A node of the outbound or the insight functions that was asked for live is the
\* model's: without its key the build raised, and no fake was put in its place
\* (registry.py _require_env and the three factories: "if live, always real").
LiveIsReal ==
  \A i \in DOMAIN runtimes : \A k \in DOMAIN runtimes[i].nodes :
    LET node == runtimes[i].nodes[k]
    IN /\ Live(node.config)
       /\ node.name \in {"company-needs-analyzer", "pitch-generator", "insight-inferrer"}
       => node.how = "llm"

\* The lead-sourcer a runtime has looks at real job boards.
Discovers(r) == \E k \in DOMAIN r.nodes :
  r.nodes[k].name = "lead-sourcer" /\ r.nodes[k].how \in {"ats+httpx", "ats+firecrawl"}

\* No runtime looks at real job boards under a badge that says fake, whatever the
\* other functions of its file ask for: the badge speaks of the spec that was wired
\* (topology.py runtime_mode, registry.py _lead_sourcer).
BadgeTells ==
  \A i \in DOMAIN runtimes : Discovers(runtimes[i]) => Mode(runtimes[i].file) = "live"

\* The badge of a runtime says live exactly when its lead-sourcer looks at real
\* job boards: "live (real ATS) ... Derived honestly" (topology.py runtime_mode).
\* The code breaks it where a lead-sourcer is asked for live and not canned
\* (README, section 3).
BadgeHonest ==
  \A i \in DOMAIN runtimes : Mode(runtimes[i].file) = "live" <=> Discovers(runtimes[i])
=============================================================================
