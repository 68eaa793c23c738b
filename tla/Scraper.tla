------------------------------ MODULE Scraper -------------------------------
(***************************************************************************)
(* source-scraper, source-registry and the source store: how a scheduled   *)
(* scrape resumes from the cursor the last one saved, while sources publish *)
(* records and change their shape, people enrich sources, other threads    *)
(* scrape the same sources, calls fail and the process restarts.           *)
(*                                                                         *)
(* A worker is a publishing thread.  The scraper works on copies of the    *)
(* source rows taken when its run began; the registry reads a row, merges  *)
(* what a person supplied and writes the whole row back.  A source lists   *)
(* its records newest first, PageSize at a time.                           *)
(***************************************************************************)
EXTENDS Naturals, Sequences, FiniteSets

CONSTANTS
  Workers,     \* threads that publish onto the bus
  Order,       \* the sources, in order of creation
  Registered,  \* those already in the database
  Records,
  SourceOf,    \* the source that publishes a record
  Zone,        \* per record, the UTC offset its source writes timestamps in
  PlansFor,    \* per shape of a response, the plans the model may infer
  Hints,       \* plans a person may impose
  Broken,      \* sources whose fetch always raises
  InOrder,     \* whether records appear in the order of their timestamps
  PageSize,    \* records on a page; all of them when the plan does not page
  MaxPages,    \* SourceScraper._max_pages
  MaxClock,    \* bound: timestamps
  MaxFaults,   \* bound: calls that fail once, and restarts
  MaxEdits     \* bound: requests to the registry

Sources == {Order[i] : i \in DOMAIN Order}
Shapes  == DOMAIN PlansFor

\* What an IngestPlan says of the timestamp: none used, or how it is written.
Formats == {"snapshot", "epoch_s", "epoch_ms", "iso8601"}
Unsure  == "unsure"   \* inferred with a confidence below min_confidence
NoPlan  == "none"     \* no plan cached, or no hints
NoPrint == 0          \* schema_fingerprint of a source never scraped

ASSUME RecordsAssumption ==
  /\ IsFiniteSet(Records)
  /\ SourceOf \in [Records -> Sources] /\ Zone \in [Records -> Nat]
ASSUME SourcesAssumption == Order \in Seq(Sources) /\ Registered \subseteq Sources
ASSUME PlansAssumption ==
  /\ PlansFor \in Seq(SUBSET (Formats \cup {Unsure}))
  /\ 1 \in Shapes
  /\ Hints \subseteq Formats
ASSUME BoundsAssumption ==
  /\ PageSize \in Nat \ {0} /\ MaxPages \in Nat \ {0} /\ MaxClock \in Nat
  /\ MaxFaults \in Nat /\ MaxEdits \in Nat
  /\ InOrder \in BOOLEAN

VARIABLES
  \* at the sources
  at,         \* timestamp of each published record, 0 before it is published
  shape,      \* shape of each source's responses
  \* in the database
  known,      \* registered sources
  row,        \* the source rows
  stored,     \* records in the raw-record store
  \* in the process
  pc,         \* what each worker does next
  queue,      \* copies of the rows its loop has still to visit
  plan,       \* the plan it resolved for the first of them
  print,      \* the fingerprint of what it fetched
  walked,     \* records on the pages it fetched
  pages,      \* how many pages that were
  more,       \* whether the last of them carried a next-page token
  outbox,     \* sources for which it has emitted low confidence, not yet published
  \* what happened
  asked,      \* sources for which low confidence was announced
  faults, edits

world    == <<at, shape>>
database == <<known, row, stored>>
locals   == <<pc, queue, plan, print, walked, pages, more, outbox>>
counts   == <<asked, faults, edits>>
vars     == <<world, database, locals, counts>>

PCs == {"idle", "list", "fetch", "pages", "save", "enrich"}

\* A cursor value is an int or, for ISO timestamps, a string.  Strings of one
\* layout compare by the local time they show.
NoCursor == [text |-> FALSE, n |-> 0]
Scale    == MaxClock + 1     \* milliseconds in a second: above every second

Row(hint, enabled, cached, fingerprint, cursor) ==
  [hint |-> hint, enabled |-> enabled, plan |-> cached, print |-> fingerprint,
   cursor |-> cursor]
Copy(s) == [src |-> s, row |-> row[s]]
Current(w) == Head(queue[w])   \* the source the worker is at

Listed(s) == {r \in Records : SourceOf[r] = s /\ at[r] # 0}

\* The next page after the records already walked.
Older(s, seen) == {r \in Listed(s) \ seen : \A q \in seen : at[r] <= at[q]}
Page(s, seen) ==
  {p \in SUBSET Older(s, seen) :
    /\ \/ Cardinality(p) = PageSize
       \/ p = Older(s, seen) /\ Cardinality(p) < PageSize
    /\ \A r \in p, q \in Older(s, seen) \ p : at[q] <= at[r]}

\* _raw_ts: what the source wrote.
RawTs(r, format) ==
  [text |-> format = "iso8601",
   n |-> CASE format = "epoch_ms" -> at[r] * Scale
           [] format = "iso8601"  -> at[r] + Zone[r]
           [] OTHER               -> at[r]]

\* _raw_ts_from_dt: the same timestamp in UTC.
UtcTs(r, format) ==
  [RawTs(r, format) EXCEPT !.n = IF format = "iso8601" THEN at[r] ELSE @]

\* _collect_records skips a record at or under the cursor, if they compare.
Skips(cursor, r, format) ==
  /\ cursor # NoCursor
  /\ format # "snapshot"
  /\ cursor.text = (format = "iso8601")
  /\ UtcTs(r, format).n <= cursor.n

\* _max_cursor over the records that were not skipped.
NewCursor(cursor, found, format) ==
  LET values == {RawTs(r, format) : r \in found}
      top    == CHOOSE v \in values : \A u \in values : u.n <= v.n
  IN IF format = "snapshot" \/ found = {} THEN cursor
     ELSE IF cursor = NoCursor THEN top
     ELSE IF cursor.text # top.text \/ cursor.n >= top.n THEN cursor
     ELSE top

\* The records _collect_records returns for the source a worker is at.
Found(w) == {r \in walked[w] : ~ Skips(Current(w).row.cursor, r, plan[w])}

\* _resolve_plan: the cached plan unless the shape drifted, hints on top.
Resolved(copy, inferred) ==
  IF copy.hint # NoPlan THEN copy.hint ELSE inferred

Set(f, w, x) == [f EXCEPT ![w] = x]

\* The page after the records in seen is fetched from the current source.
TakePage(w, seen) ==
  LET s == Current(w).src
  IN \E p \in Page(s, seen) :
       /\ walked' = Set(walked, w, seen \cup p)
       /\ more' = Set(more, w, p # Older(s, seen))

Goto(w, to) == pc' = [pc EXCEPT ![w] = to]
\* The worker is at the next source of its list, or at its end.  Its outbox is
\* that of the whole run.
Visit(w, q) ==
  /\ Goto(w, "fetch")
  /\ queue' = Set(queue, w, q)
  /\ plan' = Set(plan, w, NoPlan)
  /\ print' = Set(print, w, NoPrint)
  /\ walked' = Set(walked, w, {})
  /\ pages' = Set(pages, w, 0)
  /\ more' = Set(more, w, FALSE)

\* The run is over, and the events it emitted are published now or never.
EndRun(w) ==
  /\ Goto(w, "idle")
  /\ outbox' = Set(outbox, w, {})
  /\ queue' = Set(queue, w, <<>>)
  /\ plan' = Set(plan, w, NoPlan)
  /\ print' = Set(print, w, NoPrint)
  /\ walked' = Set(walked, w, {})
  /\ pages' = Set(pages, w, 0)
  /\ more' = Set(more, w, FALSE)
-----------------------------------------------------------------------------
Init ==
  /\ at = [r \in Records |-> 0]
  /\ shape = [s \in Sources |-> 1]
  /\ known = Registered
  /\ row = [s \in Sources |-> Row(NoPlan, s \in Registered, NoPlan, NoPrint, NoCursor)]
  /\ stored = {}
  /\ pc = [w \in Workers |-> "idle"]
  /\ queue = [w \in Workers |-> <<>>]
  /\ plan = [w \in Workers |-> NoPlan]
  /\ print = [w \in Workers |-> NoPrint]
  /\ walked = [w \in Workers |-> {}]
  /\ pages = [w \in Workers |-> 0]
  /\ more = [w \in Workers |-> FALSE]
  /\ outbox = [w \in Workers |-> {}]
  /\ asked = {}
  /\ faults = 0
  /\ edits = 0

(***************************************************************************)
(* Operators as a plausible bug would have them, none of them used below.  *)
(***************************************************************************)
\* The walk stops after the first page.
StoreFirstPage(w) ==
  /\ pc[w] = "pages"
  /\ stored' = stored \cup Found(w)
  /\ Goto(w, "save")
  /\ UNCHANGED <<world, known, row, queue, plan, print, walked, pages, more, outbox, counts>>

\* The pages are walked and their records are not collected.
StoreNothing(w) ==
  /\ pc[w] = "pages"
  /\ pages[w] = MaxPages \/ ~ more[w]
  /\ Goto(w, "save")
  /\ UNCHANGED <<world, database, queue, plan, print, walked, pages, more, outbox, counts>>

\* The enabled sources are listed in any order.
PlacesAnyhow(S) ==
  LET places == {i \in DOMAIN Order : Order[i] \in S}
  IN {f \in [1 .. Cardinality(places) -> places] :
        \A i, j \in DOMAIN f : i # j => f[i] # f[j]}

\* What the run emitted is dropped though it returned.
FinishSilent(w) ==
  /\ pc[w] = "fetch"
  /\ queue[w] = <<>>
  /\ EndRun(w)
  /\ UNCHANGED <<world, database, counts>>

\* The fingerprint saved is that of another fetch than the plan's.
SavePrintNow(w) ==
  LET s == Current(w).src
  IN /\ pc[w] = "save"
     /\ row' = [row EXCEPT ![s] =
                  Row(@.hint, @.enabled, plan[w], shape[s],
                      NewCursor(Current(w).row.cursor, Found(w), plan[w]))]
     /\ Visit(w, Tail(queue[w]))
     /\ UNCHANGED <<world, known, stored, outbox, counts>>

\* The copy, with its source, is written where the row belongs.
SaveWholeCopy(w) ==
  LET s == Current(w).src
  IN /\ pc[w] = "save"
     /\ row' = [row EXCEPT ![s] = Current(w)]
     /\ Visit(w, Tail(queue[w]))
     /\ UNCHANGED <<world, known, stored, outbox, counts>>
-----------------------------------------------------------------------------
\* A source publishes a record.
PublishRecord(r) ==
  /\ at[r] = 0
  /\ \E t \in 1 .. MaxClock :
       /\ InOrder => \A q \in Listed(SourceOf[r]) : at[q] < t
       /\ at' = [at EXCEPT ![r] = t]
  /\ UNCHANGED <<shape, database, locals, counts>>

\* A source changes the shape of its responses; not in the middle of a walk.
Drift(s) ==
  /\ shape[s] + 1 \in Shapes
  /\ \A w \in Workers : pc[w] = "pages" => Current(w).src # s
  /\ shape' = [shape EXCEPT ![s] = @ + 1]
  /\ UNCHANGED <<at, database, locals, counts>>

\* source.register.requested: the row is replaced by a new one, of which only a
\* cached plan of the old survives; then sources.updated reaches the scraper.
Register(w, s, hint, enabled) ==
  /\ pc[w] = "idle"
  /\ edits < MaxEdits
  /\ edits' = edits + 1
  /\ known' = known \cup {s}
  /\ row' = [row EXCEPT ![s] = Row(hint, enabled, @.plan, NoPrint, NoCursor)]
  /\ Goto(w, "list")
  /\ UNCHANGED <<world, stored, queue, plan, print, walked, pages, more, outbox, asked, faults>>

\* source.enrich.requested: _enrich reads the row ...
EnrichRead(w, s) ==
  /\ pc[w] = "idle"
  /\ s \in known
  /\ edits < MaxEdits
  /\ edits' = edits + 1
  /\ Goto(w, "enrich")
  /\ queue' = Set(queue, w, <<Copy(s)>>)
  /\ UNCHANGED <<world, database, plan, print, walked, pages, more, outbox, asked, faults>>

\* ... and writes it back whole with the changes, except that an absent plan
\* leaves the one in the database.
EnrichWrite(w, hint, enabled) ==
  LET s   == Current(w).src
      old == Current(w).row
  IN /\ pc[w] = "enrich"
     /\ row' = [row EXCEPT ![s] =
                  Row(IF hint # NoPlan THEN hint ELSE old.hint, enabled,
                      IF old.plan # NoPlan THEN old.plan ELSE @.plan,
                      old.print, old.cursor)]
     /\ Goto(w, "list")
     /\ queue' = Set(queue, w, <<>>)
     /\ UNCHANGED <<world, known, stored, plan, print, walked, pages, more, outbox, counts>>

\* tick.daily
Tick(w) ==
  /\ pc[w] = "idle"
  /\ Goto(w, "list")
  /\ UNCHANGED <<world, database, queue, plan, print, walked, pages, more, outbox, counts>>

\* scrape.requested with a source_id
Request(w, s) ==
  /\ pc[w] = "idle"
  /\ s \in known
  /\ row[s].enabled
  /\ Visit(w, <<Copy(s)>>)
  /\ UNCHANGED <<world, database, outbox, counts>>

\* The places in Order of the sources in S, ascending: there is one such sequence.
Places(S) ==
  LET places == {i \in DOMAIN Order : Order[i] \in S}
  IN {f \in [1 .. Cardinality(places) -> places] :
        \A i, j \in DOMAIN f : i < j => f[i] < f[j]}

\* list_enabled: copies of all enabled rows.
ListSources(w) ==
  /\ pc[w] = "list"
  /\ \E f \in Places({s \in known : row[s].enabled}) :
       Visit(w, [i \in DOMAIN f |-> Copy(Order[f[i]])])
  /\ UNCHANGED <<world, database, outbox, counts>>

\* The loop over the sources is over: handle returns, and only now the runtime
\* publishes what it emitted.
Finish(w) ==
  /\ pc[w] = "fetch"
  /\ queue[w] = <<>>
  /\ asked' = asked \cup outbox[w]
  /\ EndRun(w)
  /\ UNCHANGED <<world, database, faults, edits>>

\* The first page is fetched and a plan resolved.
Fetch(w) ==
  LET s   == Current(w).src
      old == Current(w).row
  IN /\ pc[w] = "fetch"
     /\ queue[w] # <<>>
     /\ s \notin Broken
     /\ \/ /\ old.plan # NoPlan /\ old.print = shape[s]
           /\ plan' = Set(plan, w, Resolved(old, old.plan))
        \/ /\ ~ (old.plan # NoPlan /\ old.print = shape[s])
           /\ \E p \in PlansFor[shape[s]] :
                /\ Resolved(old, p) # Unsure
                /\ plan' = Set(plan, w, Resolved(old, p))
     /\ print' = Set(print, w, shape[s])
     /\ TakePage(w, {})
     /\ pages' = Set(pages, w, 1)
     /\ Goto(w, "pages")
     /\ UNCHANGED <<world, database, queue, outbox, counts>>

\* The plan is inferred with low confidence and there are no hints: an event
\* for a person is emitted, which only buffers it, and on to the next source.
FetchUnsure(w) ==
  LET s   == Current(w).src
      old == Current(w).row
  IN /\ pc[w] = "fetch"
     /\ queue[w] # <<>>
     /\ s \notin Broken
     /\ ~ (old.plan # NoPlan /\ old.print = shape[s])
     /\ \E p \in PlansFor[shape[s]] : Resolved(old, p) = Unsure
     /\ outbox' = Set(outbox, w, outbox[w] \cup {s})
     /\ Visit(w, Tail(queue[w]))
     /\ UNCHANGED <<world, database, counts>>

\* _next_page
FetchNext(w) ==
  /\ pc[w] = "pages"
  /\ pages[w] < MaxPages
  /\ more[w]
  /\ TakePage(w, walked[w])
  /\ pages' = Set(pages, w, pages[w] + 1)
  /\ UNCHANGED <<world, database, pc, queue, plan, print, outbox, counts>>

\* upsert_many commits what was collected.
StoreRecords(w) ==
  /\ pc[w] = "pages"
  /\ pages[w] = MaxPages \/ ~ more[w]
  /\ stored' = stored \cup Found(w)
  /\ Goto(w, "save")
  /\ UNCHANGED <<world, known, row, queue, plan, print, walked, pages, more, outbox, counts>>

\* save_state updates the plan, the fingerprint and the cursor of the row.
SaveState(w) ==
  LET s == Current(w).src
  IN /\ pc[w] = "save"
     /\ row' = [row EXCEPT ![s] =
                  Row(@.hint, @.enabled, plan[w], print[w],
                      NewCursor(Current(w).row.cursor, Found(w), plan[w]))]
     /\ Visit(w, Tail(queue[w]))
     /\ UNCHANGED <<world, known, stored, outbox, counts>>

\* A source that cannot be fetched ends the whole run, and with it every
\* question the run has emitted.
FetchRaises(w) ==
  /\ pc[w] = "fetch"
  /\ queue[w] # <<>>
  /\ Current(w).src \in Broken
  /\ EndRun(w)
  /\ UNCHANGED <<world, database, counts>>

\* Any call to a source, the model or the database may fail now and then.
Fail(w) ==
  /\ pc[w] # "idle"
  /\ faults < MaxFaults
  /\ faults' = faults + 1
  /\ EndRun(w)
  /\ UNCHANGED <<world, database, asked, edits>>

\* The process restarts: every run is gone, the database is not.
Crash ==
  /\ faults < MaxFaults
  /\ faults' = faults + 1
  /\ pc' = [w \in Workers |-> "idle"]
  /\ queue' = [w \in Workers |-> <<>>]
  /\ plan' = [w \in Workers |-> NoPlan]
  /\ print' = [w \in Workers |-> NoPrint]
  /\ walked' = [w \in Workers |-> {}]
  /\ pages' = [w \in Workers |-> 0]
  /\ more' = [w \in Workers |-> FALSE]
  /\ outbox' = [w \in Workers |-> {}]
  /\ UNCHANGED <<world, database, asked, edits>>

Step(w) ==
  \/ \E hint \in Hints \cup {NoPlan}, enabled \in BOOLEAN : EnrichWrite(w, hint, enabled)
  \/ ListSources(w)
  \/ Finish(w)
  \/ Fetch(w)
  \/ FetchUnsure(w)
  \/ FetchNext(w)
  \/ StoreRecords(w)
  \/ SaveState(w)
  \/ FetchRaises(w)

Next ==
  \/ \E r \in Records : PublishRecord(r)
  \/ \E s \in Sources : Drift(s)
  \/ \E w \in Workers, s \in Sources, hint \in Hints \cup {NoPlan}, enabled \in BOOLEAN :
       Register(w, s, hint, enabled)
  \/ \E w \in Workers, s \in Sources : EnrichRead(w, s)
  \/ \E w \in Workers, s \in Sources : Request(w, s)
  \/ \E w \in Workers : Tick(w)
  \/ \E w \in Workers : Step(w)
  \/ \E w \in Workers : Fail(w)
  \/ Crash

Spec == Init /\ [][Next]_vars

\* Threads keep running and the ticker, which has a thread of its own, keeps
\* ticking however busy the others are; nobody has to publish, edit or fail.
FairSpec ==
  /\ Spec
  /\ \A w \in Workers : WF_vars(Step(w))
  /\ SF_vars(\E w \in Workers : Tick(w))
-----------------------------------------------------------------------------
Plans   == Formats \cup {NoPlan}
Cursors == [text : BOOLEAN, n : Nat]
Rows    == [hint : Plans, enabled : BOOLEAN, plan : Plans, print : Nat, cursor : Cursors]

\* Every variable has its type.
TypeOK ==
  /\ at \in [Records -> Nat]
  /\ shape \in [Sources -> Shapes]
  /\ known \subseteq Sources
  /\ row \in [Sources -> Rows]
  /\ stored \subseteq Records
  /\ pc \in [Workers -> PCs]
  /\ queue \in [Workers -> Seq([src : Sources, row : Rows])]
  /\ plan \in [Workers -> Plans]
  /\ print \in [Workers -> Nat]
  /\ walked \in [Workers -> SUBSET Records]
  /\ pages \in [Workers -> Nat]
  /\ more \in [Workers -> BOOLEAN]
  /\ outbox \in [Workers -> SUBSET Sources]
  /\ asked \subseteq Sources
  /\ faults \in Nat /\ edits \in Nat

\* The plans a run of source s may use now.
PlansNow(s) ==
  IF row[s].hint # NoPlan THEN {row[s].hint}
  ELSE IF row[s].plan # NoPlan /\ row[s].print = shape[s] THEN {row[s].plan}
  ELSE PlansFor[shape[s]] \ {Unsure}

\* "A scheduled re-run picks up exactly where it left off": what the next run
\* of a source would skip because of the saved cursor is in the raw store.
CursorCovers ==
  \A s \in known : \A r \in Listed(s), p \in PlansNow(s) :
    Skips(row[s].cursor, r, p) => r \in stored

\* "Re-inferred only when the fingerprint drifts": a plan that will be reused
\* was inferred from, or imposed on, the shape whose fingerprint is saved.
PlanFitsShape ==
  \A s \in known :
    (row[s].plan # NoPlan /\ row[s].print # NoPrint) =>
      row[s].plan \in (PlansFor[row[s].print] \ {Unsure}) \cup Hints

\* "Emits: source.inference.low_confidence (tagged requires_human) when unsure
\* and no hints exist": what a run was unsure of reaches a person at last, unless
\* a later run is sure of it or the source is disabled.  (The code breaks this
\* where a source listed later cannot be fetched: see FetchRaises.)
DoubtIsAsked ==
  \A w \in Workers, s \in Sources :
    s \in outbox[w] ~> (s \in asked \/ row[s].print = shape[s] \/ ~ row[s].enabled)

\* The question about s may never be published: a source the loop comes to after it
\* cannot be fetched, so that the run raises and drops what it emitted.
Unaskable(s) ==
  /\ row[s].print # shape[s]
  /\ Unsure \in PlansFor[shape[s]]
  /\ \E i, j \in DOMAIN Order : /\ i < j /\ Order[i] = s
                               /\ Order[j] \in known \cap Broken /\ row[Order[j]].enabled

\* Every record of a registered source is stored at last, though a source behind it
\* can never be fetched (source_scraper.py handle, _scrape_one), unless a person has
\* disabled the source, has been asked for hints (when the event is published, not
\* when it is emitted), or is to be asked and cannot be: see DoubtIsAsked.
EveryRecordStored ==
  \A r \in Records :
    LET s == SourceOf[r]
    IN (at[r] # 0 /\ s \in known) ~>
         (r \in stored \/ ~ row[s].enabled \/ s \in asked \/ Unaskable(s))
=============================================================================
