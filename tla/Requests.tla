------------------------------ MODULE Requests ------------------------------
(***************************************************************************)
(* The threads of the dev server: FastAPI runs each request in a thread of *)
(* its pool, the auto-ticker is a thread of its own, and all of them       *)
(* publish on one bus.  A publish is a synchronous recursion, depth first; *)
(* what is left of it is the sequence of deliveries still to be made.      *)
(* Dispatch models that recursion, the bus and the recorder call by call;  *)
(* here a delivery is the unit, and the state that nodes share is what     *)
(* matters: a handler that touches it more than once has a step for each   *)
(* touch, with what it remembers between them in loc.                      *)
(*                                                                         *)
(* trace.captured has no subscriber in the venture: publishing it is left  *)
(* out.                                                                    *)
(***************************************************************************)
EXTENDS Lists, SequencesExt, FiniteSetsExt

CONSTANTS
  Threads,
  Ventures,     \* the venture ids that events carry
  Scenarios,    \* what the threads are asked for: functions Threads -> Seq(request)
  MaxFaults     \* bound: external calls that raise

\* Every thread is asked for a sequence of requests, each in a venture.
ASSUME ScenariosAssumption ==
  \A s \in Scenarios :
    /\ s \in [Threads -> Range(s)]
    /\ \A t \in Threads : /\ s[t] \in Seq(Range(s[t]))
                           /\ \A i \in DOMAIN s[t] : s[t][i].ven \in Ventures

VARIABLES
  inbox,     \* per thread, requests still to be served
  run,       \* per thread, the run being served: its event, its rows so far,
             \* whether a reset came in between
  todo,      \* per thread, deliveries still to be made
  loc,       \* per thread, where its handler is and what it remembers
  minted,    \* per thread, events created (an event's id is <<thread, n>>)
  traces,    \* the recorder's rows in memory, by correlation id
  reply,     \* per thread, the answer to its last request
  dropped,   \* history: deliveries lost to a raise
  faults

requestVars == <<inbox, run, todo, loc, minted, traces, reply, dropped, faults>>

Start == [pc |-> "start"]
Idle  == [root |-> <<>>, did |-> <<>>, cut |-> FALSE]
None  == [how |-> "none", chain |-> <<>>, root |-> <<>>, did |-> <<>>, cut |-> FALSE]

Serving(t) == run[t].root # <<>>
AtRest     == \A t \in Threads : ~Serving(t)

\* The nodes of the venture that Server models, in registration order.
Roster == <<"thesis-tracker", "founder-notifier", "market-scanner",
  "ad-campaign-runner", "ad-analytics-collector", "signal-analyzer",
  "pain-extractor", "subscription-manager", "post-analytics-collector",
  "customer-survey", "source-scraper", "knowledge-builder", "insight-inferrer">>

ReactsTo(node) ==
  CASE node = "thesis-tracker" ->
         {"evidence.collected", "market.landscape.summarized", "pain.extracted",
          "signal.verdict", "survey.responded"}
    [] node = "founder-notifier" -> {"signal.verdict", "thesis.state.updated"}
    [] node = "market-scanner" -> {"research.requested"}
    [] node = "ad-campaign-runner" -> {"campaign.requested"}
    [] node = "ad-analytics-collector" -> {"campaign.launched"}
    [] node = "signal-analyzer" ->
         {"campaign.metrics.updated", "post.metrics.updated", "survey.responded"}
    [] node = "pain-extractor" -> {"transcript.captured"}
    [] node = "subscription-manager" ->
         {"subscription.requested", "subscription.cancellation_requested"}
    [] node = "post-analytics-collector" -> {"post.published"}
    [] node = "customer-survey" -> {"survey.requested"}
    [] node = "source-scraper" -> {"tick.daily"}
    [] node = "knowledge-builder" -> {"source.records.ingested", "tick.daily"}
    [] node = "insight-inferrer" -> {"knowledge.updated", "tick.daily"}

\* The bus: per type heard, its subscribers in registration order.
Subscribers ==
  [type \in UNION {ReactsTo(Roster[i]) : i \in DOMAIN Roster} |->
    Flat([i \in DOMAIN Roster |-> IF type \in ReactsTo(Roster[i]) THEN <<Roster[i]>> ELSE <<>>])]

\* bus.publish
Deliveries(ev) ==
  IF ev.type \notin DOMAIN Subscribers THEN <<>>
  ELSE [i \in DOMAIN Subscribers[ev.type] |-> [node |-> Subscribers[ev.type][i], ev |-> ev]]

\* An event as its receivers see it: whom it is about and what it says.
Out(type, about, says) ==
  [type |-> type, about |-> about, says |-> says, urgent |-> FALSE]

\* Event.child: venture and correlation id are inherited.
Child(out, parent, id) ==
  [type |-> out.type, about |-> out.about, says |-> out.says, urgent |-> out.urgent,
   ven |-> parent.ven, root |-> parent.root, id |-> id]

Handling(t, node) == todo[t] # <<>> /\ Head(todo[t]).node = node
At(t, node, pc)   == Handling(t, node) /\ loc[t].pc = pc
Ev(t)             == Head(todo[t]).ev

Goto(t, there) ==
  /\ loc' = [loc EXCEPT ![t] = there]
  /\ UNCHANGED <<inbox, run, todo, minted, traces, reply, dropped, faults>>

Row(t, out, error) ==
  [root |-> Ev(t).root, node |-> Head(todo[t]).node, trig |-> Ev(t).id,
   out |-> out, error |-> error]

NoRows     == [r \in {} |-> <<>>]
Rows(root) == IF root \in DOMAIN traces THEN traces[root] ELSE <<>>

\* record: nothing reads the order of rows of different runs here.
Record(row) ==
  traces' = [r \in DOMAIN traces \cup {row.root} |->
              IF r = row.root THEN Append(Rows(r), row) ELSE traces[r]]

Capture(t, row) ==
  /\ Record(row)
  /\ run' = [run EXCEPT ![t].did = Append(@, row)]

\* The handler returns: its row is written, then what it emitted is published,
\* each event with everything that follows from it before the next.
Finish(t, outs) ==
  LET id(i)  == <<t, minted[t] + i>>
      events == [i \in DOMAIN outs |-> Child(outs[i], Ev(t), id(i))]
  IN /\ Capture(t, Row(t, [i \in DOMAIN outs |-> id(i)], FALSE))
     /\ minted' = [minted EXCEPT ![t] = @ + Len(outs)]
     /\ todo' = [todo EXCEPT ![t] =
                  Flat([i \in DOMAIN outs |-> Deliveries(events[i])]) \o Tail(@)]
     /\ loc' = [loc EXCEPT ![t] = Start]
     /\ UNCHANGED <<inbox, reply, dropped, faults>>

Idling(t) == run' = [run EXCEPT ![t] = Idle]

\* An external call raises: the row tells, the rest of the run is lost, the
\* client sees an error (the auto-ticker's loop goes on).
Raise(t) ==
  /\ faults < MaxFaults
  /\ faults' = faults + 1
  /\ Record(Row(t, <<>>, TRUE))
  /\ dropped' = dropped \cup Range(todo[t])
  /\ todo' = [todo EXCEPT ![t] = <<>>]
  /\ loc' = [loc EXCEPT ![t] = Start]
  /\ reply' = [reply EXCEPT ![t] = [None EXCEPT !.how = "error"]]
  /\ Idling(t)
  /\ UNCHANGED <<inbox, minted>>

-----------------------------------------------------------------------------
RequestsInit ==
  /\ inbox \in Scenarios
  /\ run = [t \in Threads |-> Idle]
  /\ todo = [t \in Threads |-> <<>>]
  /\ loc = [t \in Threads |-> Start]
  /\ minted = [t \in Threads |-> 0]
  /\ traces = NoRows
  /\ reply = [t \in Threads |-> None]
  /\ dropped = {}
  /\ faults = 0

Asked(t, type) == ~Serving(t) /\ inbox[t] # <<>> /\ (Head(inbox[t]).type = "reset") = type

\* POST /api/publish, POST /api/tick and a turn of the auto-ticker: an outside
\* event with a correlation id of its own.
Publish(t) ==
  /\ Asked(t, FALSE)
  /\ LET id == <<t, minted[t] + 1>>
         ev == Child(Head(inbox[t]), [ven |-> Head(inbox[t]).ven, root |-> id], id)
     IN /\ todo' = [todo EXCEPT ![t] = Deliveries(ev)]
        /\ run' = [run EXCEPT ![t] = [root |-> id, did |-> <<>>, cut |-> FALSE]]
  /\ minted' = [minted EXCEPT ![t] = @ + 1]
  /\ inbox' = [inbox EXCEPT ![t] = Tail(@)]
  /\ UNCHANGED <<loc, traces, reply, dropped, faults>>

\* POST /api/reset: the rows go, those of runs under way included.
Reset(t) ==
  /\ Asked(t, TRUE)
  /\ traces' = NoRows
  /\ run' = [u \in Threads |-> IF Serving(u) THEN [run[u] EXCEPT !.cut = TRUE] ELSE run[u]]
  /\ inbox' = [inbox EXCEPT ![t] = Tail(@)]
  /\ UNCHANGED <<todo, loc, minted, reply, dropped, faults>>

\* A plausible bug: only the direct subscribers count as steps of the run.
BuildChainShallow(steps) ==
  [i \in DOMAIN steps |->
    [row |-> steps[i], parent |-> i - 1, start |-> i = 1, end |-> i = Len(steps)]]

\* _build_chain: a step's parent is the step that emitted its trigger.
BuildChain(steps) ==
  LET emitter(i) == {j \in DOMAIN steps : steps[i].trig \in Range(steps[j].out)}
      parent(i)  == IF emitter(i) = {} THEN 0 ELSE Max(emitter(i))
  IN [i \in DOMAIN steps |->
       [row |-> steps[i], parent |-> parent(i), start |-> parent(i) = 0,
        end |-> \A k \in DOMAIN steps : parent(k) # i]]

\* The publish returned: the answer is the chain of the run's correlation id.
Reply(t) ==
  /\ Serving(t)
  /\ todo[t] = <<>>
  /\ reply' = [reply EXCEPT ![t] =
       [how |-> "chain", root |-> run[t].root, did |-> run[t].did, cut |-> run[t].cut,
        chain |-> BuildChain(Rows(run[t].root))]]
  /\ Idling(t)
  /\ UNCHANGED <<inbox, todo, loc, minted, traces, dropped, faults>>
=============================================================================
