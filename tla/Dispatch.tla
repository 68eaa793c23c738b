------------------------------ MODULE Dispatch ------------------------------
(***************************************************************************)
(* The event kernel: InMemoryEventBus, the Runtime that wraps every node   *)
(* into a bus handler, and the TraceRecorder each invocation runs inside.  *)
(*                                                                         *)
(* Publishing is a synchronous, recursive call, so the state of a run is   *)
(* the Python call stack. A frame is either a bus.publish call that still  *)
(* has handlers to call, or a node handler that is running, that still has *)
(* emitted events to publish, or that is re-raising.  Nothing between the  *)
(* outermost publish and the innermost handler catches an exception, so an *)
(* exception pops the whole stack at once.                                 *)
(*                                                                         *)
(* One publishing thread: the bus, the runtime and the recorder hold no    *)
(* state that one run reads from another.  The shared state behind the     *)
(* nodes is the subject of Ingestion.                                      *)
(***************************************************************************)
EXTENDS Naturals, Sequences, FiniteSets

CONSTANTS
  Types,          \* event types that clients publish and nodes emit
  TraceCaptured,  \* the type of the recorder's own event
  Nodes,          \* nodes registered with the runtime
  Observers,      \* raw handlers subscribed straight on the bus
  Subs,           \* per event type, its handlers in subscription order
  Wild,           \* handlers subscribed to "*", in subscription order
  Reactions,      \* per node and trigger type, the type sequences it may emit
  Fallible,       \* handlers whose own code may raise
  Roots           \* bound: per run, the types its outside event may have

Handlers == Nodes \cup Observers
AllTypes == Types \cup {TraceCaptured}

ASSUME TypesAssumption == TraceCaptured \notin Types
ASSUME HandlersAssumption == Nodes \cap Observers = {}
ASSUME SubsAssumption == Subs \in [AllTypes -> Seq(Handlers)]
\* A node on "*" or on trace.captured would be triggered by its own trace.
ASSUME NoSelfTrace ==
  /\ Subs[TraceCaptured] \in Seq(Observers)
  /\ Wild \in Seq(Observers)
ASSUME ReactionsAssumption ==
  \A n \in Nodes, t \in Types : Reactions[n][t] \subseteq Seq(Types)
ASSUME RootsAssumption == Roots \in Seq(SUBSET Types)

VARIABLES
  stack,   \* the call stack, innermost frame last
  events,  \* every event created so far; an event's id is its index
  rows,    \* the trace rows, in the order the recorder wrote them
  seen,    \* <<observer, event>> pairs, in the order observers were called
  done,    \* ids of outside events whose publish returned
  failed   \* ids of outside events whose publish raised

vars == <<stack, events, rows, seen, done, failed>>

Outside == 0      \* the source row of an event no node emitted
Nobody  == "-"    \* the handler of a publish frame

Top     == stack[Len(stack)]
Below   == SubSeq(stack, 1, Len(stack) - 1)
Running == stack # <<>>
Run     == events[Top.ev].root    \* the outside event of the current run

Runs    == Cardinality(done \cup failed)   \* runs that are over

Frame(kind, ev, by, todo, out) ==
  [kind |-> kind,   \* "publish", or what the node's handler is doing
   ev   |-> ev,     \* the event published, or the event being handled
   by   |-> by,     \* the node
   todo |-> todo,   \* handlers still to be called
   out  |-> out]    \* emitted events still to be published

\* A node registered twice for a type (a plausible bug, not part of Next).
PublishFrameTwice(type, ev) ==
  Frame("publish", ev, Nobody, Subs[type] \o Subs[type] \o Wild, <<>>)

\* bus.publish: exact-type handlers first, then the wildcard handlers, both
\* lists copied before the first call.
PublishFrame(type, ev) ==
  Frame("publish", ev, Nobody, Subs[type] \o Wild, <<>>)

\* Event.child: a follow-on event keeps its parent's correlation id.
Child(parent, type, src) ==
  [type |-> type, root |-> events[parent].root, src |-> src]
-----------------------------------------------------------------------------
Init ==
  /\ stack = <<>>
  /\ events = <<>>
  /\ rows = <<>>
  /\ seen = <<>>
  /\ done = {}
  /\ failed = {}

(***************************************************************************)
(* Actions as a plausible bug would have them.  None is part of Next: each *)
(* stands in for the action it is named after to show that a property can  *)
(* tell the difference.                                                    *)
(***************************************************************************)
\* The rest of a node's output is dropped once its first event is handled.
ReturnEarly ==
  /\ Running
  /\ Top.kind \in {"publish", "emit"}
  /\ Top.todo = <<>>
  /\ stack' = Below
  /\ done' = IF Below = <<>> THEN done \cup {Run} ELSE done
  /\ UNCHANGED <<events, rows, seen, failed>>

\* A node's handler never returns.
ReturnStuck ==
  /\ Running
  /\ Top.kind = "publish"
  /\ Top.todo = <<>>
  /\ stack' = Below
  /\ done' = IF Below = <<>> THEN done \cup {Run} ELSE done
  /\ UNCHANGED <<events, rows, seen, failed>>

\* An except clause around each handler call: the bus goes on with the next.
UnwindToBus ==
  /\ stack' = IF Len(stack) > 2 THEN SubSeq(stack, 1, Len(stack) - 1) ELSE <<>>
  /\ failed' = IF Len(stack) > 2 THEN failed ELSE failed \cup {Run}

\* The row is written from the context before the handler has filled it.
CaptureEmpty(types, error) ==
  LET src == Len(rows) + 1
      out == [i \in DOMAIN types |-> Len(events) + i]
      tc  == Len(events) + Len(types) + 1
  IN /\ rows' = Append(rows, [node |-> Top.by, trigger |-> Top.ev,
                              emitted |-> <<>>, error |-> error])
     /\ events' = Append(events \o [i \in DOMAIN types |-> Child(Top.ev, types[i], src)],
                         Child(Top.ev, TraceCaptured, src))
     /\ stack' = Append(Append(Below,
                   Frame(IF error THEN "raise" ELSE "emit", Top.ev, Top.by, <<>>, out)),
                   PublishFrame(TraceCaptured, tc))
     /\ UNCHANGED <<seen, done, failed>>

\* Emitted events are queued behind the event being published.
PublishNextQueued ==
  /\ Running
  /\ Top.kind = "emit"
  /\ Top.out # <<>>
  /\ stack' = <<PublishFrame(events[Head(Top.out)].type, Head(Top.out))>>
              \o Below \o <<[Top EXCEPT !.out = Tail(@)]>>
  /\ UNCHANGED <<events, rows, seen, done, failed>>
-----------------------------------------------------------------------------
\* A client, a timer or the dev server publishes an event of its own.
Publish(type) ==
  LET id == Len(events) + 1
  IN /\ ~Running
     /\ Runs < Len(Roots)
     /\ type \in Roots[Runs + 1]
     /\ events' = Append(events, [type |-> type, root |-> id, src |-> Outside])
     /\ stack' = <<PublishFrame(type, id)>>
     /\ UNCHANGED <<rows, seen, done, failed>>

\* The frame on top returns to its caller.
Return ==
  /\ Running
  /\ Top.kind \in {"publish", "emit"}
  /\ Top.todo = <<>>
  /\ Top.out = <<>>
  /\ stack' = Below
  /\ done' = IF Below = <<>> THEN done \cup {Run} ELSE done
  /\ UNCHANGED <<events, rows, seen, failed>>

\* The bus calls the next handler of the event, a node.
Invoke ==
  /\ Running
  /\ Top.kind = "publish"
  /\ Top.todo # <<>>
  /\ Head(Top.todo) \in Nodes
  /\ stack' = Append(Append(Below, [Top EXCEPT !.todo = Tail(@)]),
                     Frame("handle", Top.ev, Head(Top.todo), <<>>, <<>>))
  /\ UNCHANGED <<events, rows, seen, done, failed>>

\* The bus calls the next handler of the event, a raw observer, which is
\* called and returns.
Observe ==
  /\ Running
  /\ Top.kind = "publish"
  /\ Top.todo # <<>>
  /\ Head(Top.todo) \in Observers
  /\ seen' = Append(seen, <<Head(Top.todo), Top.ev>>)
  /\ stack' = Append(Below, [Top EXCEPT !.todo = Tail(@)])
  /\ UNCHANGED <<events, rows, done, failed>>

\* The exception reaches the caller of the outermost publish.
Unwind ==
  /\ stack' = <<>>
  /\ failed' = failed \cup {Run}

ObserverRaises ==
  /\ Running
  /\ Top.kind = "publish"
  /\ Top.todo # <<>>
  /\ Head(Top.todo) \in Observers \cap Fallible
  /\ seen' = Append(seen, <<Head(Top.todo), Top.ev>>)
  /\ Unwind
  /\ UNCHANGED <<events, rows, done>>

\* TraceRecorder.record: whatever the handler did, write one row and publish
\* trace.captured before anything else happens to the emitted events.
Capture(types, error) ==
  LET src == Len(rows) + 1
      out == [i \in DOMAIN types |-> Len(events) + i]
      tc  == Len(events) + Len(types) + 1
  IN /\ rows' = Append(rows, [node |-> Top.by, trigger |-> Top.ev,
                              emitted |-> out, error |-> error])
     /\ events' = Append(events \o [i \in DOMAIN types |-> Child(Top.ev, types[i], src)],
                         Child(Top.ev, TraceCaptured, src))
     /\ stack' = Append(Append(Below,
                   Frame(IF error THEN "raise" ELSE "emit", Top.ev, Top.by, <<>>, out)),
                   PublishFrame(TraceCaptured, tc))
     /\ UNCHANGED <<seen, done, failed>>

\* The node's handle returns; what it queued with ctx.emit is in the row.
Handle ==
  /\ Running
  /\ Top.kind = "handle"
  /\ \E types \in Reactions[Top.by][events[Top.ev].type] : Capture(types, FALSE)

\* The node's handle raises: an error row, and what it had queued is dropped.
HandleRaises ==
  /\ Running
  /\ Top.kind = "handle"
  /\ Top.by \in Fallible
  /\ Capture(<<>>, TRUE)

\* After its trace, a node's emitted events are published one by one, each
\* with everything that follows from it before the next.
PublishNext ==
  /\ Running
  /\ Top.kind = "emit"
  /\ Top.out # <<>>
  /\ stack' = Append(Append(Below, [Top EXCEPT !.out = Tail(@)]),
                     PublishFrame(events[Head(Top.out)].type, Head(Top.out)))
  /\ UNCHANGED <<events, rows, seen, done, failed>>

\* The finally block is over; the exception continues to the publisher.
Reraise ==
  /\ Running
  /\ Top.kind = "raise"
  /\ Unwind
  /\ UNCHANGED <<events, rows, seen, done>>

Step ==
  \/ Return
  \/ Invoke
  \/ Observe
  \/ ObserverRaises
  \/ Handle
  \/ HandleRaises
  \/ PublishNext
  \/ Reraise

Next ==
  \/ \E type \in Types : Publish(type)
  \/ Step

Spec == Init /\ [][Next]_vars

\* The interpreter keeps running the code of a publish that has begun.
FairSpec == Spec /\ WF_vars(Step)
-----------------------------------------------------------------------------
Ids       == 1 .. Len(events)
RowIds    == 1 .. Len(rows)
RunOf(e)  == events[e].root
RowRun(i) == RunOf(rows[i].trigger)

Invoked(n, e)  == \E i \in RowIds : rows[i].node = n /\ rows[i].trigger = e
Observed(o, e) == \E i \in DOMAIN seen : seen[i] = <<o, e>>
Delivered(h, e) == IF h \in Nodes THEN Invoked(h, e) ELSE Observed(h, e)

\* e has been handed to at least one handler or is being published.
Reached(e) ==
  \/ \E h \in Handlers : Delivered(h, e)
  \/ \E k \in DOMAIN stack : stack[k].kind = "publish" /\ stack[k].ev = e

Subscribers(type) ==
  {Subs[type][i] : i \in DOMAIN Subs[type]} \cup {Wild[i] : i \in DOMAIN Wild}

Frames ==
  [kind : {"publish", "handle", "emit", "raise"}, ev : Nat, by : Nodes \cup {Nobody},
   todo : Seq(Handlers), out : Seq(Nat)]
Events == [type : AllTypes, root : Nat, src : Nat]
Traces == [node : Nodes, trigger : Nat, emitted : Seq(Nat), error : BOOLEAN]

\* Every variable has its type.
TypeOK ==
  /\ stack \in Seq(Frames)
  /\ events \in Seq(Events)
  /\ rows \in Seq(Traces)
  /\ seen \in Seq(Observers \X Nat)
  /\ done \subseteq Nat
  /\ failed \subseteq Nat

\* "Publish the node's outputs only after the trace is captured": an event a
\* node emitted reaches no handler before the row that lists it is written,
\* so a reader of the trace always finds the step an event came from, in the
\* same run and earlier in the log.
TracedBeforeDelivered ==
  \A e \in Ids :
    (Reached(e) /\ events[e].src # Outside) =>
      /\ events[e].src \in RowIds
      /\ RowRun(events[e].src) = RunOf(e)
      /\ \/ events[e].type = TraceCaptured
         \/ \E k \in DOMAIN rows[events[e].src].emitted :
              rows[events[e].src].emitted[k] = e
      /\ \A i \in RowIds : rows[i].trigger = e => events[e].src < i

\* No handler is given the same event twice, however runs nest.
DeliveredOnce ==
  /\ \A i, j \in RowIds :
       (rows[i].node = rows[j].node /\ rows[i].trigger = rows[j].trigger) => i = j
  /\ \A i, j \in DOMAIN seen : seen[i] = seen[j] => i = j

\* When the outermost publish returns, every event of the run has been given
\* to every handler subscribed to its type and to every wildcard handler.
CompleteOnReturn ==
  \A r \in done : \A e \in Ids :
    RunOf(e) = r => \A h \in Subscribers(events[e].type) : Delivered(h, e)

\* An exception stops the run: after a row with an error no node of that run
\* is invoked any more.
FailFast ==
  \A i, j \in RowIds :
    (i < j /\ rows[i].error) => RowRun(i) # RowRun(j)

\* "substrate records, never swallows silently": a run with an error row is
\* never reported to its publisher as a normal return.
NeverSwallowed ==
  /\ done \cap failed = {}
  /\ \A i \in RowIds : rows[i].error => RowRun(i) \notin done

\* Depth first: a handler of an event runs only when everything that follows
\* from the handlers subscribed before it has been delivered.  The ingestion
\* cluster relies on it: on tick.daily the builder and the insight-inferrer
\* must find what the scraper's own events led to already in place.
SiblingsWait ==
  \A i, j \in RowIds :
    (i < j /\ rows[i].trigger = rows[j].trigger) =>
      \A e \in Ids :
        events[e].src \in i .. (j - 1) =>
          \A h \in Subscribers(events[e].type) : Delivered(h, e)

\* Every publish ends, normally or with an exception.
PublishEnds == Running ~> ~Running
=============================================================================
