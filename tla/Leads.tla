-------------------------------- MODULE Leads --------------------------------
(***************************************************************************)
(* lead-sourcer over MultiATSJobBoardClient and the lead store: a scan     *)
(* walks the roster of boards, keeps the postings that match and were not  *)
(* surfaced before, enriches their companies and reports them.  All        *)
(* request threads share one node, one client and one store; a board may   *)
(* not answer or answer with what cannot be parsed; the process restarts.  *)
(***************************************************************************)
EXTENDS Naturals, Sequences, FiniteSets

CONSTANTS
  Threads,    \* request threads of the dev server
  Roster,     \* the boards to scan, in order
  Unknown,    \* boards whose ats has no endpoint
  Board,      \* per board, its postings in the order it lists them
  Matching,   \* postings that satisfy the criteria
  Keyed,      \* postings with a URL, which is what the store remembers
  Limit,      \* criteria.limit
  MaxFaults   \* bound: failing calls and restarts

Postings == UNION {{Board[b][n] : n \in DOMAIN Board[b]} : b \in DOMAIN Board}
Places   == DOMAIN Roster \cup {Len(Roster) + 1}

ASSUME RosterAssumption ==
  /\ Roster \in Seq(DOMAIN Board)
  /\ Unknown \subseteq DOMAIN Board
ASSUME BoardAssumption == \A b \in DOMAIN Board : Board[b] \in Seq(Postings)
ASSUME PostingsAssumption == Matching \subseteq Postings /\ Keyed \subseteq Postings
ASSUME BoundsAssumption == Limit \in Nat \ {0} /\ MaxFaults \in Nat

VARIABLES
  online,    \* postings the boards list by now
  seen,      \* InMemoryLeadStore._seen
  errors,    \* MultiATSJobBoardClient.last_errors: the boards that failed
  pc,        \* what each thread does next
  at,        \* place in the roster
  todo,      \* postings of the current board it has still to look at
  out,       \* postings it has kept
  \* what happened
  own,       \* boards that failed in the scan a thread is at
  alone,     \* whether no other scan has been active beside it
  reported,  \* keyed postings reported since the process started
  lost,      \* keyed postings kept by a scan that raised
  faults

locals  == <<pc, at, todo, out, own>>
vars    == <<online, seen, errors, locals, alone, reported, lost, faults>>

PCs == {"idle", "board", "posting", "mark", "enrich"}

Items(s) == {s[n] : n \in DOMAIN s}
Listed(b) == SelectSeq(Board[b], LAMBDA p : p \in online)
Full(t)  == Len(out[t]) >= Limit

Set(f, t, x) == [f EXCEPT ![t] = x]
Goto(t, to)  == pc' = Set(pc, t, to)

EndScan(t) ==
  /\ Goto(t, "idle")
  /\ at' = Set(at, t, 1)
  /\ todo' = Set(todo, t, <<>>)
  /\ out' = Set(out, t, <<>>)
  /\ own' = Set(own, t, {})
-----------------------------------------------------------------------------
Init ==
  /\ online \in SUBSET Postings
  /\ seen = {}
  /\ errors = {}
  /\ pc = [t \in Threads |-> "idle"]
  /\ at = [t \in Threads |-> 1]
  /\ todo = [t \in Threads |-> <<>>]
  /\ out = [t \in Threads |-> <<>>]
  /\ own = [t \in Threads |-> {}]
  /\ alone = [t \in Threads |-> FALSE]
  /\ reported = {}
  /\ lost = {}
  /\ faults = 0

(***************************************************************************)
(* Operators as a plausible bug would have them, none of them used below.  *)
(***************************************************************************)
\* last_errors is not cleared when a search begins.
SearchUncleared(t) ==
  /\ pc[t] = "idle"
  /\ Goto(t, "board")
  /\ alone' = [u \in Threads |-> u = t /\ \A x \in Threads \ {t} : pc[x] = "idle"]
  /\ UNCHANGED <<online, seen, errors, at, todo, out, own, reported, lost, faults>>

\* A posting is marked before it is known whether it matches.
PassMarking(t) ==
  /\ pc[t] = "posting" /\ todo[t] # <<>>
  /\ \/ Head(todo[t]) \notin Matching
     \/ Head(todo[t]) \in Keyed \cap seen
  /\ todo' = Set(todo, t, Tail(todo[t]))
  /\ seen' = seen \cup (Keyed \cap {Head(todo[t])})
  /\ UNCHANGED <<online, errors, pc, at, out, own, alone, reported, lost, faults>>

\* A posting without a URL is marked like any other.
MarkEmpty(t) ==
  /\ pc[t] = "mark"
  /\ seen' = seen \cup {Head(todo[t])}
  /\ out' = Set(out, t, Append(out[t], Head(todo[t])))
  /\ todo' = Set(todo, t, Tail(todo[t]))
  /\ Goto(t, "posting")
  /\ UNCHANGED <<online, errors, at, own, alone, reported, lost, faults>>

\* A kept posting is not marked.
MarkNothing(t) ==
  /\ pc[t] = "mark"
  /\ out' = Set(out, t, Append(out[t], Head(todo[t])))
  /\ todo' = Set(todo, t, Tail(todo[t]))
  /\ Goto(t, "posting")
  /\ UNCHANGED <<online, seen, errors, at, own, alone, reported, lost, faults>>

\* One bad board ends the scan.
SkipAll(t) ==
  /\ errors' = errors \cup {Roster[at[t]]}
  /\ own' = Set(own, t, own[t] \cup {Roster[at[t]]})
  /\ at' = Set(at, t, Len(Roster) + 1)
  /\ UNCHANGED <<online, seen, pc, todo, out, alone, reported, lost>>
-----------------------------------------------------------------------------
(***************************************************************************)
(* One scan, and the boards.                                               *)
(***************************************************************************)
\* A company lists a new posting on its board.
List(p) ==
  /\ p \notin online
  /\ online' = online \cup {p}
  /\ UNCHANGED <<seen, errors, locals, alone, reported, lost, faults>>

\* lead-search.requested reaches the node; search_postings begins.
Search(t) ==
  /\ pc[t] = "idle"
  /\ errors' = {}
  /\ Goto(t, "board")
  /\ alone' = [u \in Threads |-> u = t /\ \A x \in Threads \ {t} : pc[x] = "idle"]
  /\ UNCHANGED <<online, seen, at, todo, out, own, reported, lost, faults>>

\* The next board, unless there are postings enough.
AtBoard(t) == pc[t] = "board" /\ at[t] \in DOMAIN Roster /\ ~ Full(t)

\* The fetch succeeds and its payload is normalized.
FetchBoard(t) ==
  /\ AtBoard(t)
  /\ Roster[at[t]] \notin Unknown
  /\ todo' = Set(todo, t, Listed(Roster[at[t]]))
  /\ Goto(t, "posting")
  /\ UNCHANGED <<online, seen, errors, at, out, own, alone, reported, lost, faults>>

\* What failed is recorded on the list of whichever search began last.
SkipBoard(t) ==
  /\ errors' = errors \cup {Roster[at[t]]}
  /\ own' = Set(own, t, own[t] \cup {Roster[at[t]]})
  /\ at' = Set(at, t, at[t] + 1)
  /\ UNCHANGED <<online, seen, pc, todo, out, alone, reported, lost>>

UnknownAts(t) ==
  /\ AtBoard(t)
  /\ Roster[at[t]] \in Unknown
  /\ SkipBoard(t)
  /\ UNCHANGED faults

\* "One bad board must not kill the whole scan."
FetchRaises(t) ==
  /\ faults < MaxFaults /\ faults' = faults + 1
  /\ AtBoard(t)
  /\ Roster[at[t]] \notin Unknown
  /\ SkipBoard(t)

\* Normalizing the payload raises, outside the try: so does the search.
NormalizeRaises(t) ==
  /\ faults < MaxFaults /\ faults' = faults + 1
  /\ AtBoard(t)
  /\ Roster[at[t]] \notin Unknown
  /\ lost' = lost \cup (Keyed \cap Items(out[t]))
  /\ EndScan(t)
  /\ UNCHANGED <<online, seen, errors, alone, reported>>

\* The posting does not match or was surfaced before.
Pass(t) ==
  /\ pc[t] = "posting" /\ todo[t] # <<>>
  /\ \/ Head(todo[t]) \notin Matching
     \/ Head(todo[t]) \in Keyed \cap seen
  /\ todo' = Set(todo, t, Tail(todo[t]))
  /\ UNCHANGED <<online, seen, errors, pc, at, out, own, alone, reported, lost, faults>>

\* store.seen said no ...
New(t) ==
  /\ pc[t] = "posting" /\ todo[t] # <<>>
  /\ Head(todo[t]) \in Matching
  /\ Head(todo[t]) \notin Keyed \cap seen
  /\ Goto(t, "mark")
  /\ UNCHANGED <<online, seen, errors, at, todo, out, own, alone, reported, lost, faults>>

\* ... and store.mark_seen is another call.
Mark(t) ==
  /\ pc[t] = "mark"
  /\ seen' = seen \cup (Keyed \cap {Head(todo[t])})
  /\ out' = Set(out, t, Append(out[t], Head(todo[t])))
  /\ todo' = Set(todo, t, IF Len(out[t]) + 1 >= Limit THEN <<>> ELSE Tail(todo[t]))
  /\ Goto(t, "posting")
  /\ UNCHANGED <<online, errors, at, own, alone, reported, lost, faults>>

NextBoard(t) ==
  /\ pc[t] = "posting" /\ todo[t] = <<>>
  /\ at' = Set(at, t, at[t] + 1)
  /\ Goto(t, "board")
  /\ UNCHANGED <<online, seen, errors, todo, out, own, alone, reported, lost, faults>>

\* The search returns; the companies' sites are crawled or scraped, each in a
\* try of its own.
SearchDone(t) ==
  /\ pc[t] = "board"
  /\ at[t] \notin DOMAIN Roster \/ Full(t)
  /\ Goto(t, "enrich")
  /\ UNCHANGED <<online, seen, errors, at, todo, out, own, alone, reported, lost, faults>>

\* companies.discovered, with the postings and the client's last_errors.
Report(t) ==
  /\ pc[t] = "enrich"
  /\ reported' = reported \cup (Keyed \cap Items(out[t]))
  /\ EndScan(t)
  /\ UNCHANGED <<online, seen, errors, alone, lost, faults>>

\* The process restarts: the store is in memory.
Restart ==
  /\ faults < MaxFaults /\ faults' = faults + 1
  /\ seen' = {} /\ errors' = {} /\ reported' = {} /\ lost' = {}
  /\ pc' = [t \in Threads |-> "idle"]
  /\ at' = [t \in Threads |-> 1]
  /\ todo' = [t \in Threads |-> <<>>]
  /\ out' = [t \in Threads |-> <<>>]
  /\ own' = [t \in Threads |-> {}]
  /\ UNCHANGED <<online, alone>>

Work(t) ==
  \/ FetchBoard(t) \/ UnknownAts(t) \/ FetchRaises(t) \/ NormalizeRaises(t)
  \/ Pass(t) \/ New(t) \/ Mark(t) \/ NextBoard(t)
  \/ SearchDone(t) \/ Report(t)

Next ==
  \/ \E p \in Postings : List(p)
  \/ \E t \in Threads : Search(t) \/ Work(t)
  \/ Restart

Spec == Init /\ [][Next]_vars

\* Threads run, and people keep asking for leads.
FairSpec ==
  /\ Spec
  /\ \A t \in Threads : WF_vars(Work(t))
  /\ WF_vars(\E t \in Threads : Search(t))
-----------------------------------------------------------------------------
\* Every variable has its type.
TypeOK ==
  /\ online \subseteq Postings
  /\ seen \subseteq Keyed
  /\ errors \subseteq DOMAIN Board
  /\ pc \in [Threads -> PCs]
  /\ at \in [Threads -> Places]
  /\ todo \in [Threads -> Seq(Postings)]
  /\ out \in [Threads -> Seq(Postings)]
  /\ own \in [Threads -> SUBSET DOMAIN Board]
  /\ alone \in [Threads -> BOOLEAN]
  /\ reported \subseteq Keyed
  /\ lost \subseteq Keyed
  /\ faults \in Nat

Active(t) == pc[t] # "idle"

\* "So the same role isn't surfaced twice": a scan beside which no other ran
\* keeps no posting that was reported since the process started, and none twice.
NeverAgain ==
  \A t \in Threads : (Active(t) /\ alone[t]) =>
    /\ Keyed \cap Items(out[t]) \cap reported = {}
    /\ \A m, n \in DOMAIN out[t] : (out[t][m] \in Keyed /\ out[t][m] = out[t][n]) => m = n

\* A posting the store hides from all later scans was reported, is held by a
\* scan that will report it, or was lost to one that raised.
NothingHidden ==
  seen \subseteq reported \cup lost \cup UNION {Items(out[t]) : t \in Threads}

\* "Per-board failures from the most recent search": a scan beside which no
\* other ran reports the boards that failed in it, and no others.
OwnErrors ==
  \A t \in Threads : (Active(t) /\ alone[t]) => errors = own[t]

\* Every matching posting of a board that can be asked is reported at last,
\* although boards before it fail and the limit cuts scans short, unless it was
\* lost to a scan that raised.
EveryMatchReported ==
  \A p \in Matching \cap Keyed :
    (p \in online /\ \E n \in DOMAIN Roster :
        Roster[n] \notin Unknown /\ p \in Items(Board[Roster[n]]))
      ~> (p \in reported \cup lost)
=============================================================================
