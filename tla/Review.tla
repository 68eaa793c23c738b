------------------------------- MODULE Review -------------------------------
(***************************************************************************)
(* human-review-queue with the nodes before and after it: drafts that need *)
(* a person are parked, a person approves them through /api/review/approve *)
(* or by publishing review.approved, and an approved post goes out to      *)
(* LinkedIn.  The request threads of the dev server share one dictionary   *)
(* of parked items; calls fail, answers get lost, the process restarts.    *)
(***************************************************************************)
EXTENDS Naturals, Sequences, FiniteSets

CONSTANTS
  Threads,    \* request threads of the dev server
  Items,      \* drafts and questions that nodes emit, by event_id
  Type,       \* the event type of each
  Gated,      \* those tagged requires_human
  ResultMap,  \* the types the queue subscribes to, result_map's keys
  Batches,    \* the events one run emits, in order
  Texts,      \* what a person may write
  NoText,     \* an approval without a text
  Requests,   \* the approvals that may be asked for: of an item, with a text
  NoItem,
  MaxFaults   \* bound: failing calls and restarts

\* handle parks an event only if it is tagged and a result is known for its type.
Parkable == {i \in Gated : Type[i] \in ResultMap}

Elements(batch) == {batch[n] : n \in DOMAIN batch}
Kinds == {"post.drafted", "pitch.drafted", "source.inference.low_confidence"}

ASSUME TypesAssumption ==
  Type \in [Items -> Kinds] /\ ResultMap \subseteq Kinds /\ Gated \subseteq Items
ASSUME BatchesAssumption ==
  /\ Batches \subseteq Seq(Items)
  /\ \A b \in Batches : \A m, n \in DOMAIN b : b[m] = b[n] => m = n
ASSUME TextsAssumption == NoText \notin Texts /\ NoItem \notin Items
ASSUME RequestsAssumption == Requests \subseteq Items \X (Texts \cup {NoText})
ASSUME FaultsAssumption == MaxFaults \in Nat

VARIABLES
  drafted,    \* events published; their ids are in the traces from then on
  pending,    \* HumanReviewQueue._pending
  released,   \* events for which a result event was emitted
  posts,      \* what LinkedIn has been asked to publish
  pc,         \* what each thread does next
  work,       \* what its run has still to deliver to the queue
  job,        \* the approval it handles
  seen,       \* the dictionary when it began to iterate over it
  approvals,  \* approvals requested so far
  lost,       \* events dropped by a failing run or a restart
  faults

shared == <<drafted, pending, released, posts>>
locals == <<pc, work, job, seen>>
vars   == <<shared, locals, approvals, lost, faults>>

PCs == {"idle", "park", "notify", "look", "found", "resume", "schedule"}

\* An approval: of which item, with which text, under which correlation id (the
\* item whose chain it continues, or a fresh one), and whether the item was
\* parked when the request for it arrived.
Fresh == NoItem
Job(i, x, c, early) == [item |-> i, text |-> x, corr |-> c, parked |-> early]
NoJob == Job(NoItem, NoText, Fresh, FALSE)

Post(j) == [item |-> j.item, text |-> j.text, corr |-> j.corr, parked |-> j.parked]
Posted  == {posts[n].item : n \in DOMAIN posts}

Goto(t, to) == pc' = [pc EXCEPT ![t] = to]

EndRun(t) ==
  /\ Goto(t, "idle")
  /\ work' = [work EXCEPT ![t] = <<>>]
  /\ job' = [job EXCEPT ![t] = NoJob]
  /\ seen' = [seen EXCEPT ![t] = {}]

\* The items that only this thread's run still holds.
InHands(t) ==
  CASE pc[t] = "park"     -> Elements(work[t])
    [] pc[t] = "notify"   -> Elements(Tail(work[t]))
    [] pc[t] = "schedule" -> {job[t].item}
    [] OTHER              -> {}
-----------------------------------------------------------------------------
Init ==
  /\ drafted = {}
  /\ pending = {}
  /\ released = {}
  /\ posts = <<>>
  /\ pc = [t \in Threads |-> "idle"]
  /\ work = [t \in Threads |-> <<>>]
  /\ job = [t \in Threads |-> NoJob]
  /\ seen = [t \in Threads |-> {}]
  /\ approvals = {}
  /\ lost = {}
  /\ faults = 0

(***************************************************************************)
(* Operators as a plausible bug would have them, none of them used below.  *)
(***************************************************************************)
\* The dictionary is keyed by the type of the event.
ParkByType(t) ==
  LET i == Head(work[t])
  IN /\ pc[t] = "park"
     /\ work[t] # <<>>
     /\ i \in Parkable
     /\ pending' = {j \in pending : Type[j] # Type[i]} \cup {i}
     /\ Goto(t, "notify")
     /\ UNCHANGED <<drafted, released, posts, work, job, seen, approvals, lost, faults>>

\* All matching ids are taken, not the first.
FoundPlural(t) ==
  /\ pc[t] = "found"
  /\ job' = [job EXCEPT ![t].corr = {job[t].item} \cap pending]
  /\ seen' = [seen EXCEPT ![t] = {}]
  /\ Goto(t, "resume")
  /\ UNCHANGED <<shared, work, approvals, lost, faults>>

\* A correlation id is reused only for an item the first look did not show.
FoundLate(t) ==
  /\ pc[t] = "found"
  /\ job' = [job EXCEPT ![t].corr = IF job[t].item \in pending \ seen[t]
                                      THEN job[t].item ELSE Fresh]
  /\ seen' = [seen EXCEPT ![t] = {}]
  /\ Goto(t, "resume")
  /\ UNCHANGED <<shared, work, approvals, lost, faults>>

\* The item is looked up and stays in the dictionary.
ResumeKeeping(t) ==
  LET i == job[t].item
  IN /\ pc[t] = "resume"
     /\ i \in pending
     /\ released' = released \cup {i}
     /\ IF Type[i] = "post.drafted"
          THEN Goto(t, "schedule") /\ UNCHANGED <<work, job, seen>>
          ELSE EndRun(t)
     /\ UNCHANGED <<drafted, pending, posts, approvals, lost, faults>>

\* What is not found in the dictionary is released all the same.
ResumeUnparked(t) ==
  LET i == job[t].item
  IN /\ pc[t] = "resume"
     /\ pending' = pending \ {i}
     /\ released' = released \cup {i}
     /\ IF Type[i] = "post.drafted"
          THEN Goto(t, "schedule") /\ UNCHANGED <<work, job, seen>>
          ELSE EndRun(t)
     /\ UNCHANGED <<drafted, posts, approvals, lost, faults>>

\* The approver's text is dropped.
ResumeUnedited(t) ==
  LET i == job[t].item
  IN /\ pc[t] = "resume"
     /\ i \in pending
     /\ pending' = pending \ {i}
     /\ released' = released \cup {i}
     /\ IF Type[i] = "post.drafted"
          THEN /\ Goto(t, "schedule")
               /\ job' = [job EXCEPT ![t].text = NoText]
               /\ UNCHANGED <<work, seen>>
          ELSE EndRun(t)
     /\ UNCHANGED <<drafted, posts, approvals, lost, faults>>
-----------------------------------------------------------------------------
\* post-drafter, pitch-generator or source-scraper emits what needs a person.
Draft(t, batch) ==
  /\ pc[t] = "idle"
  /\ batch # <<>>
  /\ Elements(batch) \cap drafted = {}
  /\ drafted' = drafted \cup Elements(batch)
  /\ work' = [work EXCEPT ![t] = batch]
  /\ Goto(t, "park")
  /\ UNCHANGED <<pending, released, posts, job, seen, approvals, lost, faults>>

\* handle, _park: the event goes into the dictionary ...
Park(t) ==
  /\ pc[t] = "park"
  /\ work[t] # <<>>
  /\ Head(work[t]) \in Parkable
  /\ pending' = pending \cup {Head(work[t])}
  /\ Goto(t, "notify")
  /\ UNCHANGED <<drafted, released, posts, work, job, seen, approvals, lost, faults>>

\* ... and then a message to the reviewer.
Notify(t) ==
  /\ pc[t] = "notify"
  /\ work' = [work EXCEPT ![t] = Tail(@)]
  /\ Goto(t, "park")
  /\ UNCHANGED <<shared, job, seen, approvals, lost, faults>>

\* An untagged draft is not parked, and an event of a type the queue does not
\* subscribe to is delivered to nobody.
Unheard(t) ==
  /\ pc[t] = "park"
  /\ work[t] # <<>>
  /\ Head(work[t]) \notin Parkable
  /\ work' = [work EXCEPT ![t] = Tail(@)]
  /\ UNCHANGED <<shared, pc, job, seen, approvals, lost, faults>>

DraftDone(t) ==
  /\ pc[t] = "park"
  /\ work[t] = <<>>
  /\ EndRun(t)
  /\ UNCHANGED <<shared, approvals, lost, faults>>

\* A request to /api/review/approve
Approve(t, i, x) ==
  /\ pc[t] = "idle"
  /\ i \in drafted
  /\ <<i, x>> \in Requests
  /\ approvals' = approvals \cup {<<i, x>>}
  /\ job' = [job EXCEPT ![t] = Job(i, x, Fresh, i \in pending)]
  /\ Goto(t, "look")
  /\ UNCHANGED <<shared, work, seen, lost, faults>>

\* pending() iterates over the dictionary, which other threads change.
Look(t) ==
  /\ pc[t] = "look"
  /\ seen' = [seen EXCEPT ![t] = pending]
  /\ Goto(t, "found")
  /\ UNCHANGED <<shared, work, job, approvals, lost, faults>>

\* The correlation id of the parked item, if the iteration came across it.
Found(t) ==
  /\ pc[t] = "found"
  /\ \E view \in {seen[t], pending} :
       job' = [job EXCEPT ![t].corr = IF job[t].item \in view THEN job[t].item ELSE Fresh]
  /\ seen' = [seen EXCEPT ![t] = {}]
  /\ Goto(t, "resume")
  /\ UNCHANGED <<shared, work, approvals, lost, faults>>

\* "dictionary changed size during iteration": the request fails.
LookRaises(t) ==
  /\ pc[t] = "found"
  /\ seen[t] # pending
  /\ EndRun(t)
  /\ UNCHANGED <<shared, approvals, lost, faults>>

\* review.approved through /api/publish, with a correlation id of its own.
ApproveDirectly(t, i, x) ==
  /\ pc[t] = "idle"
  /\ i \in drafted
  /\ <<i, x>> \in Requests
  /\ approvals' = approvals \cup {<<i, x>>}
  /\ job' = [job EXCEPT ![t] = Job(i, x, Fresh, FALSE)]
  /\ Goto(t, "resume")
  /\ UNCHANGED <<shared, work, seen, lost, faults>>

\* _resume pops the item and emits the result event.  post-scheduler reacts to
\* post.approved; nobody reacts to pitch.approved.
Resume(t) ==
  LET i == job[t].item
  IN /\ pc[t] = "resume"
     /\ i \in pending
     /\ pending' = pending \ {i}
     /\ released' = released \cup {i}
     /\ IF Type[i] = "post.drafted"
          THEN Goto(t, "schedule") /\ UNCHANGED <<work, job, seen>>
          ELSE EndRun(t)
     /\ UNCHANGED <<drafted, posts, approvals, lost, faults>>

\* An unknown or already handled approval does nothing.
ResumeNothing(t) ==
  /\ pc[t] = "resume"
  /\ job[t].item \notin pending
  /\ EndRun(t)
  /\ UNCHANGED <<shared, approvals, lost, faults>>

\* post-scheduler publishes at once.
Publish(t) ==
  /\ pc[t] = "schedule"
  /\ posts' = Append(posts, Post(job[t]))
  /\ EndRun(t)
  /\ UNCHANGED <<drafted, pending, released, approvals, lost, faults>>

\* LinkedIn has published the post, but its answer is lost.
PublishUnanswered(t) ==
  /\ pc[t] = "schedule"
  /\ faults < MaxFaults
  /\ faults' = faults + 1
  /\ posts' = Append(posts, Post(job[t]))
  /\ EndRun(t)
  /\ UNCHANGED <<drafted, pending, released, approvals, lost>>

\* A call to Slack, LinkedIn or the trace log fails and ends the run.
Fail(t) ==
  /\ pc[t] # "idle"
  /\ faults < MaxFaults
  /\ faults' = faults + 1
  /\ lost' = lost \cup InHands(t)
  /\ EndRun(t)
  /\ UNCHANGED <<shared, approvals>>

\* The process restarts: parked items live in memory.
Crash ==
  /\ faults < MaxFaults
  /\ faults' = faults + 1
  /\ lost' = lost \cup pending \cup UNION {InHands(t) : t \in Threads}
  /\ pending' = {}
  /\ pc' = [t \in Threads |-> "idle"]
  /\ work' = [t \in Threads |-> <<>>]
  /\ job' = [t \in Threads |-> NoJob]
  /\ seen' = [t \in Threads |-> {}]
  /\ UNCHANGED <<drafted, released, posts, approvals>>

Step(t) ==
  \/ Park(t)
  \/ Notify(t)
  \/ Unheard(t)
  \/ DraftDone(t)
  \/ Look(t)
  \/ Found(t)
  \/ LookRaises(t)
  \/ Resume(t)
  \/ ResumeNothing(t)
  \/ Publish(t)
  \/ PublishUnanswered(t)
  \/ Fail(t)

Next ==
  \/ \E t \in Threads, batch \in Batches : Draft(t, batch)
  \/ \E t \in Threads, i \in Items, x \in Texts \cup {NoText} : Approve(t, i, x)
  \/ \E t \in Threads, i \in Items, x \in Texts \cup {NoText} : ApproveDirectly(t, i, x)
  \/ \E t \in Threads : Step(t)
  \/ Crash

Spec == Init /\ [][Next]_vars
-----------------------------------------------------------------------------
Jobs == [item : Items \cup {NoItem}, text : Texts \cup {NoText},
         corr : Items \cup {NoItem}, parked : BOOLEAN]

\* Every variable has its type.
TypeOK ==
  /\ drafted \subseteq Items
  /\ pending \subseteq Items
  /\ released \subseteq Items
  /\ posts \in Seq(Jobs)
  /\ pc \in [Threads -> PCs]
  /\ work \in [Threads -> Seq(Items)]
  /\ job \in [Threads -> Jobs]
  /\ seen \in [Threads -> SUBSET Items]
  /\ approvals \subseteq Requests
  /\ lost \subseteq Items
  /\ faults \in Nat

\* An event that needs a person is in one place at a time: in the hands of one
\* run, in the queue, released, or lost to a fault; two runs never hold it,
\* and what was released or lost is not in the queue any more.
OnePlace ==
  \A i \in Items :
    /\ \A t, u \in Threads : i \in InHands(t) \cap InHands(u) => t = u
    /\ i \in pending => i \in drafted \ (released \cup lost)
    /\ i \in pending => \A t \in Threads : i \notin InHands(t)
    /\ \A t \in Threads : i \in InHands(t) => i \in drafted \ (lost \cup Posted)
    /\ i \in Posted => i \in released \ lost

\* No tagged event of a type the queue subscribes to disappears without a fault:
\* it is in the hands of a run, parked, released or lost (human_review_queue.py
\* handle, _park, _resume; app.py review_approve).
NoneForgotten ==
  \A i \in drafted \cap Parkable :
    \/ i \in pending \cup released \cup lost
    \/ \E t \in Threads : i \in InHands(t)

\* The same of every tagged event, as the documents have it: "Reacts to any event
\* tagged requires_human=true", source.inference.low_confidence among them, which
\* is "parked by the existing human-review-queue" (layer1-nodes.md).
\* The code breaks it: nobody hears that event (README, section 3).
TaggedIsParked ==
  \A i \in drafted \cap Gated :
    \/ i \in pending \cup released \cup lost
    \/ \E t \in Threads : i \in InHands(t)

\* However often, however early and on however many threads it is approved,
\* however a request ends, an item is posted once.
PostedOnce ==
  \A m, n \in DOMAIN posts : posts[m].item = posts[n].item => m = n

\* What is posted is what some approval of that very item asked for.
PostedAsApproved ==
  \A n \in DOMAIN posts : <<posts[n].item, posts[n].text>> \in approvals

\* "The resume threads onto the original draft run": a post whose approval came
\* through the endpoint while the item was parked carries the item's id.
Threaded ==
  \A n \in DOMAIN posts : posts[n].parked => posts[n].corr = posts[n].item

\* How far each item has come, for Gate.
Stage(i) ==
  IF i \notin drafted   THEN "none"
  ELSE IF i \in lost     THEN "lost"
  ELSE IF i \in Posted   THEN "delivered"
  ELSE IF i \in released THEN "released"
  ELSE IF i \in pending  THEN "waiting"
  ELSE "drafted"

ReviewGate == INSTANCE Gate WITH stage <- [i \in Items |-> Stage(i)]

\* The queue is the gate it promises to be.
ImplementsGate == ReviewGate!Spec
=============================================================================
