---------------------------- MODULE ServerProofs ----------------------------
(***************************************************************************)
(* For any number of threads, requests, sources and feeds, what the dev    *)
(* server's shared state keeps whatever its threads do.                    *)
(*                                                                         *)
(* IInv: where threads are, and that the raw-record store, which takes no  *)
(* lock, numbers its rows apart.  Shaped: what is queued for a thread and  *)
(* what its handler remembers.  On these two rest, one after the other:    *)
(* the ends of the graph's edges (Linked), what the founder is told of a   *)
(* belief (Believed), the subscriptions that can be cancelled (Booked,     *)
(* Held), the payments (LostOnce, Charged), the replies (Traced, Replied)  *)
(* and the way of every lead from the raw store to the founder (Followed,  *)
(* Sent).                                                                  *)
(***************************************************************************)
EXTENDS Server, SequenceTheorems, FiniteSetTheorems, TLAPS

\* A sequence, whatever its elements.
IsSeq(s) == s \in Seq(Range(s))

\* The row that t has numbered and not stored yet.
InHand(t) == loc[t].pc = "store"

Typed ==
  /\ DOMAIN loc = Threads /\ DOMAIN todo = Threads /\ DOMAIN run = Threads
  /\ \A t \in Threads :
       /\ "pc" \in DOMAIN loc[t]
       /\ run[t] = [root |-> run[t].root, did |-> run[t].did, cut |-> run[t].cut]
  /\ overlapped \in BOOLEAN
  /\ seq \in Nat
  /\ IsSeq(rows)

\* Only a thread that serves has deliveries to make, only one that has is inside a
\* handler, and a row in hand is source-scraper's.
Placed ==
  \A t \in Threads :
    /\ todo[t] # <<>> => Serving(t)
    /\ todo[t] = <<>> => loc[t] = Start
    /\ InHand(t) => Handling(t, "source-scraper")

\* A number that was taken is on one row, stored or in hand.
Numbered ==
  /\ \A i \in DOMAIN rows : rows[i].seq \in 1 .. seq
  /\ \A i, j \in DOMAIN rows : i # j => rows[i].seq # rows[j].seq
  /\ \A t \in Threads : InHand(t) =>
       /\ loc[t].row.seq \in 1 .. seq
       /\ \A i \in DOMAIN rows : rows[i].seq # loc[t].row.seq
       /\ \A u \in Threads \ {t} : InHand(u) => loc[u].row.seq # loc[t].row.seq

\* Two threads inside the ingestion nodes have been noticed.
Apart ==
  \A t \in Threads : \A u \in Threads \ {t} : Ingesting(t) /\ Ingesting(u) => overlapped

\* Until then a key is on one row, and a row in hand has a new one.
Unique ==
  ~overlapped =>
    /\ \A i \in DOMAIN rows : Own(rows[i].rec) \in keys
    /\ \A i, j \in DOMAIN rows : i # j => Own(rows[i].rec) # Own(rows[j].rec)
    /\ \A t \in Threads : InHand(t) => Own(loc[t].row.rec) \notin keys

IInv == Typed /\ Placed /\ Numbered /\ Apart /\ Unique
-----------------------------------------------------------------------------
\* What a sequence holds after an append.
LEMMA Appending ==
  ASSUME NEW s, IsSeq(s), NEW e
  PROVE  /\ IsSeq(Append(s, e))
         /\ Len(s) \in Nat
         /\ DOMAIN s = 1 .. Len(s)
         /\ DOMAIN Append(s, e) = 1 .. Len(s) + 1
         /\ \A i \in DOMAIN s : Append(s, e)[i] = s[i]
         /\ Append(s, e)[Len(s) + 1] = e
<1>1. DEFINE S == Range(s) \cup {e}
<1>2. s \in Seq(S)
  BY SeqDef DEF IsSeq
<1>3. e \in S
  OBVIOUS
<1>4. /\ Append(s, e) \in Seq(S)
      /\ Len(s) \in Nat
      /\ DOMAIN s = 1 .. Len(s)
      /\ DOMAIN Append(s, e) = 1 .. Len(s) + 1
      /\ \A i \in DOMAIN s : Append(s, e)[i] = s[i]
      /\ Append(s, e)[Len(s) + 1] = e
  BY <1>2, <1>3
<1>5. PICK n \in Nat : Append(s, e) \in [1 .. n -> S]
  <2>1. Seq(S) = UNION {[1 .. n -> S] : n \in Nat}
    BY SeqDef
  <2> QED
    BY <1>4, <2>1
<1>6. Append(s, e) \in [1 .. n -> Range(Append(s, e))]
  BY <1>5 DEF Range
<1>7. IsSeq(Append(s, e))
  <2>1. Seq(Range(Append(s, e))) = UNION {[1 .. k -> Range(Append(s, e))] : k \in Nat}
    BY SeqDef
  <2> QED
    BY <1>6, <2>1 DEF IsSeq
<1> QED
  BY <1>4, <1>7

\* A step that touches no thread but t.
Only(t) ==
  /\ DOMAIN loc' = Threads /\ DOMAIN todo' = Threads /\ DOMAIN run' = Threads
  /\ \A u \in Threads \ {t} : loc'[u] = loc[u] /\ todo'[u] = todo[u] /\ run'[u] = run[u]

\* A step of t that leaves t at the start of a handler, or with nothing to do.
Leaves(t) ==
  /\ Only(t)
  /\ loc'[t] = Start
  /\ run'[t] = [root |-> run'[t].root, did |-> run'[t].did, cut |-> run'[t].cut]
  /\ todo'[t] # <<>> => run'[t].root # <<>>

\* A step of t within its handler.
Moves(t) ==
  /\ todo[t] # <<>>
  /\ Only(t)
  /\ todo'[t] = todo[t] /\ run'[t] = run[t]
  /\ "pc" \in DOMAIN loc'[t]

\* A handler that returns or raises leaves.
LEMMA Leaving ==
  ASSUME IInv, NEW t \in Threads, todo[t] # <<>>, Raise(t) \/ \E outs : Finish(t, outs)
  PROVE  Leaves(t)
<1>0. /\ DOMAIN loc = Threads /\ DOMAIN todo = Threads /\ DOMAIN run = Threads
      /\ run[t] = [root |-> run[t].root, did |-> run[t].did, cut |-> run[t].cut]
      /\ run[t].root # <<>>
  BY DEF IInv, Typed, Placed, Serving
<1>1. CASE Raise(t)
  BY <1>0, <1>1 DEF Raise, Idling, Idle, Leaves, Only
<1>2. ASSUME NEW outs, Finish(t, outs)
      PROVE  Leaves(t)
  <2>1. PICK d : run' = [run EXCEPT ![t] = [run[t] EXCEPT !.did = d]]
    BY <1>2 DEF Finish, Capture
  <2>2. run'[t] = [root |-> run[t].root, did |-> d, cut |-> run[t].cut]
    BY <1>0, <2>1
  <2>3. PICK q : todo' = [todo EXCEPT ![t] = q]
    BY <1>2 DEF Finish
  <2>4. loc' = [loc EXCEPT ![t] = Start]
    BY <1>2 DEF Finish
  <2>5. Only(t)
    BY <1>0, <2>1, <2>3, <2>4 DEF Only
  <2> QED
    BY <2>2, <2>4, <2>5, <1>0 DEF Leaves
<1> QED
  BY <1>1, <1>2

\* A handler that goes on moves.
LEMMA Moving ==
  ASSUME IInv, NEW t \in Threads, todo[t] # <<>>, NEW there, Goto(t, there),
         "pc" \in DOMAIN there
  PROVE  Moves(t) /\ loc'[t] = there
BY DEF Moves, Only, Goto, IInv, Typed

\* A step that leaves the raw store alone, takes no row in hand and takes nobody
\* into the ingestion nodes unnoticed.
LEMMA Quiet ==
  ASSUME IInv, NEW t \in Threads,
         Leaves(t) \/ (Moves(t) /\ loc'[t].pc # "store"),
         UNCHANGED rawVars,
         overlapped' \in BOOLEAN,
         overlapped => overlapped',
         ~overlapped' => ~Ingesting(t)' \/ Ingesting(t)
                         \/ \A u \in Threads \ {t} : ~Ingesting(u)
  PROVE  IInv'
<1>0. rows' = rows /\ keys' = keys /\ seq' = seq
  BY DEF rawVars
<1>1. Only(t) /\ "pc" \in DOMAIN loc'[t] /\ loc'[t].pc # "store"
  BY DEF Leaves, Moves, Start
<1>2. run'[t] = [root |-> run'[t].root, did |-> run'[t].did, cut |-> run'[t].cut]
  BY DEF Leaves, Moves, IInv, Typed
<1>3. (todo'[t] # <<>> => Serving(t)') /\ (todo'[t] = <<>> => loc'[t] = Start)
  <2>1. CASE Leaves(t)
    BY <2>1 DEF Leaves, Serving
  <2>2. CASE Moves(t)
    BY <2>2 DEF Moves, Serving, IInv, Placed
  <2> QED
    BY <2>1, <2>2
<1>4. \A u \in Threads \ {t} :
        /\ (InHand(u)' <=> InHand(u)) /\ (Serving(u)' <=> Serving(u))
        /\ (Ingesting(u)' <=> Ingesting(u))
        /\ (Handling(u, "source-scraper")' <=> Handling(u, "source-scraper"))
  BY <1>1 DEF Only, InHand, Serving, Ingesting, Handling
<1>5. \A u \in Threads : InHand(u)' => u # t /\ InHand(u) /\ loc'[u] = loc[u]
  BY <1>1, <1>4 DEF InHand, Only
<1>6. Typed'
  BY <1>0, <1>1, <1>2 DEF Only, IInv, Typed, IsSeq
<1>7. Placed'
  BY <1>1, <1>3, <1>4, <1>5 DEF Only, IInv, Placed
<1>8. Numbered'
  BY <1>0, <1>5 DEF IInv, Numbered
<1>9. Apart'
  BY <1>4 DEF IInv, Apart
<1>10. Unique'
  BY <1>0, <1>5 DEF IInv, Unique
<1> QED
  BY <1>6, <1>7, <1>8, <1>9, <1>10 DEF IInv

\* A step that leaves a handler, or starts none, and the raw store alone.
LEMMA QuietLeave ==
  ASSUME IInv, NEW t \in Threads, Leaves(t), UNCHANGED <<rawVars, overlapped>>
  PROVE  IInv'
<1>1. ~Ingesting(t)'
  BY DEF Leaves, Ingesting, Start
<1> QED
  BY <1>1, Quiet DEF IInv, Typed

\* A step within a handler that takes no row in hand and leaves the raw store alone.
LEMMA QuietMove ==
  ASSUME IInv, NEW t \in Threads, todo[t] # <<>>, NEW there, Goto(t, there),
         "pc" \in DOMAIN there, there.pc # "store",
         UNCHANGED <<rawVars, overlapped>>,
         Ingesting(t)
           \/ ~\E n \in {"source-scraper", "knowledge-builder"} : Handling(t, n)
  PROVE  IInv'
<1>1. Moves(t) /\ loc'[t] = there
  BY Moving
<1>2. Ingesting(t)' => Ingesting(t)
  BY <1>1 DEF Moves, Ingesting, Handling
<1> QED
  BY <1>1, <1>2, Quiet DEF IInv, Typed

-----------------------------------------------------------------------------
\* The step of a node that is not source-scraper or knowledge-builder.
LEMMA OtherNode ==
  ASSUME IInv, NEW t \in Threads, UNCHANGED feedVars, todo[t] # <<>>,
         \/ Raise(t)
         \/ \E outs : Finish(t, outs)
         \/ /\ ~\E n \in {"source-scraper", "knowledge-builder"} : Handling(t, n)
            /\ \E there : /\ Goto(t, there)
                          /\ "pc" \in DOMAIN there /\ there.pc # "store"
  PROVE  IInv'
<1>1. UNCHANGED <<rawVars, overlapped>>
  BY DEF feedVars, rawVars
<1>2. CASE Raise(t) \/ \E outs : Finish(t, outs)
  BY <1>1, <1>2, Leaving, QuietLeave
<1>3. ASSUME ~\E n \in {"source-scraper", "knowledge-builder"} : Handling(t, n),
             NEW there, Goto(t, there), "pc" \in DOMAIN there, there.pc # "store"
      PROVE  IInv'
  BY <1>1, <1>3, QuietMove
<1> QED
  BY <1>2, <1>3

\* A run that a reset cut is a run of the same event.
LEMMA Cutting ==
  ASSUME NEW r, r = [root |-> r.root, did |-> r.did, cut |-> r.cut],
         NEW s, s = [r EXCEPT !.cut = TRUE]
  PROVE  s = [root |-> s.root, did |-> s.did, cut |-> s.cut] /\ s.root = r.root
<1>1. DOMAIN s = {"root", "did", "cut"}
  OBVIOUS
<1>2. s.root = r.root
  OBVIOUS
<1>3. s = [x \in {"root", "did", "cut"} |-> s[x]]
  BY <1>1
<1> QED
  BY <1>2, <1>3

\* The threads' own steps.
LEMMA RequestStep ==
  ASSUME IInv, NEW t \in Threads, Publish(t) \/ Reset(t) \/ Reply(t), UNCHANGED feedVars
  PROVE  IInv'
<1>0. /\ UNCHANGED <<rawVars, overlapped>>
      /\ DOMAIN loc = Threads /\ DOMAIN todo = Threads /\ DOMAIN run = Threads
  BY DEF feedVars, rawVars, IInv, Typed
<1>1. CASE Publish(t)
  <2>1. loc[t] = Start
    BY <1>1 DEF Publish, Asked, IInv, Placed
  <2>2. PICK n : run' = [run EXCEPT ![t] = [root |-> <<t, n>>, did |-> <<>>, cut |-> FALSE]]
    BY <1>1 DEF Publish
  <2>3. PICK q : todo' = [todo EXCEPT ![t] = q]
    BY <1>1 DEF Publish
  <2>4. loc' = loc
    BY <1>1 DEF Publish
  <2>5. <<t, n>> # <<>>
    OBVIOUS
  <2>6. Leaves(t)
    BY <1>0, <2>1, <2>2, <2>3, <2>4, <2>5 DEF Leaves, Only
  <2> QED
    BY <1>0, <2>6, QuietLeave
<1>2. CASE Reply(t)
  <2>1. Leaves(t)
    BY <1>0, <1>2 DEF Reply, Idling, Idle, Leaves, Only, IInv, Placed
  <2> QED
    BY <1>0, <2>1, QuietLeave
<1>3. CASE Reset(t)
  <2>1. /\ loc' = loc /\ todo' = todo /\ rows' = rows /\ keys' = keys /\ seq' = seq
        /\ overlapped' = overlapped
        /\ run' = [u \in Threads |-> IF Serving(u) THEN [run[u] EXCEPT !.cut = TRUE] ELSE run[u]]
    BY <1>0, <1>3 DEF Reset, rawVars
  <2>2. \A u \in Threads :
          /\ run'[u] = [root |-> run'[u].root, did |-> run'[u].did, cut |-> run'[u].cut]
          /\ run'[u].root = run[u].root
    <3> SUFFICES ASSUME NEW u \in Threads
                 PROVE  /\ run'[u] = [root |-> run'[u].root, did |-> run'[u].did,
                                      cut |-> run'[u].cut]
                        /\ run'[u].root = run[u].root
      OBVIOUS
    <3>1. run[u] = [root |-> run[u].root, did |-> run[u].did, cut |-> run[u].cut]
      BY DEF IInv, Typed
    <3>2. run'[u] = [run[u] EXCEPT !.cut = TRUE] \/ run'[u] = run[u]
      BY <2>1
    <3> QED
      BY <3>1, <3>2, Cutting
  <2>3. \A u \in Threads :
          /\ Serving(u)' <=> Serving(u)
          /\ Ingesting(u)' <=> Ingesting(u)
          /\ InHand(u)' <=> InHand(u)
          /\ Handling(u, "source-scraper")' <=> Handling(u, "source-scraper")
    BY <2>1, <2>2 DEF Serving, Ingesting, InHand, Handling
  <2>4. Typed'
    BY <2>1, <2>2, <1>0 DEF IInv, Typed, IsSeq
  <2>5. Placed'
    BY <2>1, <2>3 DEF IInv, Placed
  <2>6. Numbered'
    BY <2>1, <2>3 DEF IInv, Numbered
  <2>7. Apart'
    BY <2>1, <2>3 DEF IInv, Apart
  <2>8. Unique'
    BY <2>1, <2>3 DEF IInv, Unique
  <2> QED
    BY <2>4, <2>5, <2>6, <2>7, <2>8 DEF IInv
<1> QED
  BY <1>1, <1>2, <1>3

\* The steps of the nodes of Tracking.
LEMMA TrackingSteps ==
  ASSUME IInv, NEW t \in Threads, TrackingStep(t), UNCHANGED feedVars
  PROVE  IInv'
<1>1. CASE React(t) \/ ReactFails(t)
  <2>1. todo[t] # <<>>
    BY <1>1 DEF React, ReactFails, Handling
  <2>2. Raise(t) \/ \E outs : Finish(t, outs)
    BY <1>1 DEF React, ReactFails
  <2> QED
    BY <2>1, <2>2, OtherNode
<1>2. CASE TrackerIgnores(t)
  BY <1>2, OtherNode DEF TrackerIgnores, At, Handling
<1>3. CASE TrackerWrites(t)
  <2>1. Goto(t, [pc |-> "announce"]) /\ At(t, "thesis-tracker", "start")
    BY <1>3 DEF TrackerWrites
  <2>2. ~\E n \in {"source-scraper", "knowledge-builder"} : Handling(t, n)
    BY <2>1 DEF At, Handling
  <2> QED
    BY <2>1, <2>2, OtherNode DEF At, Handling
<1>4. CASE TrackerAnnounces(t)
  BY <1>4, OtherNode DEF TrackerAnnounces, Update, At, Handling
<1>5. CASE NotifierPosts(t)
  <2>1. Goto(t, [pc |-> "mail"]) /\ At(t, "founder-notifier", "start")
    BY <1>5 DEF NotifierPosts
  <2>2. ~\E n \in {"source-scraper", "knowledge-builder"} : Handling(t, n)
    BY <2>1 DEF At, Handling
  <2> QED
    BY <2>1, <2>2, OtherNode DEF At, Handling
<1>6. CASE NotifierMails(t) \/ NotifierFails(t)
  BY <1>6, OtherNode DEF NotifierMails, NotifierFails, At, Handling
<1> QED
  BY <1>1, <1>2, <1>3, <1>4, <1>5, <1>6 DEF TrackingStep

\* The steps of subscription-manager.
LEMMA BillingSteps ==
  ASSUME IInv, NEW t \in Threads, BillingStep(t), UNCHANGED feedVars
  PROVE  IInv'
<1>1. /\ Handling(t, "subscription-manager")
      /\ todo[t] # <<>>
      /\ "pc" \in DOMAIN loc[t]
  BY DEF BillingStep, TakeId, Create, Remember, Charge, Forget, Cancel, BillingFails,
         Activating, Cancelling, At, Handling, IInv, Typed
<1>2. ~\E n \in {"source-scraper", "knowledge-builder"} : Handling(t, n)
  BY <1>1 DEF Handling
<1>3. CASE TakeId(t)
  BY <1>1, <1>2, <1>3, OtherNode DEF TakeId
<1>4. CASE Create(t)
  <2>1. Goto(t, [loc[t] EXCEPT !.pc = "remember"])
    BY <1>4 DEF Create
  <2>2. LET there == [loc[t] EXCEPT !.pc = "remember"]
        IN "pc" \in DOMAIN there /\ there.pc # "store"
    BY <1>1
  <2> QED
    BY <1>1, <1>2, <2>1, <2>2, OtherNode
<1>5. CASE Remember(t)
  <2>1. Goto(t, [loc[t] EXCEPT !.pc = "charge"])
    BY <1>5 DEF Remember
  <2>2. LET there == [loc[t] EXCEPT !.pc = "charge"]
        IN "pc" \in DOMAIN there /\ there.pc # "store"
    BY <1>1
  <2> QED
    BY <1>1, <1>2, <2>1, <2>2, OtherNode
<1>6. CASE Charge(t) \/ Cancel(t) \/ BillingFails(t)
  BY <1>1, <1>6, OtherNode DEF Charge, Activated, Cancel, BillingFails
<1>7. CASE Forget(t)
  <2>1. CASE \E outs : Finish(t, outs)
    BY <1>1, <2>1, OtherNode
  <2>2. ASSUME NEW id, Goto(t, [pc |-> "cancel", id |-> id])
        PROVE  IInv'
    BY <1>1, <1>2, <2>2, OtherNode
  <2>3. \/ \E outs : Finish(t, outs)
        \/ \E id : Goto(t, [pc |-> "cancel", id |-> id])
    BY <1>7 DEF Forget
  <2> QED
    BY <2>1, <2>2, <2>3
<1> QED
  BY <1>3, <1>4, <1>5, <1>6, <1>7 DEF BillingStep

-----------------------------------------------------------------------------
\* A thread that enters the ingestion nodes says so when another is inside.
LEMMA Entering ==
  ASSUME IInv, NEW t \in Threads, Leaves(t) \/ (Moves(t) /\ loc'[t].pc # "store"),
         Overlap(t), UNCHANGED rawVars
  PROVE  IInv'
<1>1. overlapped \in BOOLEAN
  BY DEF IInv, Typed
<1>2. overlapped' \in BOOLEAN /\ (overlapped => overlapped')
  BY <1>1 DEF Overlap
<1>3. ~overlapped' => \A u \in Threads \ {t} : ~Ingesting(u)
  BY DEF Overlap
<1> QED
  BY <1>2, <1>3, Quiet

\* What Scrape does to the threads.
LEMMA Scraping ==
  ASSUME IInv, NEW t \in Threads, todo[t] # <<>>, NEW srcs, NEW outs, Scrape(t, srcs, outs)
  PROVE  Leaves(t) \/ (Moves(t) /\ loc'[t].pc # "store")
<1>1. CASE srcs = <<>>
  BY <1>1, Leaving DEF Scrape
<1>2. CASE srcs # <<>>
  <2>1. Goto(t, [pc |-> "fetch", srcs |-> srcs, outs |-> outs])
    BY <1>2 DEF Scrape
  <2>2. Moves(t) /\ loc'[t] = [pc |-> "fetch", srcs |-> srcs, outs |-> outs]
    BY <2>1, Moving
  <2> QED
    BY <2>2
<1> QED
  BY <1>1, <1>2

\* The steps of source-scraper but the two of the store, of knowledge-builder and
\* of insight-inferrer.
LEMMA FeedSteps ==
  ASSUME IInv, NEW t \in Threads, FeedsStep(t), ~Claim(t), ~Store(t)
  PROVE  IInv'
<1>1. CASE ScrapeStart(t)
  <2>1. todo[t] # <<>>
    BY <1>1 DEF ScrapeStart, At, Handling
  <2>2. Leaves(t) \/ (Moves(t) /\ loc'[t].pc # "store")
    BY <1>1, <2>1, Scraping DEF ScrapeStart
  <2> QED
    BY <1>1, <2>2, Entering DEF ScrapeStart
<1>2. CASE BuilderRead(t)
  <2>1. todo[t] # <<>>
    BY <1>2 DEF BuilderRead, At, Handling
  <2>2. Leaves(t) \/ (Moves(t) /\ loc'[t].pc # "store")
    <3>1. CASE Finish(t, <<>>)
      BY <2>1, <3>1, Leaving
    <3>2. ASSUME NEW new, Goto(t, [pc |-> "extract", new |-> new])
          PROVE  Moves(t) /\ loc'[t].pc # "store"
      <4>1. Moves(t) /\ loc'[t] = [pc |-> "extract", new |-> new]
        BY <2>1, <3>2, Moving
      <4> QED
        BY <4>1
    <3> QED
      BY <1>2, <3>1, <3>2 DEF BuilderRead
  <2> QED
    BY <1>2, <2>2, Entering DEF BuilderRead
<1>3. ASSUME todo[t] # <<>>, Raise(t) \/ \E outs : Finish(t, outs), UNCHANGED <<rawVars, overlapped>>
      PROVE  IInv'
  BY <1>3, Leaving, QuietLeave
<1>4. CASE FetchFails(t) \/ Infer(t) \/ InferFails(t) \/ Refresh(t)
  BY <1>4, <1>3 DEF FetchFails, Infer, InferFails, Refresh, At, Handling, feedVars, rawVars
<1>5. ASSUME Ingesting(t), NEW there, Goto(t, there), "pc" \in DOMAIN there, there.pc # "store",
             UNCHANGED <<rawVars, overlapped>>
      PROVE  IInv'
  BY <1>5, QuietMove DEF Ingesting, Handling
<1>6. CASE Fetch(t)
  <2>1. Ingesting(t)
    BY <1>6 DEF Fetch, At, Ingesting
  <2>2. PICK recs : Goto(t, [pc |-> "insert", srcs |-> loc[t].srcs, outs |-> loc[t].outs,
                             recs |-> recs])
    BY <1>6 DEF Fetch
  <2> QED
    BY <1>5, <1>6, <2>1, <2>2 DEF Fetch, feedVars, rawVars
<1>7. CASE SourceDone(t)
  <2>1. todo[t] # <<>> /\ Ingesting(t)
    BY <1>7 DEF SourceDone, At, Handling, Ingesting
  <2>2. Leaves(t) \/ (Moves(t) /\ loc'[t].pc # "store")
    BY <1>7, <2>1, Scraping DEF SourceDone
  <2> QED
    BY <1>7, <2>1, <2>2, Quiet DEF SourceDone, feedVars, rawVars, IInv, Typed
<1>8. CASE BuilderExtract(t)
  <2>1. Ingesting(t)
    BY <1>8 DEF BuilderExtract, At, Ingesting
  <2>2. PICK e, f, m : Goto(t, [pc |-> "advance", ents |-> e, edges |-> f, mark |-> m])
    BY <1>8 DEF BuilderExtract
  <2> QED
    BY <1>5, <1>8, <2>1, <2>2 DEF BuilderExtract, feedVars, rawVars
<1>9. CASE BuilderAdvance(t)
  <2>1. Ingesting(t)
    BY <1>9 DEF BuilderAdvance, At, Ingesting
  <2> QED
    BY <1>5, <1>9, <2>1 DEF BuilderAdvance, rawVars
<1>10. CASE UpsertEntities(t)
  <2>1. Ingesting(t)
    BY <1>10 DEF UpsertEntities, At, Ingesting
  <2> QED
    BY <1>5, <1>10, <2>1 DEF UpsertEntities, rawVars
<1>11. CASE UpsertEdges(t)
  <2>1. Ingesting(t)
    BY <1>11 DEF UpsertEdges, At, Ingesting
  <2> QED
    BY <1>5, <1>11, <2>1 DEF UpsertEdges, rawVars
<1>12. CASE RollUp(t)
  <2>1. Ingesting(t)
    BY <1>12 DEF RollUp, At, Ingesting
  <2>2. PICK v : Goto(t, [pc |-> "refresh", views |-> v])
    BY <1>12 DEF RollUp
  <2> QED
    BY <1>5, <1>12, <2>1, <2>2 DEF RollUp, feedVars, rawVars
<1> QED
  BY <1>1, <1>2, <1>4, <1>6, <1>7, <1>8, <1>9, <1>10, <1>11, <1>12 DEF FeedsStep

\* A number is taken: no row has it yet, and if nobody else is inside, no row has
\* the key either.
LEMMA ClaimStep ==
  ASSUME IInv, NEW t \in Threads, Claim(t)
  PROVE  IInv'
<1>1. /\ todo[t] # <<>> /\ Ingesting(t) /\ Handling(t, "source-scraper")
      /\ loc[t].pc = "insert" /\ "pc" \in DOMAIN loc[t]
  BY DEF Claim, At, Handling, Ingesting, IInv, Typed
<1>2. rows' = rows /\ keys' = keys /\ overlapped' = overlapped
  BY DEF Claim
<1>3. CASE seq' = seq /\ Goto(t, [loc[t] EXCEPT !.recs = Tail(loc[t].recs)])
  <2>1. LET there == [loc[t] EXCEPT !.recs = Tail(loc[t].recs)]
        IN "pc" \in DOMAIN there /\ there.pc # "store"
    BY <1>1
  <2> QED
    BY <1>1, <1>2, <1>3, <2>1, QuietMove DEF rawVars
<1>4. ASSUME Own(Head(loc[t].recs)) \notin keys, seq' = seq + 1,
             Goto(t, [pc |-> "store", srcs |-> loc[t].srcs, outs |-> loc[t].outs,
                      recs |-> Tail(loc[t].recs),
                      row |-> [seq |-> seq + 1, rec |-> Head(loc[t].recs)]])
      PROVE  IInv'
  <2>1. /\ Moves(t)
        /\ loc'[t].pc = "store" /\ loc'[t].row.seq = seq + 1
        /\ loc'[t].row.rec = Head(loc[t].recs)
    BY <1>1, <1>4, Moving
  <2>2. seq \in Nat /\ seq' \in Nat /\ seq + 1 \in 1 .. seq' /\ \A n \in 1 .. seq : n \in 1 .. seq' /\ n # seq + 1
    BY <1>4 DEF IInv, Typed
  <2>3. \A u \in Threads \ {t} :
          /\ loc'[u] = loc[u]
          /\ (InHand(u)' <=> InHand(u)) /\ (Serving(u)' <=> Serving(u))
          /\ (Ingesting(u)' <=> Ingesting(u))
          /\ (Handling(u, "source-scraper")' <=> Handling(u, "source-scraper"))
    BY <2>1 DEF Moves, Only, InHand, Serving, Ingesting, Handling
  <2>4. /\ Handling(t, "source-scraper")' /\ (Serving(t)' <=> Serving(t))
        /\ todo'[t] # <<>> /\ run'[t] = run[t] /\ InHand(t)'
    BY <1>1, <2>1 DEF Moves, Handling, Serving, InHand
  <2>5. Typed'
    BY <1>2, <2>1, <2>2, <2>4 DEF Moves, Only, IInv, Typed, IsSeq
  <2>6. Placed'
    BY <1>1, <2>1, <2>3, <2>4 DEF Moves, Only, IInv, Placed
  <2>7. Numbered'
    <3>1. /\ \A i \in DOMAIN rows : rows[i].seq \in 1 .. seq
          /\ \A u \in Threads : InHand(u) => loc[u].row.seq \in 1 .. seq
      BY DEF IInv, Numbered
    <3>2. /\ \A i \in DOMAIN rows : rows[i].seq \in 1 .. seq' /\ rows[i].seq # seq + 1
          /\ \A u \in Threads : InHand(u) =>
               loc[u].row.seq \in 1 .. seq' /\ loc[u].row.seq # seq + 1
      BY <2>2, <3>1
    <3> QED
      BY <1>2, <2>1, <2>2, <2>3, <3>2 DEF IInv, Numbered
  <2>8. Apart'
    BY <1>1, <1>2, <2>3 DEF IInv, Apart
  <2>9. Unique'
    BY <1>2, <1>4, <2>1, <2>3 DEF IInv, Unique
  <2> QED
    BY <2>5, <2>6, <2>7, <2>8, <2>9 DEF IInv
<1> QED
  BY <1>3, <1>4 DEF Claim

\* A row is stored: with the number only it has, and if nobody else is inside,
\* with the key only it has.
LEMMA StoreStep ==
  ASSUME IInv, NEW t \in Threads, Store(t)
  PROVE  IInv'
<1> DEFINE row == loc[t].row
<1>1. /\ todo[t] # <<>> /\ Ingesting(t) /\ InHand(t)
      /\ seq' = seq /\ overlapped' = overlapped
      /\ rows' = Append(rows, row) /\ keys' = keys \cup {Own(row.rec)}
  BY DEF Store, At, Handling, Ingesting, InHand
<1>2. Moves(t) /\ loc'[t].pc = "insert"
  BY <1>1, Moving DEF Store
<1>3. \A u \in Threads \ {t} :
        /\ loc'[u] = loc[u]
        /\ (InHand(u)' <=> InHand(u)) /\ (Serving(u)' <=> Serving(u))
        /\ (Ingesting(u)' <=> Ingesting(u))
        /\ (Handling(u, "source-scraper")' <=> Handling(u, "source-scraper"))
  BY <1>2 DEF Moves, Only, InHand, Serving, Ingesting, Handling
<1>4. ~InHand(t)' /\ (Serving(t)' <=> Serving(t)) /\ todo'[t] # <<>> /\ run'[t] = run[t]
  BY <1>1, <1>2 DEF Moves, Serving, InHand
<1>5. /\ IsSeq(rows') /\ Len(rows) \in Nat /\ DOMAIN rows = 1 .. Len(rows)
      /\ DOMAIN rows' = 1 .. Len(rows) + 1
      /\ \A i \in DOMAIN rows : rows'[i] = rows[i]
      /\ rows'[Len(rows) + 1] = row
  BY <1>1, Appending DEF IInv, Typed
<1>6. \A i \in DOMAIN rows' : \/ i \in DOMAIN rows /\ rows'[i] = rows[i]
                              \/ i = Len(rows) + 1 /\ rows'[i] = row
  BY <1>5
<1>7. Typed'
  BY <1>1, <1>2, <1>4, <1>5 DEF Moves, Only, IInv, Typed
<1>8. Placed'
  BY <1>2, <1>3, <1>4 DEF Moves, Only, IInv, Placed
<1>9. Numbered'
  <2>1. /\ row.seq \in 1 .. seq
        /\ \A i \in DOMAIN rows : rows[i].seq \in 1 .. seq /\ rows[i].seq # row.seq
    BY <1>1 DEF IInv, Numbered
  <2>2. \A u \in Threads : InHand(u)' =>
          u # t /\ InHand(u) /\ loc'[u] = loc[u] /\ loc[u].row.seq # row.seq
    BY <1>1, <1>3, <1>4 DEF IInv, Numbered
  <2>3. \A i \in DOMAIN rows' : rows'[i].seq \in 1 .. seq'
    BY <1>1, <1>6, <2>1
  <2>4. \A i, j \in DOMAIN rows' : i # j => rows'[i].seq # rows'[j].seq
    BY <1>6, <2>1 DEF IInv, Numbered
  <2>5. \A u \in Threads : InHand(u)' =>
          /\ loc'[u].row.seq \in 1 .. seq'
          /\ \A i \in DOMAIN rows' : rows'[i].seq # loc'[u].row.seq
          /\ \A v \in Threads \ {u} : InHand(v)' => loc'[v].row.seq # loc'[u].row.seq
    BY <1>1, <1>6, <2>2 DEF IInv, Numbered
  <2> QED
    BY <2>3, <2>4, <2>5 DEF Numbered
<1>10. Apart'
  BY <1>1, <1>3 DEF IInv, Apart
<1>11. Unique'
  <2> SUFFICES ASSUME ~overlapped
               PROVE  Unique'
    BY <1>1 DEF Unique
  <2>1. /\ Own(row.rec) \notin keys
        /\ \A i \in DOMAIN rows : Own(rows[i].rec) \in keys
        /\ \A i, j \in DOMAIN rows : i # j => Own(rows[i].rec) # Own(rows[j].rec)
    BY <1>1 DEF IInv, Unique
  <2>2. \A u \in Threads \ {t} : ~InHand(u)
    BY <1>1 DEF IInv, Apart, Placed, Ingesting, InHand
  <2>3. \A u \in Threads : ~InHand(u)'
    BY <1>3, <1>4, <2>2
  <2>4. \A i \in DOMAIN rows' : Own(rows'[i].rec) \in keys'
    BY <1>1, <1>6, <2>1
  <2>5. \A i, j \in DOMAIN rows' : i # j => Own(rows'[i].rec) # Own(rows'[j].rec)
    BY <1>6, <2>1
  <2> QED
    BY <2>3, <2>4, <2>5 DEF Unique
<1> QED
  BY <1>7, <1>8, <1>9, <1>10, <1>11 DEF IInv

-----------------------------------------------------------------------------
\* The invariant holds at first.
LEMMA InvInit == Init => IInv
<1> SUFFICES ASSUME Init
             PROVE  IInv
  OBVIOUS
<1>1. /\ rows = <<>> /\ keys = {} /\ seq = 0 /\ overlapped = FALSE
      /\ loc = [t \in Threads |-> Start] /\ todo = [t \in Threads |-> <<>>]
      /\ run = [t \in Threads |-> Idle]
  BY DEF Init, RequestsInit, FeedsInit
<1>2. IsSeq(rows) /\ DOMAIN rows = {}
  BY <1>1 DEF IsSeq
<1>3. Typed
  BY <1>1, <1>2 DEF Typed, Start, Idle
<1>4. \A t \in Threads : ~InHand(t) /\ ~Ingesting(t) /\ todo[t] = <<>> /\ loc[t] = Start
  BY <1>1 DEF InHand, Ingesting, Start
<1> QED
  BY <1>2, <1>3, <1>4 DEF IInv, Placed, Numbered, Apart, Unique

\* Every step keeps the invariant.
LEMMA InvStep == IInv /\ [Next]_vars => IInv'
<1> SUFFICES ASSUME IInv, [Next]_vars
             PROVE  IInv'
  OBVIOUS
<1>1. CASE UNCHANGED vars
  BY <1>1 DEF vars, requestVars, feedVars, IInv, Typed, Placed, Numbered, Apart, Unique,
              IsSeq, InHand, Serving, Ingesting, Handling
<1>2. ASSUME NEW t \in Threads, Step(t)
      PROVE  IInv'
  <2>1. CASE (Publish(t) \/ Reset(t) \/ Reply(t)) /\ UNCHANGED feedVars
    BY <2>1, RequestStep
  <2>2. CASE TrackingStep(t) /\ UNCHANGED feedVars
    BY <2>2, TrackingSteps
  <2>3. CASE BillingStep(t) /\ UNCHANGED feedVars
    BY <2>3, BillingSteps
  <2>4. CASE FeedsStep(t)
    BY <2>4, FeedSteps, ClaimStep, StoreStep
  <2> QED
    BY <1>2, <2>1, <2>2, <2>3, <2>4 DEF Step
<1> QED
  BY <1>1, <1>2 DEF Next

\* The in-memory store never gives two rows one number, and stores a record twice
\* only after two threads were inside the ingestion nodes at once, however many
\* threads, requests and records there are
\* (raw_record_store.py InMemoryRawRecordStore.upsert_many).
THEOREM SafeRowsSound == Spec => []RowsSound
<1>1. IInv => RowsSound
  BY DEF IInv, Typed, Numbered, Unique, RowsSound
<1> QED
  BY InvInit, InvStep, <1>1, PTL DEF Spec

-----------------------------------------------------------------------------
\* A function on 1 .. n is a sequence.
LEMMA AsSeq ==
  ASSUME NEW n \in Nat, NEW s, s = [i \in 1 .. n |-> s[i]]
  PROVE  IsSeq(s) /\ Len(s) = n
<1>1. s \in [1 .. n -> Range(s)]
  BY DEF Range
<1>2. s \in Seq(Range(s))
  BY <1>1, SeqDef
<1>3. Len(s) \in Nat /\ DOMAIN s = 1 .. Len(s)
  BY <1>2, LenProperties
<1>4. DOMAIN s = 1 .. n
  BY <1>1
<1>5. Len(s) = n
  BY <1>3, <1>4
<1> QED
  BY <1>2, <1>5 DEF IsSeq

\* And a sequence is such a function.
LEMMA SeqFacts ==
  ASSUME NEW s, IsSeq(s)
  PROVE  /\ Len(s) \in Nat
         /\ DOMAIN s = 1 .. Len(s)
         /\ s = [i \in 1 .. Len(s) |-> s[i]]
         /\ s = <<>> <=> DOMAIN s = {}
         /\ s = <<>> <=> Range(s) = {}
<1>1. /\ Len(s) \in Nat
      /\ DOMAIN s = 1 .. Len(s)
      /\ s \in [1 .. Len(s) -> Range(s)]
  BY LenProperties DEF IsSeq
<1>2. s = [i \in 1 .. Len(s) |-> s[i]]
  BY <1>1
<1>3. DOMAIN <<>> = {}
  OBVIOUS
<1>4. DOMAIN s = {} => s = <<>>
  <2>1. 1 \in 1 .. Len(s) \/ Len(s) = 0
    BY <1>1
  <2>2. Len(s) = 0 => s = <<>>
    BY <1>1, EmptySeq DEF IsSeq
  <2> QED
    BY <1>1, <2>1, <2>2
<1>5. Range(s) = {} <=> DOMAIN s = {}
  BY DEF Range
<1> QED
  BY <1>1, <1>2, <1>3, <1>4, <1>5

\* The head and the tail of a sequence.
LEMMA HeadTail ==
  ASSUME NEW s, IsSeq(s), s # <<>>
  PROVE  /\ IsSeq(Tail(s))
         /\ Head(s) = s[1] /\ 1 \in DOMAIN s
         /\ Range(s) = {Head(s)} \cup Range(Tail(s))
<1>1. /\ Tail(s) \in Seq(Range(s))
      /\ Len(Tail(s)) = Len(s) - 1
      /\ \A i \in 1 .. Len(Tail(s)) : Tail(s)[i] = s[i + 1]
  BY HeadTailProperties DEF IsSeq
<1>2. Len(s) \in Nat /\ DOMAIN s = 1 .. Len(s) /\ Len(s) # 0
  BY SeqFacts
<1>3. /\ Len(Tail(s)) \in Nat
      /\ DOMAIN Tail(s) = 1 .. Len(Tail(s))
      /\ Tail(s) \in [1 .. Len(Tail(s)) -> Range(s)]
  BY <1>1, LenProperties
<1>4. IsSeq(Tail(s))
  <2>1. Tail(s) = [i \in 1 .. Len(Tail(s)) |-> Tail(s)[i]]
    BY <1>3
  <2> QED
    BY <1>3, <2>1, AsSeq
<1>5. Head(s) = s[1] /\ 1 \in DOMAIN s
  BY <1>2 DEF IsSeq
<1>6. Range(s) \subseteq {Head(s)} \cup Range(Tail(s))
  <2> SUFFICES ASSUME NEW i \in DOMAIN s
               PROVE  s[i] \in {Head(s)} \cup Range(Tail(s))
    BY DEF Range
  <2>1. CASE i = 1
    BY <1>5, <2>1
  <2>2. CASE i # 1
    <3>1. i - 1 \in 1 .. Len(Tail(s)) /\ i - 1 + 1 = i
      BY <1>1, <1>2, <2>2
    <3>2. Tail(s)[i - 1] = s[i]
      BY <1>1, <3>1
    <3> QED
      BY <1>3, <3>1, <3>2 DEF Range
  <2> QED
    BY <2>1, <2>2
<1>7. {Head(s)} \cup Range(Tail(s)) \subseteq Range(s)
  <2>1. \A i \in DOMAIN Tail(s) : Tail(s)[i] = s[i + 1] /\ i + 1 \in DOMAIN s
    BY <1>1, <1>2, <1>3
  <2> QED
    BY <1>5, <2>1 DEF Range
<1> QED
  BY <1>4, <1>5, <1>6, <1>7

\* Two sequences, one after the other.
LEMMA Joining ==
  ASSUME NEW a, IsSeq(a), NEW b, IsSeq(b)
  PROVE  IsSeq(a \o b) /\ Range(a \o b) = Range(a) \cup Range(b)
<1> DEFINE S == Range(a) \cup Range(b)
<1>1. a \in Seq(S) /\ b \in Seq(S)
  BY SeqMonotonic DEF IsSeq
<1>2. /\ a \o b \in Seq(S)
      /\ Len(a \o b) = Len(a) + Len(b)
      /\ \A i \in 1 .. Len(a) + Len(b) : (a \o b)[i] = IF i <= Len(a) THEN a[i] ELSE b[i - Len(a)]
  BY <1>1, ConcatProperties
<1>3. /\ Len(a) \in Nat /\ DOMAIN a = 1 .. Len(a)
      /\ Len(b) \in Nat /\ DOMAIN b = 1 .. Len(b)
  BY SeqFacts
<1>4. /\ DOMAIN (a \o b) = 1 .. Len(a) + Len(b)
      /\ a \o b \in [1 .. Len(a) + Len(b) -> S]
  BY <1>2, <1>3, LenProperties
<1>5. IsSeq(a \o b)
  <2>1. Len(a) + Len(b) \in Nat
    BY <1>3
  <2>2. a \o b = [i \in 1 .. Len(a) + Len(b) |-> (a \o b)[i]]
    BY <1>4
  <2> QED
    BY <2>1, <2>2, AsSeq
<1>6. \A i \in DOMAIN (a \o b) : (a \o b)[i] \in S
  BY <1>4
<1>7. \A i \in DOMAIN a : i \in DOMAIN (a \o b) /\ (a \o b)[i] = a[i]
  BY <1>2, <1>3, <1>4
<1>8. \A i \in DOMAIN b : i + Len(a) \in DOMAIN (a \o b) /\ (a \o b)[i + Len(a)] = b[i]
  <2> SUFFICES ASSUME NEW i \in DOMAIN b
               PROVE  i + Len(a) \in DOMAIN (a \o b) /\ (a \o b)[i + Len(a)] = b[i]
    OBVIOUS
  <2>1. /\ i + Len(a) \in 1 .. Len(a) + Len(b) /\ ~(i + Len(a) <= Len(a))
        /\ i + Len(a) - Len(a) = i
    BY <1>3
  <2> QED
    BY <1>2, <1>4, <2>1
<1>9. Range(a \o b) \subseteq S
  BY <1>6 DEF Range
<1>10. S \subseteq Range(a \o b)
  BY <1>7, <1>8 DEF Range
<1> QED
  BY <1>5, <1>9, <1>10

\* What is appended joins what was there.
LEMMA AppendRange ==
  ASSUME NEW s, IsSeq(s), NEW e
  PROVE  Range(Append(s, e)) = Range(s) \cup {e}
<1>1. /\ Len(s) \in Nat
      /\ DOMAIN s = 1 .. Len(s)
      /\ DOMAIN Append(s, e) = 1 .. Len(s) + 1
      /\ \A i \in DOMAIN s : Append(s, e)[i] = s[i]
      /\ Append(s, e)[Len(s) + 1] = e
  BY Appending
<1>2. /\ \A i \in DOMAIN Append(s, e) : i \in DOMAIN s \/ i = Len(s) + 1
      /\ \A i \in DOMAIN s : i \in DOMAIN Append(s, e)
      /\ Len(s) + 1 \in DOMAIN Append(s, e)
  BY <1>1
<1> HIDE DEF IsSeq
<1> QED
  BY <1>1, <1>2 DEF Range

\* What a sequence holds is finite.
LEMMA RangeFinite ==
  ASSUME NEW s, IsSeq(s)
  PROVE  IsFiniteSet(Range(s)) /\ IsFiniteSet(DOMAIN s)
<1>1. Len(s) \in Nat /\ DOMAIN s = 1 .. Len(s)
  BY SeqFacts
<1>2. IsFiniteSet(1 .. Len(s))
  BY <1>1, FS_Interval
<1>3. s \in Surjection(DOMAIN s, Range(s))
  <2>1. s \in [DOMAIN s -> Range(s)]
    BY <1>1, SeqFacts DEF Range
  <2>2. \A y \in Range(s) : \E x \in DOMAIN s : s[x] = y
    BY DEF Range
  <2> QED
    BY <2>1, <2>2 DEF Surjection
<1> QED
  BY <1>1, <1>2, <1>3, FS_Surjection

\* A set of numbers with a member has a least one.
LEMMA Least ==
  ASSUME NEW T \in SUBSET Nat, T # {}
  PROVE  \E m \in T : \A k \in T : m <= k
<1>1. IsWellFoundedOn({ss \in Nat \X Nat : ss[1] < ss[2]}, Nat)
  BY NatLessThanWellFounded DEF OpToRel
<1>2. PICK m \in T : \A k \in T : ~ (<<k, m>> \in {ss \in Nat \X Nat : ss[1] < ss[2]})
  BY <1>1, WFMin
<1>3. \A k \in T : ~ (k < m)
  BY <1>2
<1> QED
  BY <1>3

\* Before orders pairs of numbers.
LEMMA Order ==
  /\ \A p, q \in Nat \X Nat : Before(p, q) \/ Before(q, p) \/ p = q
  /\ \A p, q, r \in Nat \X Nat : Before(p, q) /\ Before(q, r) => Before(p, r)
  /\ \A p \in Nat \X Nat : ~Before(p, p)
<1>1. \A p \in Nat \X Nat : p[1] \in Nat /\ p[2] \in Nat /\ p = <<p[1], p[2]>>
  OBVIOUS
<1> QED
  BY <1>1 DEF Before

\* InOrder lists the members of a finite set of pairs, each once and at its rank.
LEMMA InOrderFacts ==
  ASSUME NEW S, S \subseteq Nat \X Nat, IsFiniteSet(S)
  PROVE  /\ Cardinality(S) \in Nat
         /\ InOrder(S) = [k \in 1 .. Cardinality(S) |-> InOrder(S)[k]]
         /\ \A k \in 1 .. Cardinality(S) :
              /\ InOrder(S)[k] \in S
              /\ Cardinality({q \in S : Before(q, InOrder(S)[k])}) = k - 1
         /\ \A p \in S : \E k \in 1 .. Cardinality(S) : InOrder(S)[k] = p
<1> DEFINE N == Cardinality(S)
           below == [p \in S |-> {q \in S : Before(q, p)}]
           rank  == [p \in S |-> Cardinality(below[p]) + 1]
           all   == InOrder(S)
<1>1. N \in Nat
  BY FS_CardinalityType
<1>2. ASSUME NEW p \in S
      PROVE  rank[p] \in 1 .. N
  <2>1. below[p] \in SUBSET S /\ p \notin below[p]
    BY Order
  <2>2. /\ IsFiniteSet(below[p]) /\ Cardinality(below[p]) <= N
        /\ (N = Cardinality(below[p]) => S = below[p])
    <3> HIDE DEF below
    <3> QED
      BY <2>1, FS_Subset
  <2>3. Cardinality(below[p]) \in Nat /\ Cardinality(below[p]) # N
    <3>1. Cardinality(below[p]) \in Nat
      BY <2>2, FS_CardinalityType
    <3> QED
      BY <3>1, <2>1, <2>2
  <2> HIDE DEF below, N
  <2> QED
    BY <2>2, <2>3, <1>1
<1>3. ASSUME NEW p \in S, NEW q \in S, Before(p, q)
      PROVE  rank[p] # rank[q]
  <2>1. below[p] \in SUBSET below[q] /\ p \in below[q] /\ p \notin below[p]
    BY <1>3, Order
  <2>2. IsFiniteSet(below[q]) /\ IsFiniteSet(below[p])
    <3>1. below[p] \in SUBSET S /\ below[q] \in SUBSET S
      OBVIOUS
    <3> HIDE DEF below
    <3> QED
      BY <3>1, FS_Subset
  <2>3. Cardinality(below[p]) # Cardinality(below[q])
    <3> HIDE DEF below
    <3> QED
      BY <2>1, <2>2, FS_Subset
  <2>4. Cardinality(below[p]) \in Nat /\ Cardinality(below[q]) \in Nat
    BY <2>2, FS_CardinalityType
  <2> HIDE DEF below
  <2> QED
    BY <2>3, <2>4
<1>4. rank \in Injection(S, 1 .. N)
  <2>1. rank \in [S -> 1 .. N]
    <3> HIDE DEF below, N
    <3> QED
      BY <1>2
  <2>2. \A p, q \in S : rank[p] = rank[q] => p = q
    <3> HIDE DEF rank
    <3> QED
      BY <1>3, Order
  <2> HIDE DEF rank
  <2> QED
    BY <2>1, <2>2 DEF Injection, IsInjective
<1>5. rank \in Surjection(S, 1 .. N)
  <2>1. IsFiniteSet(1 .. N) /\ Cardinality(1 .. N) = N
    <3>1. /\ Cardinality(1 .. N) = IF 1 > N THEN 0 ELSE N - 1 + 1
          /\ IsFiniteSet(1 .. N)
      BY <1>1, FS_Interval
    <3> HIDE DEF N
    <3> QED
      BY <1>1, <3>1
  <2> HIDE DEF rank
  <2> QED
    BY <1>4, <2>1, FS_Injection
<1>6. all = [k \in 1 .. N |-> CHOOSE p \in S : Cardinality({q \in S : Before(q, p)}) = k - 1]
  BY DEF InOrder
<1>7. ASSUME NEW f \in S
      PROVE  all[rank[f]] = f
  <2> DEFINE c == CHOOSE p \in S : Cardinality({q \in S : Before(q, p)}) = rank[f] - 1
  <2>1. Cardinality(below[f]) = rank[f] - 1 /\ below[f] = {q \in S : Before(q, f)}
    <3>1. IsFiniteSet(below[f])
      <4>1. below[f] \in SUBSET S
        OBVIOUS
      <4> HIDE DEF below
      <4> QED
        BY <4>1, FS_Subset
    <3>2. Cardinality(below[f]) \in Nat
      BY <3>1, FS_CardinalityType
    <3> QED
      BY <3>2
  <2>2. c \in S /\ Cardinality({q \in S : Before(q, c)}) = rank[f] - 1
    BY <2>1
  <2>3. rank[c] = rank[f]
    BY <2>2, <1>2
  <2>4. c = f
    BY <2>2, <2>3, <1>4 DEF Injection, IsInjective
  <2>5. all[rank[f]] = c
    BY <1>2, <1>6
  <2> QED
    BY <2>4, <2>5
<1>8. ASSUME NEW k \in 1 .. N
      PROVE  all[k] \in S /\ Cardinality({q \in S : Before(q, all[k])}) = k - 1
  <2>1. PICK f \in S : rank[f] = k
    <3> HIDE DEF rank
    <3> QED
      BY <1>5 DEF Surjection
  <2>2. all[k] = f
    BY <1>7, <2>1
  <2>3. Cardinality(below[f]) \in Nat
    <3>1. below[f] \in SUBSET S
      OBVIOUS
    <3> HIDE DEF below
    <3> QED
      BY <3>1, FS_Subset, FS_CardinalityType
  <2>4. Cardinality({q \in S : Before(q, f)}) = k - 1
    BY <2>1, <2>3
  <2> HIDE DEF all
  <2> QED
    BY <2>2, <2>4
<1>9. all = [k \in 1 .. N |-> all[k]]
  BY <1>6
<1> HIDE DEF rank, all, N
<1>10. \A p \in S : \E k \in 1 .. N : all[k] = p
  BY <1>2, <1>7
<1> QED
  BY <1>1, <1>8, <1>9, <1>10 DEF all, N

\* What stands in several sequences stands in Flat of them, and nothing else.
LEMMA FlatFacts ==
  ASSUME NEW seqs, IsSeq(seqs), \A i \in DOMAIN seqs : IsSeq(seqs[i])
  PROVE  /\ IsSeq(Flat(seqs))
         /\ Range(Flat(seqs)) = UNION {Range(seqs[i]) : i \in DOMAIN seqs}
<1> DEFINE S == Positions(seqs)
           Part == [i \in DOMAIN seqs |-> {i} \X DOMAIN seqs[i]]
           N == Cardinality(S)
           at == InOrder(S)
           all == Flat(seqs)
<1>1. DOMAIN seqs = 1 .. Len(seqs) /\ Len(seqs) \in Nat
  BY SeqFacts
<1>2. \A i \in DOMAIN seqs : DOMAIN seqs[i] = 1 .. Len(seqs[i]) /\ Len(seqs[i]) \in Nat
  BY SeqFacts
<1>3. S = UNION {Part[i] : i \in DOMAIN seqs}
  BY DEF Positions
<1>4. \A i \in DOMAIN seqs : Part[i] \subseteq Nat \X Nat
  BY <1>1, <1>2
<1>5. ASSUME NEW i \in DOMAIN seqs
      PROVE  IsFiniteSet(Part[i])
  <2>1. IsFiniteSet({i}) /\ IsFiniteSet(DOMAIN seqs[i])
    BY FS_Singleton, RangeFinite
  <2>2. IsFiniteSet({i} \X DOMAIN seqs[i])
    BY <2>1, FS_Product
  <2> QED
    BY <2>2
<1>6. IsFiniteSet({Part[i] : i \in DOMAIN seqs})
  <2>1. Part \in Surjection(DOMAIN seqs, {Part[i] : i \in DOMAIN seqs})
    BY DEF Surjection
  <2>2. IsFiniteSet(DOMAIN seqs)
    BY RangeFinite
  <2> HIDE DEF Part
  <2> QED
    BY <2>1, <2>2, FS_Surjection
<1>7. IsFiniteSet(UNION {Part[i] : i \in DOMAIN seqs})
  <2> HIDE DEF Part
  <2> QED
    BY <1>5, <1>6, FS_UNION
<1>8. S \subseteq Nat \X Nat /\ IsFiniteSet(S)
  BY <1>3, <1>4, <1>7
<1>9. \A p : p \in S <=> \E i \in DOMAIN seqs : \E j \in DOMAIN seqs[i] : p = <<i, j>>
  BY DEF Positions
<1> HIDE DEF S, Part
<1>10. /\ N \in Nat
       /\ at = [k \in 1 .. N |-> at[k]]
       /\ \A k \in 1 .. N : at[k] \in S
       /\ \A p \in S : \E k \in 1 .. N : at[k] = p
  BY <1>8, InOrderFacts
<1>11. all = [k \in DOMAIN at |-> seqs[at[k][1]][at[k][2]]]
  BY DEF Flat, S
<1> HIDE DEF at, N, all
<1>12. DOMAIN at = 1 .. N
  BY <1>10
<1>13. DOMAIN all = 1 .. N /\ all = [k \in 1 .. N |-> all[k]]
  BY <1>11, <1>12
<1>14. IsSeq(all)
  BY <1>10, <1>13, AsSeq
<1>15. ASSUME NEW k \in DOMAIN all
       PROVE  \E i \in DOMAIN seqs : all[k] \in Range(seqs[i])
  <2>1. PICK i \in DOMAIN seqs : \E j \in DOMAIN seqs[i] : at[k] = <<i, j>>
    BY <1>9, <1>10, <1>13
  <2>3. PICK j \in DOMAIN seqs[i] : at[k] = <<i, j>>
    BY <2>1
  <2>2. all[k] = seqs[i][j]
    BY <1>11, <1>12, <1>13, <2>3
  <2> QED
    BY <2>2, <2>3 DEF Range
<1>16. ASSUME NEW i \in DOMAIN seqs, NEW j \in DOMAIN seqs[i]
       PROVE  \E k \in DOMAIN all : all[k] = seqs[i][j]
  <2>1. PICK k \in 1 .. N : at[k] = <<i, j>>
    BY <1>9, <1>10
  <2> QED
    BY <1>11, <1>12, <2>1
<1>17. Range(all) \subseteq UNION {Range(seqs[i]) : i \in DOMAIN seqs}
  <2> SUFFICES ASSUME NEW k \in DOMAIN all
               PROVE  all[k] \in UNION {Range(seqs[i]) : i \in DOMAIN seqs}
    BY DEF Range
  <2> QED
    BY <1>15
<1>18. UNION {Range(seqs[i]) : i \in DOMAIN seqs} \subseteq Range(all)
  <2> SUFFICES ASSUME NEW i \in DOMAIN seqs, NEW j \in DOMAIN seqs[i]
               PROVE  seqs[i][j] \in Range(all)
    BY DEF Range
  <2> QED
    BY <1>16 DEF Range
<1> QED
  BY <1>14, <1>17, <1>18 DEF all

-----------------------------------------------------------------------------
\* What only an outside request asks of subscription-manager.
Billed == {"subscription.requested", "subscription.cancellation_requested"}

\* What a handler may return.
Emits(outs) == IsSeq(outs) /\ \A o \in Range(outs) : o.type \notin Billed

\* Edges whose ends are among ids, and the ids of a sequence of entities.
EndsIn(arcs, ids) == \A e \in arcs : e.src \in ids /\ e.dst \in ids
Ids(ents)         == {x.id : x \in Range(ents)}

\* What a handler may remember between its steps.
Fits(there) ==
  /\ there.pc \in {"fetch", "insert", "store"} => Emits(there.outs)
  /\ there.pc = "extract" => IsSeq(there.new)
  /\ there.pc \in {"advance", "entities"} =>
       IsSeq(there.ents) /\ EndsIn(there.edges, Ids(there.ents))
  /\ there.pc = "refresh" => /\ IsFiniteSet(DOMAIN there.views.roles)
                             /\ IsFiniteSet(DOMAIN there.views.sentiment)

\* What is asked names a venture, and a customer where billing needs one.
Welcome(req) == req.ven \in Ventures /\ (req.type \in Billed => req.about \in Customers)

\* Deliveries are of events of the run, created by its thread.
Queued ==
  /\ DOMAIN minted = Threads /\ DOMAIN inbox = Threads
  /\ \A t \in Threads :
       /\ minted[t] \in Nat
       /\ IsSeq(inbox[t]) /\ \A r \in Range(inbox[t]) : Welcome(r)
       /\ IsSeq(todo[t])
       /\ \A d \in Range(todo[t]) :
            /\ Welcome(d.ev)
            /\ d.ev.root = run[t].root
            /\ \E n \in 1 .. minted[t] : d.ev.id = <<t, n>>

Remembered == \A t \in Threads : Fits(loc[t])

\* Views are of what a finite graph holds.
Finite ==
  /\ IsFiniteSet(DOMAIN graph)
  /\ DOMAIN views = Ventures
  /\ \A v \in Ventures : /\ IsFiniteSet(DOMAIN views[v].roles)
                         /\ IsFiniteSet(DOMAIN views[v].sentiment)

Shaped == Queued /\ Remembered /\ Finite
-----------------------------------------------------------------------------
\* Short sequences.
LEMMA Short ==
  /\ IsSeq(<<>>) /\ Range(<<>>) = {}
  /\ \A x : IsSeq(<<x>>) /\ Range(<<x>>) = {x} /\ DOMAIN <<x>> = {1}
  /\ \A x, y : IsSeq(<<x, y>>) /\ Range(<<x, y>>) = {x, y}
<1>1. IsSeq(<<>>) /\ Range(<<>>) = {}
  BY DEF IsSeq, Range
<1>2. ASSUME NEW x
      PROVE  IsSeq(<<x>>) /\ Range(<<x>>) = {x} /\ DOMAIN <<x>> = {1}
  <2>1. <<x>>[1] = x /\ DOMAIN <<x>> = {1}
    OBVIOUS
  <2>2. Range(<<x>>) = {x}
    BY <2>1 DEF Range
  <2> QED
    BY <2>1, <2>2 DEF IsSeq
<1>3. ASSUME NEW x, NEW y
      PROVE  IsSeq(<<x, y>>) /\ Range(<<x, y>>) = {x, y}
  <2>1. <<x, y>>[1] = x /\ <<x, y>>[2] = y /\ DOMAIN <<x, y>> = {1, 2}
    OBVIOUS
  <2>2. Range(<<x, y>>) = {x, y}
    BY <2>1 DEF Range
  <2> QED
    BY <2>2 DEF IsSeq
<1> QED
  BY <1>1, <1>2, <1>3

\* What a handler returns in place.
LEMMA ShortEmits ==
  /\ Emits(<<>>)
  /\ \A x : x.type \notin Billed => Emits(<<x>>)
  /\ \A x, y : x.type \notin Billed /\ y.type \notin Billed => Emits(<<x, y>>)
BY Short DEF Emits

\* The image of a finite set is finite.
LEMMA Image ==
  ASSUME NEW S, IsFiniteSet(S), NEW f, DOMAIN f = S
  PROVE  IsFiniteSet({f[x] : x \in S})
<1> DEFINE g == [x \in S |-> f[x]]
<1>1. g \in Surjection(S, {f[x] : x \in S})
  BY DEF Surjection
<1> HIDE DEF g
<1> QED
  BY <1>1, FS_Surjection

\* A finite set can be put in a sequence.
LEMMA Listing ==
  ASSUME NEW S, IsFiniteSet(S)
  PROVE  IsSeq(SetToSeq(S)) /\ Range(SetToSeq(S)) = S
<1>1. Cardinality(S) \in Nat /\ ExistsBijection(1 .. Cardinality(S), S)
  BY FS_CardinalityType
<1>2. PICK g \in Bijection(1 .. Cardinality(S), S) : TRUE
  BY <1>1 DEF ExistsBijection
<1>3. g \in [1 .. Cardinality(S) -> S] /\ IsInjective(g)
  BY <1>2 DEF Bijection, Injection
<1>4. SetToSeq(S) \in [1 .. Cardinality(S) -> S] /\ IsInjective(SetToSeq(S))
  BY <1>3 DEF SetToSeq
<1> DEFINE s == SetToSeq(S)
<1>5. s \in Injection(1 .. Cardinality(S), S)
  BY <1>4 DEF Injection
<1>6. IsFiniteSet(1 .. Cardinality(S)) /\ Cardinality(1 .. Cardinality(S)) = Cardinality(S)
  <2>1. /\ IsFiniteSet(1 .. Cardinality(S))
        /\ Cardinality(1 .. Cardinality(S)) =
             IF 1 > Cardinality(S) THEN 0 ELSE Cardinality(S) - 1 + 1
    BY <1>1, FS_Interval
  <2> QED
    BY <1>1, <2>1
<1>7. s \in Surjection(1 .. Cardinality(S), S)
  <2> HIDE DEF s
  <2> QED
    BY <1>5, <1>6, FS_Injection
<1>8. s = [i \in 1 .. Cardinality(S) |-> s[i]]
  BY <1>4
<1>9. IsSeq(s)
  <2> HIDE DEF s
  <2> QED
    BY <1>1, <1>8, AsSeq
<1>10. Range(s) = S
  <2> HIDE DEF s
  <2> QED
    BY <1>7 DEF Surjection, Range
<1> QED
  BY <1>9, <1>10

\* What read_since returns: rows past the watermark, all of them, the highest number last.
LEMMA Reading ==
  ASSUME IsSeq(rows), \A i \in DOMAIN rows : rows[i].seq \in Nat, NEW n
  PROVE  /\ IsSeq(ReadSince(n))
         /\ Range(ReadSince(n)) = {rows[i] : i \in {j \in DOMAIN rows : rows[j].seq > n}}
         /\ ReadSince(n) # <<>> =>
              \A i \in DOMAIN rows : rows[i].seq > n => rows[i].seq <= Last(ReadSince(n)).seq
<1> DEFINE I == {j \in DOMAIN rows : rows[j].seq > n}
           S == {<<rows[i].seq, i>> : i \in I}
           at == InOrder(S)
           new == ReadSince(n)
           N == Cardinality(S)
<1>1. Len(rows) \in Nat /\ DOMAIN rows = 1 .. Len(rows) /\ IsFiniteSet(DOMAIN rows)
  BY SeqFacts, RangeFinite
<1>2. S \subseteq Nat \X Nat
  BY <1>1
<1>3. IsFiniteSet(S)
  <2> DEFINE f == [i \in I |-> <<rows[i].seq, i>>]
  <2>1. IsFiniteSet(I)
    BY <1>1, FS_Subset
  <2>2. IsFiniteSet({f[i] : i \in I})
    BY <2>1, Image, Zenon
  <2>3. S = {f[i] : i \in I}
    OBVIOUS
  <2> QED
    BY <2>2, <2>3
<1>4. \A p : p \in S <=> \E i \in I : p = <<rows[i].seq, i>>
  OBVIOUS
<1> HIDE DEF S
<1>5. /\ N \in Nat
      /\ at = [k \in 1 .. N |-> at[k]]
      /\ \A k \in 1 .. N : at[k] \in S /\ Cardinality({q \in S : Before(q, at[k])}) = k - 1
      /\ \A p \in S : \E k \in 1 .. N : at[k] = p
  BY <1>2, <1>3, InOrderFacts
<1>6. new = [k \in DOMAIN at |-> rows[at[k][2]]]
  BY DEF ReadSince, S
<1> HIDE DEF at, N, new
<1>7. DOMAIN at = 1 .. N
  BY <1>5
<1>8. new = [k \in 1 .. N |-> new[k]] /\ DOMAIN new = 1 .. N
  BY <1>6, <1>7
<1>9. IsSeq(new) /\ Len(new) = N
  BY <1>5, <1>8, AsSeq
<1>10. ASSUME NEW k \in 1 .. N
       PROVE  \E i \in I : new[k] = rows[i]
  <2>1. PICK i \in I : at[k] = <<rows[i].seq, i>>
    BY <1>4, <1>5
  <2> QED
    BY <1>6, <1>7, <2>1
<1>11. ASSUME NEW i \in I
       PROVE  \E k \in 1 .. N : new[k] = rows[i]
  <2>1. <<rows[i].seq, i>> \in S
    BY <1>4
  <2>2. PICK k \in 1 .. N : at[k] = <<rows[i].seq, i>>
    BY <1>5, <2>1
  <2> QED
    BY <1>6, <1>7, <2>2
<1>12. Range(new) = {new[k] : k \in 1 .. N}
  BY <1>8 DEF Range
<1>13. ASSUME new # <<>>, NEW i \in I
       PROVE  rows[i].seq <= Last(new).seq
  <2>1. N \in 1 .. N /\ Last(new) = new[N]
    BY <1>5, <1>8, <1>9, <1>13, SeqFacts DEF Last
  <2>2. PICK j \in I : at[N] = <<rows[j].seq, j>> /\ Last(new) = rows[j]
    <3>1. PICK j \in I : at[N] = <<rows[j].seq, j>>
      BY <1>4, <1>5, <2>1
    <3>2. new[N] = rows[at[N][2]]
      BY <1>6, <1>7, <2>1
    <3> QED
      BY <2>1, <3>1, <3>2
  <2> DEFINE last == at[N]
             B == {q \in S : Before(q, last)}
  <2>3. last \in S /\ Cardinality(B) = N - 1
    BY <1>5, <2>1
  <2> HIDE DEF last
  <2>4. B \subseteq S \ {last}
    BY <1>2, <2>3, Order
  <2>5. IsFiniteSet(S \ {last}) /\ Cardinality(S \ {last}) = N - 1
    BY <1>3, <2>3, FS_RemoveElement DEF N
  <2> HIDE DEF B
  <2>6. B = S \ {last}
    BY <2>3, <2>4, <2>5, FS_Subset
  <2>7. PICK q : q = <<rows[i].seq, i>>
    OBVIOUS
  <2>8. q = last \/ Before(q, last)
    BY <1>4, <2>6, <2>7 DEF B
  <2> QED
    BY <2>2, <2>7, <2>8 DEF Before, last
<1> HIDE DEF I
<1>14. Range(new) = {rows[i] : i \in I}
  BY <1>10, <1>11, <1>12
<1>15. new # <<>> => \A i \in DOMAIN rows : rows[i].seq > n => rows[i].seq <= Last(new).seq
  BY <1>13 DEF I
<1> QED
  BY <1>9, <1>14, <1>15 DEF new, I

-----------------------------------------------------------------------------

\* Entities, and edges that join them to one another or to the item itself.
Joins(part, item) ==
  /\ IsSeq(part.ents)
  /\ \A e \in part.edges : {e.src, e.dst} \subseteq {item} \cup {x.id : x \in Range(part.ents)}

\* A dimension joins its entity to the item, or does nothing.
LEMMA DimensionJoins ==
  ASSUME NEW rec, NEW type, NEW name, NEW kind, NEW item,
         NEW src, NEW dst, {src, dst} \subseteq {item, Id(rec, type, <<name>>)}
  PROVE  Joins(Dimension(rec, type, name, Edge(kind, src, dst)), item)
<1> DEFINE own == Entity(Id(rec, type, <<name>>), <<>>)
<1>1. CASE name = ""
  <2>1. Dimension(rec, type, name, Edge(kind, src, dst)) = [ents |-> <<>>, edges |-> {}]
    BY <1>1 DEF Dimension
  <2> QED
    BY <2>1, Short DEF Joins
<1>2. CASE name # ""
  <2>1. Dimension(rec, type, name, Edge(kind, src, dst)) =
          [ents |-> <<own>>, edges |-> {Edge(kind, src, dst)}]
    BY <1>2 DEF Dimension
  <2>2. IsSeq(<<own>>) /\ Range(<<own>>) = {own} /\ own.id = Id(rec, type, <<name>>)
    BY Short DEF Entity
  <2>3. Edge(kind, src, dst).src = src /\ Edge(kind, src, dst).dst = dst
    BY DEF Edge
  <2> QED
    BY <2>1, <2>2, <2>3 DEF Joins
<1> QED
  BY <1>1, <1>2

\* Parts that join something to an item do so together.
LEMMA JoinsTogether ==
  ASSUME NEW item, NEW p, NEW q, Joins(p, item), Joins(q, item)
  PROVE  Joins([ents |-> p.ents \o q.ents, edges |-> p.edges \cup q.edges], item)
<1>1. IsSeq(p.ents \o q.ents) /\ Range(p.ents \o q.ents) = Range(p.ents) \cup Range(q.ents)
  BY Joining DEF Joins
<1> QED
  BY <1>1 DEF Joins

\* What an extractor finds in a record is a sequence of entities, and every edge
\* joins two of them.
LEMMA ExtractJoins ==
  ASSUME NEW kind, NEW rec
  PROVE  LET x == ExtractAs(kind, rec)
             ids == {e.id : e \in Range(x.ents)}
         IN IsSeq(x.ents) /\ \A e \in x.edges : e.src \in ids /\ e.dst \in ids
<1>1. ASSUME NEW item, NEW props, NEW p, Joins(p, item),
             NEW x, x = [ents |-> <<Entity(item, props)>> \o p.ents, edges |-> p.edges]
      PROVE  LET ids == {e.id : e \in Range(x.ents)}
             IN IsSeq(x.ents) /\ \A e \in x.edges : e.src \in ids /\ e.dst \in ids
  <2>1. IsSeq(<<Entity(item, props)>>) /\ Range(<<Entity(item, props)>>) = {Entity(item, props)}
    BY Short
  <2>2. /\ IsSeq(x.ents)
        /\ Range(x.ents) = {Entity(item, props)} \cup Range(p.ents)
    BY <1>1, <2>1, Joining DEF Joins
  <2>3. Entity(item, props).id = item
    BY DEF Entity
  <2> QED
    BY <1>1, <2>2, <2>3 DEF Joins
<1>2. \A a, b, c : IsSeq(a) /\ IsSeq(b) /\ IsSeq(c) =>
        IsSeq(b \o c) /\ a \o b \o c = a \o (b \o c)
  <2> SUFFICES ASSUME NEW a, NEW b, NEW c, IsSeq(a), IsSeq(b), IsSeq(c)
               PROVE  IsSeq(b \o c) /\ a \o b \o c = a \o (b \o c)
    OBVIOUS
  <2> DEFINE S == Range(a) \cup Range(b) \cup Range(c)
  <2>1. a \in Seq(S) /\ b \in Seq(S) /\ c \in Seq(S)
    BY SeqMonotonic DEF IsSeq
  <2> HIDE DEF S
  <2> QED
    BY <2>1, Joining, ConcatAssociative
<1>3. CASE kind \in {"review-feed", "reviews", "ratings"}
  <2> DEFINE item == Id(rec, "Review", Own(rec))
             co == Company(rec)
             product == First(rec.raw, ProductKeys)
             C == Dimension(rec, "Company", co,
                            Edge("reviewed", item, Id(rec, "Company", <<co>>)))
             P == Dimension(rec, "Product", product,
                            Edge("about_product", item, Id(rec, "Product", <<product>>)))
             props == [company |-> co, product |-> product,
                       sentiment |-> Sentiment(Rating(rec.raw), First(rec.raw, BodyKeys))]
             part == [ents |-> C.ents \o P.ents, edges |-> C.edges \cup P.edges]
  <2>1. Joins(C, item) /\ Joins(P, item)
    BY DimensionJoins
  <2> HIDE DEF C, P
  <2>2. Joins(part, item)
    BY <2>1, JoinsTogether
  <2>3. ExtractAs(kind, rec) =
          [ents |-> <<Entity(item, props)>> \o C.ents \o P.ents, edges |-> C.edges \cup P.edges]
    BY <1>3 DEF ExtractAs, ExtractReview, C, P
  <2>4. IsSeq(C.ents) /\ IsSeq(P.ents) /\ IsSeq(<<Entity(item, props)>>)
    BY <2>1, Short DEF Joins
  <2> HIDE DEF item, props
  <2>5. <<Entity(item, props)>> \o C.ents \o P.ents = <<Entity(item, props)>> \o (C.ents \o P.ents)
    <3>1. PICK own, c, p : own = <<Entity(item, props)>> /\ c = C.ents /\ p = P.ents
      OBVIOUS
    <3>2. IsSeq(own) /\ IsSeq(c) /\ IsSeq(p)
      BY <2>4, <3>1
    <3>3. own \o c \o p = own \o (c \o p)
      BY <3>2, <1>2
    <3> QED
      BY <3>1, <3>3
  <2>6. ExtractAs(kind, rec) =
          [ents |-> <<Entity(item, props)>> \o part.ents, edges |-> part.edges]
    BY <2>3, <2>5
  <2> HIDE DEF part
  <2> QED
    BY <1>1, <2>2, <2>6
<1>4. CASE kind \notin {"review-feed", "reviews", "ratings"}
  <2> DEFINE item == Id(rec, "Job", Own(rec))
             co == Company(rec)
             dept == Grouped(rec, DeptKeys)
             place == Grouped(rec, LocationKeys)
             C == Dimension(rec, "Company", co, Edge("posts", Id(rec, "Company", <<co>>), item))
             D == Dimension(rec, "Department", dept,
                            Edge("in_department", item, Id(rec, "Department", <<dept>>)))
             L == Dimension(rec, "Location", place,
                            Edge("in_location", item, Id(rec, "Location", <<place>>)))
             props == [title |-> Or(First(rec.raw, TitleKeys), rec.ext),
                       company |-> co, department |-> dept, location |-> place]
             two == [ents |-> C.ents \o D.ents, edges |-> C.edges \cup D.edges]
             part == [ents |-> two.ents \o L.ents, edges |-> two.edges \cup L.edges]
  <2>1. Joins(C, item) /\ Joins(D, item) /\ Joins(L, item)
    BY DimensionJoins
  <2> HIDE DEF C, D, L
  <2>2. Joins(two, item)
    BY <2>1, JoinsTogether
  <2>3. Joins(part, item)
    <3> HIDE DEF two
    <3> QED
      BY <2>1, <2>2, JoinsTogether
  <2>4. ExtractAs(kind, rec) =
          [ents |-> <<Entity(item, props)>> \o C.ents \o D.ents \o L.ents,
           edges |-> C.edges \cup D.edges \cup L.edges]
    BY <1>4 DEF ExtractAs, ExtractJob, C, D, L
  <2>5. IsSeq(C.ents) /\ IsSeq(D.ents) /\ IsSeq(L.ents) /\ IsSeq(<<Entity(item, props)>>)
    BY <2>1, Short DEF Joins
  <2> HIDE DEF item, props
  <2>6. <<Entity(item, props)>> \o C.ents \o D.ents \o L.ents =
          <<Entity(item, props)>> \o (C.ents \o D.ents \o L.ents)
    <3>1. PICK own, c, d, l : /\ own = <<Entity(item, props)>>
                              /\ c = C.ents /\ d = D.ents /\ l = L.ents
      OBVIOUS
    <3>2. IsSeq(own) /\ IsSeq(c) /\ IsSeq(d) /\ IsSeq(l)
      BY <2>5, <3>1
    <3>3. IsSeq(c \o d) /\ own \o c \o d = own \o (c \o d)
      BY <3>2, <1>2
    <3>4. own \o (c \o d) \o l = own \o (c \o d \o l)
      BY <3>2, <3>3, <1>2
    <3> QED
      BY <3>1, <3>3, <3>4
  <2>7. ExtractAs(kind, rec) =
          [ents |-> <<Entity(item, props)>> \o part.ents, edges |-> part.edges]
    BY <2>4, <2>6
  <2> HIDE DEF part
  <2> QED
    BY <1>1, <2>3, <2>7
<1> QED
  BY <1>3, <1>4

-----------------------------------------------------------------------------
\* What an event says, by its fields.
LEMMA OutFields ==
  \A type, about, says :
    /\ Out(type, about, says).type = type
    /\ Out(type, about, says).about = about
    /\ Out(type, about, says).says = says
BY DEF Out

\* What no handler but an outside request asks is not what one returns.
LEMMA OutEmits ==
  /\ \A type, about, says : type \notin Billed => Emits(<<Out(type, about, says)>>)
  /\ \A type1, about1, type2, about2 : type1 \notin Billed /\ type2 \notin Billed =>
       Emits(<<Out(type1, about1, ""), Out(type2, about2, "")>>)
  /\ {"thesis.state.updated", "founder.notified", "subscription.activated",
      "payment.captured", "subscription.cancelled", "source.records.ingested",
      "knowledge.updated"} \cap Billed = {}
<1>1. ASSUME NEW type, NEW about, NEW says, type \notin Billed
      PROVE  Emits(<<Out(type, about, says)>>)
  <2>1. PICK o : o = Out(type, about, says)
    OBVIOUS
  <2> QED
    BY <1>1, <2>1, OutFields, ShortEmits
<1>2. ASSUME NEW type1, NEW about1, NEW type2, NEW about2,
             type1 \notin Billed, type2 \notin Billed
      PROVE  Emits(<<Out(type1, about1, ""), Out(type2, about2, "")>>)
  <2>1. PICK o, p : o = Out(type1, about1, "") /\ p = Out(type2, about2, "")
    OBVIOUS
  <2>2. o.type = type1 /\ p.type = type2
    BY <2>1 DEF Out
  <2>3. Emits(<<o, p>>)
    BY <1>2, <2>2, ShortEmits
  <2> QED
    BY <2>1, <2>3
<1>3. {"thesis.state.updated", "founder.notified", "subscription.activated",
       "payment.captured", "subscription.cancelled", "source.records.ingested",
       "knowledge.updated"} \cap Billed = {}
  BY DEF Billed
<1> QED
  BY <1>1, <1>2, <1>3

\* The nodes without state ask nothing of billing.
LEMMA ReactEmits ==
  ASSUME NEW node \in Stateless, NEW ev, NEW outs \in Reactions(node, ev)
  PROVE  Emits(outs)
<1>1. ASSUME NEW type, type \notin Billed, NEW about, NEW says
      PROVE  Emits(<<Out(type, about, says)>>)
  BY <1>1, OutFields, ShortEmits
<1>2. CASE node = "market-scanner"
  <2>1. outs \in Scan(ev)
    BY <1>2 DEF Reactions
  <2> QED
    BY <1>1, <2>1 DEF Scan, Billed
<1>3. CASE node = "pain-extractor"
  <2>1. outs \in ExtractPain(ev)
    BY <1>3 DEF Reactions
  <2> QED
    BY <1>1, <2>1 DEF ExtractPain, Billed
<1>4. CASE node = "ad-campaign-runner"
  <2>1. outs \in Launch(ev)
    BY <1>4 DEF Reactions
  <2> QED
    BY <1>1, <2>1, ShortEmits DEF Launch, Billed
<1>5. CASE node = "ad-analytics-collector"
  <2>1. outs \in Collect(ev)
    BY <1>5 DEF Reactions
  <2> QED
    BY <1>1, <2>1, ShortEmits DEF Collect, Billed
<1>6. CASE node = "signal-analyzer"
  <2>1. outs \in Judge(ev)
    BY <1>6 DEF Reactions
  <2> QED
    BY <1>1, <2>1 DEF Judge, Billed
<1>7. CASE node = "post-analytics-collector"
  <2>1. outs \in Measure(ev)
    BY <1>7 DEF Reactions
  <2> QED
    BY <1>1, <2>1, ShortEmits DEF Measure, Billed
<1>8. CASE node = "customer-survey"
  <2>1. outs \in Survey(ev)
    BY <1>8 DEF Reactions
  <2> QED
    BY <1>1, <2>1 DEF Survey, Billed
<1> QED
  BY <1>2, <1>3, <1>4, <1>5, <1>6, <1>7, <1>8 DEF Stateless

\* What is read off finitely many rows is finitely many names.
LEMMA FoundFinite ==
  ASSUME NEW companies, IsFiniteSet(companies)
  PROVE  IsFiniteSet(Found(companies))
<1> DEFINE seen == companies \ Quoted
           read == [c \in seen |-> ReadOff(c)]
<1>1. IsFiniteSet(seen)
  BY FS_Subset
<1>2. Found(companies) \subseteq {read[c] : c \in seen}
  BY DEF Found
<1>3. DOMAIN read = seen
  OBVIOUS
<1> HIDE DEF seen, read
<1>4. IsFiniteSet({read[c] : c \in seen})
  BY <1>1, <1>3, Image
<1> QED
  BY <1>2, <1>4, FS_Subset

\* insight-inferrer returns a sequence, of two events for each company.
LEMMA InsightsFacts ==
  ASSUME Finite, NEW ven \in Ventures
  PROVE  /\ IsSeq(Insights(ven))
         /\ Range(Insights(ven)) =
              (UNION {Range(Verdict(c, "lead_opportunity")) : c \in Leading(ven)})
              \cup (UNION {Range(Verdict(c, "risk_signal")) : c \in Risky(ven)})
<1> DEFINE leads == [c \in Leading(ven) |-> Verdict(c, "lead_opportunity")]
           risks == [c \in Risky(ven) |-> Verdict(c, "risk_signal")]
           L == {Verdict(c, "lead_opportunity") : c \in Leading(ven)}
           R == {Verdict(c, "risk_signal") : c \in Risky(ven)}
           seqs == SetToSeq(L) \o SetToSeq(R)
<1>1. IsFiniteSet(Leading(ven)) /\ IsFiniteSet(Risky(ven))
  <2>1. PICK a, b : /\ a = DOMAIN views[ven].roles
                    /\ b = {c \in DOMAIN views[ven].sentiment :
                             MostlyNegative(views[ven].sentiment[c])}
    OBVIOUS
  <2>2. IsFiniteSet(a) /\ IsFiniteSet(b)
    BY <2>1, FS_Subset DEF Finite
  <2>3. IsFiniteSet(Found(a)) /\ IsFiniteSet(Found(b))
    BY <2>2, FoundFinite
  <2> QED
    BY <2>1, <2>3 DEF Leading, Risky
<1>2. IsFiniteSet(L)
  <2>1. L = {leads[c] : c \in Leading(ven)}
    OBVIOUS
  <2>2. IsFiniteSet({leads[c] : c \in Leading(ven)})
    <3>1. DOMAIN leads = Leading(ven)
      OBVIOUS
    <3> HIDE DEF leads
    <3> QED
      BY <1>1, <3>1, Image
  <2> QED
    BY <2>1, <2>2
<1>3. IsFiniteSet(R)
  <2>1. R = {risks[c] : c \in Risky(ven)}
    OBVIOUS
  <2>2. IsFiniteSet({risks[c] : c \in Risky(ven)})
    <3>1. DOMAIN risks = Risky(ven)
      OBVIOUS
    <3> HIDE DEF risks
    <3> QED
      BY <1>1, <3>1, Image
  <2> QED
    BY <2>1, <2>2
<1>4. IsSeq(seqs) /\ Range(seqs) = L \cup R
  <2>1. /\ IsSeq(SetToSeq(L)) /\ Range(SetToSeq(L)) = L
        /\ IsSeq(SetToSeq(R)) /\ Range(SetToSeq(R)) = R
    <3> HIDE DEF L, R
    <3> QED
      BY <1>2, <1>3, Listing
  <2> HIDE DEF L, R
  <2> QED
    BY <2>1, Joining
<1>5. \A c, k : IsSeq(Verdict(c, k))
  BY Short DEF Verdict
<1>6. \A s \in Range(seqs) : IsSeq(s)
  BY <1>4, <1>5
<1>7. Insights(ven) = Flat(seqs)
  BY DEF Insights
<1> HIDE DEF seqs
<1>8. /\ IsSeq(Flat(seqs))
      /\ Range(Flat(seqs)) = UNION {Range(seqs[i]) : i \in DOMAIN seqs}
  <2>1. \A i \in DOMAIN seqs : IsSeq(seqs[i])
    BY <1>6 DEF Range
  <2> QED
    BY <1>4, <2>1, FlatFacts
<1>9. {Range(seqs[i]) : i \in DOMAIN seqs} = {Range(s) : s \in L \cup R}
  <2>1. Range(seqs) = {seqs[i] : i \in DOMAIN seqs}
    BY DEF Range
  <2> HIDE DEF L, R
  <2> QED
    BY <1>4, <2>1
<1>10. UNION {Range(s) : s \in L \cup R} =
         (UNION {Range(Verdict(c, "lead_opportunity")) : c \in Leading(ven)})
         \cup (UNION {Range(Verdict(c, "risk_signal")) : c \in Risky(ven)})
  OBVIOUS
<1> QED
  BY <1>7, <1>8, <1>9, <1>10

\* It asks nothing of billing either.
LEMMA InsightsEmit ==
  ASSUME Finite, NEW ven \in Ventures
  PROVE  Emits(Insights(ven))
<1>1. \A c, k : \A o \in Range(Verdict(c, k)) : o.type \in {"market.insight", "signal.verdict"}
  <2> SUFFICES ASSUME NEW c, NEW k
               PROVE  \A o \in Range(Verdict(c, k)) :
                        o.type \in {"market.insight", "signal.verdict"}
    OBVIOUS
  <2>1. PICK x, y : /\ x = Out("market.insight", c, k)
                    /\ y = [Out("signal.verdict", c, "strong") EXCEPT !.urgent = TRUE]
    OBVIOUS
  <2>2. x.type = "market.insight" /\ y.type = "signal.verdict"
    BY <2>1 DEF Out
  <2>3. Range(Verdict(c, k)) = {x, y}
    BY <2>1, Short DEF Verdict
  <2> QED
    BY <2>2, <2>3
<1>2. \A o \in Range(Insights(ven)) : o.type \in {"market.insight", "signal.verdict"}
  BY <1>1, InsightsFacts
<1> QED
  BY <1>2, InsightsFacts DEF Emits, Billed

-----------------------------------------------------------------------------
\* A step of a handler: it raises, returns, or goes on.
Works(t) ==
  /\ todo[t] # <<>>
  /\ \/ Raise(t)
     \/ \E outs : Emits(outs) /\ Finish(t, outs)
     \/ \E there : Goto(t, there) /\ "pc" \in DOMAIN there /\ Fits(there)

\* The handlers of Tracking do so.
LEMMA TrackingWorks ==
  ASSUME NEW t \in Threads, TrackingStep(t)
  PROVE  Works(t)
<1>1. CASE React(t)
  <2>1. /\ todo[t] # <<>>
        /\ Head(todo[t]).node \in Stateless
        /\ \E outs \in Reactions(Head(todo[t]).node, Ev(t)) : Finish(t, outs)
    BY <1>1 DEF React, Handling
  <2> QED
    BY <2>1, ReactEmits DEF Works
<1>2. CASE ReactFails(t) \/ NotifierFails(t)
  BY <1>2 DEF ReactFails, NotifierFails, Handling, Works
<1>3. CASE TrackerIgnores(t)
  BY <1>3, ShortEmits DEF TrackerIgnores, At, Handling, Works
<1>4. CASE TrackerWrites(t) \/ NotifierPosts(t)
  <2>1. /\ todo[t] # <<>>
        /\ Goto(t, [pc |-> "announce"]) \/ Goto(t, [pc |-> "mail"])
    BY <1>4 DEF TrackerWrites, NotifierPosts, At, Handling
  <2>2. Fits([pc |-> "announce"]) /\ Fits([pc |-> "mail"])
    BY DEF Fits
  <2> QED
    BY <2>1, <2>2 DEF Works
<1>5. CASE TrackerAnnounces(t)
  <2>1. PICK about, says : /\ Finish(t, <<Out("thesis.state.updated", about, says)>>)
                           /\ todo[t] # <<>>
    BY <1>5 DEF TrackerAnnounces, Update, At, Handling
  <2>2. Emits(<<Out("thesis.state.updated", about, says)>>)
    BY OutEmits
  <2> QED
    BY <2>1, <2>2 DEF Works
<1>6. CASE NotifierMails(t)
  <2>1. PICK about : /\ Finish(t, <<Out("founder.notified", about, "")>>)
                     /\ todo[t] # <<>>
    BY <1>6 DEF NotifierMails, At, Handling
  <2>2. Emits(<<Out("founder.notified", about, "")>>)
    BY OutEmits
  <2> QED
    BY <2>1, <2>2 DEF Works
<1> QED
  BY <1>1, <1>2, <1>3, <1>4, <1>5, <1>6 DEF TrackingStep

\* Those of Billing do.
LEMMA BillingWorks ==
  ASSUME IInv, NEW t \in Threads, BillingStep(t)
  PROVE  Works(t)
<1>1. todo[t] # <<>> /\ "pc" \in DOMAIN loc[t]
  BY DEF BillingStep, TakeId, Create, Remember, Charge, Forget, Cancel, BillingFails,
         Activating, Cancelling, At, Handling, IInv, Typed
<1>2. ASSUME NEW there, Goto(t, there), "pc" \in DOMAIN there,
             there.pc \in {"create", "remember", "charge", "cancel"}
      PROVE  Works(t)
  <2>1. Fits(there)
    BY <1>2 DEF Fits
  <2> QED
    BY <1>1, <1>2, <2>1 DEF Works
<1>3. CASE TakeId(t)
  BY <1>2, <1>3 DEF TakeId
<1>4. CASE Create(t) \/ Remember(t)
  <2>1. PICK pc \in {"remember", "charge"} : Goto(t, [loc[t] EXCEPT !.pc = pc])
    BY <1>4 DEF Create, Remember
  <2>2. LET there == [loc[t] EXCEPT !.pc = pc]
        IN "pc" \in DOMAIN there /\ there.pc = pc
    BY <1>1
  <2> QED
    BY <1>2, <2>1, <2>2
<1>5. CASE Charge(t)
  <2>1. PICK about : Finish(t, <<Out("subscription.activated", about, ""),
                                 Out("payment.captured", about, "")>>)
    BY <1>5 DEF Charge, Activated
  <2>2. Emits(<<Out("subscription.activated", about, ""), Out("payment.captured", about, "")>>)
    BY OutEmits
  <2> QED
    BY <1>1, <2>1, <2>2 DEF Works
<1>6. CASE Forget(t)
  <2>1. Finish(t, <<>>) \/ \E id : Goto(t, [pc |-> "cancel", id |-> id])
    BY <1>6 DEF Forget
  <2>2. ASSUME NEW id, Goto(t, [pc |-> "cancel", id |-> id])
        PROVE  Works(t)
    BY <1>2, <2>2
  <2> QED
    BY <1>1, <2>1, <2>2, ShortEmits DEF Works
<1>7. CASE Cancel(t)
  <2>1. PICK about : Finish(t, <<Out("subscription.cancelled", about, "")>>)
    BY <1>7 DEF Cancel
  <2>2. Emits(<<Out("subscription.cancelled", about, "")>>)
    BY OutEmits
  <2> QED
    BY <1>1, <2>1, <2>2 DEF Works
<1>8. CASE BillingFails(t)
  BY <1>1, <1>8 DEF BillingFails, Works
<1> QED
  BY <1>3, <1>4, <1>5, <1>6, <1>7, <1>8 DEF BillingStep

\* What is asked at hand, and what its thread remembers.
LEMMA AtHand ==
  ASSUME IInv, Shaped, NEW t \in Threads, todo[t] # <<>>
  PROVE  /\ Head(todo[t]) \in Range(todo[t])
         /\ Welcome(Ev(t)) /\ Ev(t).root = run[t].root
         /\ \E n \in 1 .. minted[t] : Ev(t).id = <<t, n>>
         /\ "pc" \in DOMAIN loc[t] /\ Fits(loc[t])
<1>1. Head(todo[t]) \in Range(todo[t])
  BY HeadTail DEF Shaped, Queued
<1> QED
  BY <1>1 DEF Shaped, Queued, Remembered, Ev, IInv, Typed

\* Those of Feeds do.
LEMMA FeedsWorks ==
  ASSUME IInv, Shaped, NEW t \in Threads, FeedsStep(t)
  PROVE  Works(t)
<1>1. todo[t] # <<>>
  BY DEF FeedsStep, ScrapeStart, Fetch, FetchFails, Claim, Store, SourceDone, BuilderRead,
         BuilderExtract, BuilderAdvance, UpsertEntities, UpsertEdges, RollUp, Refresh,
         Infer, InferFails, At, Handling
<1>2. "pc" \in DOMAIN loc[t] /\ Fits(loc[t]) /\ Welcome(Ev(t))
  BY <1>1, AtHand
<1>3. ASSUME NEW srcs, NEW outs, Emits(outs), Scrape(t, srcs, outs)
      PROVE  Works(t)
  <2>1. Fits([pc |-> "fetch", srcs |-> srcs, outs |-> outs])
    BY <1>3 DEF Fits
  <2> QED
    BY <1>1, <1>3, <2>1 DEF Scrape, Works
<1>4. ASSUME NEW there, Goto(t, there), "pc" \in DOMAIN there, Fits(there)
      PROVE  Works(t)
  BY <1>1, <1>4 DEF Works
<1>5. CASE ScrapeStart(t)
  BY <1>3, <1>5, ShortEmits DEF ScrapeStart
<1>6. CASE Fetch(t)
  <2>1. PICK recs : Goto(t, [pc |-> "insert", srcs |-> loc[t].srcs, outs |-> loc[t].outs,
                             recs |-> recs])
    BY <1>6 DEF Fetch
  <2>2. Fits([pc |-> "insert", srcs |-> loc[t].srcs, outs |-> loc[t].outs, recs |-> recs])
    BY <1>2, <1>6 DEF Fetch, At, Fits
  <2> QED
    BY <1>4, <2>1, <2>2
<1>7. CASE FetchFails(t) \/ InferFails(t)
  BY <1>1, <1>7 DEF FetchFails, InferFails, Works
<1>8. CASE Claim(t)
  <2>1. loc[t].pc = "insert" /\ Emits(loc[t].outs)
    BY <1>2, <1>8 DEF Claim, At, Fits
  <2>2. CASE Goto(t, [loc[t] EXCEPT !.recs = Tail(@)])
    <3>1. LET there == [loc[t] EXCEPT !.recs = Tail(@)]
          IN "pc" \in DOMAIN there /\ there.pc = "insert" /\ there.outs = loc[t].outs
      BY <1>2, <2>1
    <3>2. Fits([loc[t] EXCEPT !.recs = Tail(@)])
      BY <2>1, <3>1 DEF Fits
    <3> QED
      BY <1>4, <2>2, <3>1, <3>2
  <2>3. CASE Goto(t, [pc |-> "store", srcs |-> loc[t].srcs, outs |-> loc[t].outs,
                      recs |-> Tail(loc[t].recs),
                      row |-> [seq |-> seq + 1, rec |-> Head(loc[t].recs)]])
    <3>1. Fits([pc |-> "store", srcs |-> loc[t].srcs, outs |-> loc[t].outs,
                recs |-> Tail(loc[t].recs),
                row |-> [seq |-> seq + 1, rec |-> Head(loc[t].recs)]])
      BY <2>1 DEF Fits
    <3> QED
      BY <1>4, <2>3, <3>1
  <2> QED
    BY <1>8, <2>2, <2>3 DEF Claim
<1>9. CASE Store(t)
  <2>1. Fits([pc |-> "insert", srcs |-> loc[t].srcs, outs |-> loc[t].outs, recs |-> loc[t].recs])
    BY <1>2, <1>9 DEF Store, At, Fits
  <2> QED
    BY <1>4, <1>9, <2>1 DEF Store
<1>10. CASE SourceDone(t)
  <2>1. Emits(loc[t].outs)
    BY <1>2, <1>10 DEF SourceDone, At, Fits
  <2>2. PICK out : /\ out = Out("source.records.ingested", Head(loc[t].srcs), "")
                   /\ Scrape(t, Tail(loc[t].srcs), Append(loc[t].outs, out))
    BY <1>10 DEF SourceDone
  <2>3. out.type \notin Billed
    <3>1. out.type = "source.records.ingested"
      BY <2>2, OutFields
    <3> QED
      BY <3>1 DEF Billed
  <2>4. Emits(Append(loc[t].outs, out))
    BY <2>1, <2>3, Appending, AppendRange DEF Emits
  <2> QED
    BY <1>3, <2>2, <2>4
<1>11. CASE BuilderRead(t)
  <2>1. IsSeq(ReadSince(watermark))
    BY Reading DEF IInv, Typed, Numbered
  <2>2. Fits([pc |-> "extract", new |-> ReadSince(watermark)])
    BY <2>1 DEF Fits
  <2> QED
    BY <1>1, <1>4, <1>11, <2>2, ShortEmits DEF BuilderRead, Works
<1>12. CASE BuilderExtract(t)
  <2> DEFINE new == loc[t].new
             facts == Facts(new)
             ents == Flat([i \in DOMAIN new |-> facts[i].ents])
  <2>1. IsSeq(new)
    BY <1>2, <1>12 DEF BuilderExtract, At, Fits
  <2> DEFINE arcs == UNION {facts[i].edges : i \in DOMAIN new}
  <2>2. PICK m : Goto(t, [pc |-> "advance", ents |-> ents, edges |-> arcs, mark |-> m])
    BY <1>12 DEF BuilderExtract
  <2>3. IsSeq(ents) /\ EndsIn(arcs, Ids(ents))
    <3> DEFINE parts == [i \in DOMAIN new |-> facts[i].ents]
    <3>1. DOMAIN new = 1 .. Len(new) /\ Len(new) \in Nat
      BY <2>1, SeqFacts
    <3>2. \A i \in DOMAIN new : IsSeq(parts[i]) /\ EndsIn(facts[i].edges, Ids(parts[i]))
      BY ExtractJoins DEF Facts, EndsIn, Ids
    <3> HIDE DEF new, facts
    <3>3. parts = [i \in 1 .. Len(new) |-> parts[i]] /\ DOMAIN parts = DOMAIN new
      BY <3>1
    <3> HIDE DEF parts
    <3>4. IsSeq(parts)
      BY <3>1, <3>3, AsSeq
    <3>5. IsSeq(Flat(parts)) /\ Range(Flat(parts)) = UNION {Range(parts[i]) : i \in DOMAIN parts}
      BY <3>2, <3>3, <3>4, FlatFacts
    <3>6. \A i \in DOMAIN new : Ids(parts[i]) \subseteq Ids(Flat(parts))
      BY <3>3, <3>5 DEF Ids
    <3>7. EndsIn(arcs, Ids(Flat(parts)))
      BY <3>2, <3>6 DEF EndsIn
    <3> QED
      BY <3>5, <3>7 DEF parts
  <2> HIDE DEF ents, arcs
  <2>4. Fits([pc |-> "advance", ents |-> ents, edges |-> arcs, mark |-> m])
    BY <2>3 DEF Fits
  <2> QED
    BY <1>4, <2>2, <2>4
<1>13. CASE BuilderAdvance(t)
  <2>1. Fits([pc |-> "entities", ents |-> loc[t].ents, edges |-> loc[t].edges])
    BY <1>2, <1>13 DEF BuilderAdvance, At, Fits
  <2> QED
    BY <1>4, <1>13, <2>1 DEF BuilderAdvance
<1>14. CASE UpsertEntities(t)
  <2>1. Fits([pc |-> "edges", edges |-> loc[t].edges])
    BY DEF Fits
  <2> QED
    BY <1>4, <1>14, <2>1 DEF UpsertEntities
<1>15. CASE UpsertEdges(t)
  <2>1. Fits([pc |-> "rollup"])
    BY DEF Fits
  <2> QED
    BY <1>4, <1>15, <2>1 DEF UpsertEdges
<1>16. CASE RollUp(t)
  <2> DEFINE ven == Ev(t).ven
             jobs == OfType(graph, ven, "Job")
             reviews == OfType(graph, ven, "Review")
             name == [i \in DOMAIN graph |-> CompanyOf(graph, i)]
  <2>1. \A S \in SUBSET DOMAIN graph : IsFiniteSet({CompanyOf(graph, j) : j \in S})
    <3> SUFFICES ASSUME NEW S \in SUBSET DOMAIN graph
                 PROVE  IsFiniteSet({CompanyOf(graph, j) : j \in S})
      OBVIOUS
    <3> DEFINE f == [j \in S |-> CompanyOf(graph, j)]
    <3>1. IsFiniteSet(S)
      BY FS_Subset DEF Shaped, Finite
    <3>2. DOMAIN f = S
      OBVIOUS
    <3>3. IsFiniteSet({f[j] : j \in S})
      <4> HIDE DEF f
      <4> QED
        BY <3>1, <3>2, Image
    <3> QED
      BY <3>3
  <2>2. jobs \in SUBSET DOMAIN graph /\ reviews \in SUBSET DOMAIN graph
    BY DEF OfType
  <2>3. /\ DOMAIN OpenRoles(graph, ven) = {CompanyOf(graph, j) : j \in jobs}
        /\ DOMAIN Reviewed(graph, ven) = {CompanyOf(graph, r) : r \in reviews}
    BY DEF OpenRoles, Reviewed
  <2>4. /\ RollUps(ven).roles = OpenRoles(graph, ven)
        /\ RollUps(ven).sentiment = Reviewed(graph, ven)
    BY DEF RollUps
  <2> HIDE DEF jobs, reviews
  <2>5. /\ IsFiniteSet(DOMAIN RollUps(ven).roles)
        /\ IsFiniteSet(DOMAIN RollUps(ven).sentiment)
    BY <2>1, <2>2, <2>3, <2>4
  <2>6. Fits([pc |-> "refresh", views |-> RollUps(ven)])
    BY <2>5 DEF Fits
  <2> QED
    BY <1>4, <1>16, <2>6 DEF RollUp
<1>17. CASE Refresh(t)
  <2>1. Emits(<<Out("knowledge.updated", "", "")>>)
    BY OutEmits
  <2> QED
    BY <1>1, <1>17, <2>1 DEF Refresh, Works
<1>18. CASE Infer(t)
  <2>1. Emits(Insights(Ev(t).ven))
    BY <1>2, InsightsEmit DEF Welcome, Shaped
  <2> QED
    BY <1>1, <1>18, <2>1 DEF Infer, Works
<1> QED
  BY <1>5, <1>6, <1>7, <1>8, <1>9, <1>10, <1>11, <1>12, <1>13, <1>14, <1>15, <1>16, <1>17, <1>18
     DEF FeedsStep

-----------------------------------------------------------------------------
\* The roster is a sequence.
LEMMA RosterFacts ==
  /\ IsSeq(Roster)
  /\ {"thesis-tracker", "founder-notifier", "knowledge-builder", "insight-inferrer"}
       \subseteq Range(Roster)
<1>1. Roster = [i \in 1 .. 13 |-> Roster[i]] /\ DOMAIN Roster = 1 .. 13
  BY DEF Roster
<1>2. IsSeq(Roster)
  BY <1>1, AsSeq
<1>3. /\ Roster[1] = "thesis-tracker" /\ Roster[2] = "founder-notifier"
      /\ Roster[12] = "knowledge-builder" /\ Roster[13] = "insight-inferrer"
  BY DEF Roster
<1>4. 1 \in DOMAIN Roster /\ 2 \in DOMAIN Roster /\ 12 \in DOMAIN Roster /\ 13 \in DOMAIN Roster
  BY <1>1
<1>5. {"thesis-tracker", "founder-notifier", "knowledge-builder", "insight-inferrer"}
        \subseteq Range(Roster)
  BY <1>3, <1>4 DEF Range
<1> QED
  BY <1>2, <1>5

\* A publish delivers the event to every node that reacts to it, and to no other.
LEMMA DeliveriesFacts ==
  ASSUME NEW ev
  PROVE  /\ IsSeq(Deliveries(ev))
         /\ Range(Deliveries(ev)) =
              {[node |-> n, ev |-> ev] : n \in {m \in Range(Roster) : ev.type \in ReactsTo(m)}}
<1> DEFINE heard == UNION {ReactsTo(Roster[i]) : i \in DOMAIN Roster}
           part(type) == [i \in DOMAIN Roster |->
                           IF type \in ReactsTo(Roster[i]) THEN <<Roster[i]>> ELSE <<>>]
           fans == {m \in Range(Roster) : ev.type \in ReactsTo(m)}
<1>1. DOMAIN Subscribers = heard
  BY DEF Subscribers
<1>2. fans # {} => ev.type \in heard
  BY DEF Range
<1>3. CASE ev.type \notin heard
  <2>1. Deliveries(ev) = <<>>
    BY <1>1, <1>3 DEF Deliveries
  <2>2. fans = {}
    BY <1>2, <1>3
  <2> QED
    BY <2>1, <2>2, Short
<1>4. CASE ev.type \in heard
  <2> DEFINE parts == part(ev.type)
             subs == Subscribers[ev.type]
             new == Deliveries(ev)
  <2>1. subs = Flat(parts)
    BY <1>4 DEF Subscribers
  <2>2. DOMAIN parts = DOMAIN Roster /\ \A i \in DOMAIN Roster :
          /\ ev.type \in ReactsTo(Roster[i]) => parts[i] = <<Roster[i]>>
          /\ ev.type \notin ReactsTo(Roster[i]) => parts[i] = <<>>
    OBVIOUS
  <2> HIDE DEF parts
  <2>3. \A i \in DOMAIN parts : IsSeq(parts[i])
    BY <2>2, Short
  <2>4. IsSeq(parts)
    <3>1. Len(Roster) \in Nat /\ DOMAIN Roster = 1 .. Len(Roster)
      BY RosterFacts, SeqFacts
    <3>2. parts = [i \in 1 .. Len(Roster) |-> parts[i]]
      BY <3>1 DEF parts
    <3> QED
      BY <3>1, <3>2, AsSeq
  <2>5. IsSeq(subs) /\ Range(subs) = UNION {Range(parts[i]) : i \in DOMAIN parts}
    BY <2>1, <2>3, <2>4, FlatFacts
  <2>6. UNION {Range(parts[i]) : i \in DOMAIN parts} = fans
    <3>1. \A i \in DOMAIN Roster :
            Range(parts[i]) = IF ev.type \in ReactsTo(Roster[i]) THEN {Roster[i]} ELSE {}
      BY <2>2, Short
    <3>2. \A x : x \in UNION {Range(parts[i]) : i \in DOMAIN parts} <=>
                   \E i \in DOMAIN Roster : ev.type \in ReactsTo(Roster[i]) /\ x = Roster[i]
      BY <2>2, <3>1
    <3>3. \A x : x \in fans <=>
                   \E i \in DOMAIN Roster : ev.type \in ReactsTo(Roster[i]) /\ x = Roster[i]
      BY DEF Range
    <3> HIDE DEF fans
    <3> QED
      BY <3>2, <3>3
  <2>7. new = [i \in DOMAIN subs |-> [node |-> subs[i], ev |-> ev]]
    BY <1>1, <1>4 DEF Deliveries
  <2> HIDE DEF subs, new, fans
  <2>8. DOMAIN subs = 1 .. Len(subs) /\ Len(subs) \in Nat
    BY <2>5, SeqFacts
  <2>9. IsSeq(new)
    <3>1. new = [i \in 1 .. Len(subs) |-> new[i]]
      BY <2>7, <2>8
    <3> QED
      BY <2>8, <3>1, AsSeq
  <2>10. Range(new) = {[node |-> n, ev |-> ev] : n \in Range(subs)}
    <3>1. DOMAIN new = DOMAIN subs /\ \A i \in DOMAIN subs : new[i] = [node |-> subs[i], ev |-> ev]
      BY <2>7
    <3> QED
      BY <3>1 DEF Range
  <2> QED
    BY <2>5, <2>6, <2>9, <2>10 DEF new, fans
<1> QED
  BY <1>3, <1>4

\* What a child event inherits.
LEMMA ChildFields ==
  \A out, parent, id :
    /\ Child(out, parent, id).type = out.type
    /\ Child(out, parent, id).about = out.about
    /\ Child(out, parent, id).says = out.says
    /\ Child(out, parent, id).urgent = out.urgent
    /\ Child(out, parent, id).ven = parent.ven
    /\ Child(out, parent, id).root = parent.root
    /\ Child(out, parent, id).id = id
BY DEF Child

\* The i-th event that a handler of t emits.
Event(t, outs, i) == Child(outs[i], Ev(t), <<t, minted[t] + i>>)

\* When a handler returns, what it emitted is to be delivered before the rest.
LEMMA Finishing ==
  ASSUME IInv, Queued, NEW t \in Threads, todo[t] # <<>>, NEW outs, IsSeq(outs), Finish(t, outs)
  PROVE  /\ IsSeq(todo'[t])
         /\ Range(todo'[t]) = (UNION {Range(Deliveries(Event(t, outs, i))) : i \in DOMAIN outs})
                              \cup Range(Tail(todo[t]))
         /\ minted'[t] = minted[t] + Len(outs) /\ DOMAIN minted' = Threads
         /\ Len(outs) \in Nat /\ DOMAIN outs = 1 .. Len(outs)
         /\ \A u \in Threads \ {t} : minted'[u] = minted[u]
         /\ Leaves(t) /\ run'[t].root = run[t].root
         /\ UNCHANGED <<inbox, reply, dropped, faults>>
<1> DEFINE parts == [i \in DOMAIN outs |-> Deliveries(Event(t, outs, i))]
           rest == Tail(todo[t])
<1>1. DOMAIN outs = 1 .. Len(outs) /\ Len(outs) \in Nat
  BY SeqFacts
<1>2. \A i \in DOMAIN outs : IsSeq(parts[i]) /\ parts[i] = Deliveries(Event(t, outs, i))
  BY DeliveriesFacts
<1>3. Flat([i \in DOMAIN outs |-> Deliveries(
               [j \in DOMAIN outs |-> Child(outs[j], Ev(t), <<t, minted[t] + j>>)][i])])
        = Flat(parts)
  BY DEF Event
<1>4. todo' = [todo EXCEPT ![t] = Flat(parts) \o Tail(@)]
  BY <1>3 DEF Finish, Event
<1>5. todo'[t] = Flat(parts) \o rest
  BY <1>4 DEF IInv, Typed
<1>6. parts = [i \in 1 .. Len(outs) |-> parts[i]] /\ DOMAIN parts = DOMAIN outs
  BY <1>1
<1> HIDE DEF parts
<1>7. IsSeq(parts)
  BY <1>1, <1>6, AsSeq
<1>8. /\ IsSeq(Flat(parts))
      /\ Range(Flat(parts)) = UNION {Range(parts[i]) : i \in DOMAIN parts}
  BY <1>2, <1>6, <1>7, FlatFacts
<1>9. IsSeq(rest)
  BY HeadTail DEF Queued
<1>10. IsSeq(todo'[t]) /\ Range(todo'[t]) = Range(Flat(parts)) \cup Range(rest)
  BY <1>5, <1>8, <1>9, Joining
<1>11. {Range(parts[i]) : i \in DOMAIN parts} =
         {Range(Deliveries(Event(t, outs, i))) : i \in DOMAIN outs}
  BY <1>2, <1>6
<1>12. minted' = [minted EXCEPT ![t] = minted[t] + Len(outs)] /\ DOMAIN minted = Threads
  BY DEF Finish, Queued
<1>13. Leaves(t)
  BY Leaving
<1>14. run'[t].root = run[t].root
  <2>1. PICK d : run' = [run EXCEPT ![t] = [run[t] EXCEPT !.did = d]]
    BY DEF Finish, Capture
  <2>2. /\ DOMAIN run = Threads
        /\ run[t] = [root |-> run[t].root, did |-> run[t].did, cut |-> run[t].cut]
    BY DEF IInv, Typed
  <2> QED
    BY <2>1, <2>2
<1>15. UNCHANGED <<inbox, reply, dropped, faults>>
  BY DEF Finish
<1> QED
  BY <1>1, <1>8, <1>10, <1>11, <1>12, <1>13, <1>14, <1>15

\* What a delivery to t must be.
Due(t, d) ==
  /\ Welcome(d.ev)
  /\ d.ev.root = run[t].root
  /\ \E n \in 1 .. minted[t] : d.ev.id = <<t, n>>

\* Threads that a step leaves alone keep their deliveries.
LEMMA QueuedElsewhere ==
  ASSUME Queued, NEW t \in Threads,
         DOMAIN minted' = Threads, DOMAIN inbox' = Threads,
         \A u \in Threads \ {t} : /\ minted'[u] = minted[u] /\ inbox'[u] = inbox[u]
                                  /\ todo'[u] = todo[u] /\ run'[u].root = run[u].root,
         minted'[t] \in Nat,
         IsSeq(inbox'[t]), \A r \in Range(inbox'[t]) : Welcome(r),
         IsSeq(todo'[t]), \A d \in Range(todo'[t]) : Due(t, d)'
  PROVE  Queued'
<1>1. \A u \in Threads : /\ minted'[u] \in Nat
                         /\ IsSeq(inbox'[u]) /\ \A r \in Range(inbox'[u]) : Welcome(r)
                         /\ IsSeq(todo'[u])
  BY DEF Queued
<1>2. \A u \in Threads : \A d \in Range(todo'[u]) : Due(u, d)'
  <2> SUFFICES ASSUME NEW u \in Threads \ {t}, NEW d \in Range(todo'[u])
               PROVE  Due(u, d)'
    OBVIOUS
  <2> QED
    BY DEF Queued, Due
<1> QED
  BY <1>1, <1>2 DEF Queued, Due, Welcome

\* What a handler returns is due, for the venture and the run it was called for.
LEMMA EmittedDue ==
  ASSUME IInv, Shaped, NEW t \in Threads, todo[t] # <<>>, NEW outs, Emits(outs),
         NEW i \in DOMAIN outs, NEW d \in Range(Deliveries(Event(t, outs, i)))
  PROVE  /\ d.ev = Event(t, outs, i)
         /\ Welcome(d.ev) /\ d.ev.root = run[t].root
         /\ d.ev.id = <<t, minted[t] + i>>
<1>1. PICK n : d = [node |-> n, ev |-> Event(t, outs, i)]
  BY DeliveriesFacts
<1>2. d.ev = Event(t, outs, i)
  BY <1>1
<1>3. /\ d.ev.ven = Ev(t).ven /\ d.ev.root = Ev(t).root /\ d.ev.type = outs[i].type
      /\ d.ev.id = <<t, minted[t] + i>>
  BY <1>2, ChildFields DEF Event
<1>4. outs[i] \in Range(outs)
  BY DEF Range
<1>5. outs[i].type \notin Billed
  BY <1>4 DEF Emits
<1>6. Welcome(Ev(t)) /\ Ev(t).root = run[t].root
  BY AtHand
<1> QED
  BY <1>2, <1>3, <1>5, <1>6 DEF Welcome

\* A handler that works keeps the deliveries in order.
LEMMA QueuedWorks ==
  ASSUME IInv, Shaped, NEW t \in Threads, Works(t)
  PROVE  Queued'
<1>0. /\ todo[t] # <<>> /\ Queued /\ IsSeq(todo[t]) /\ minted[t] \in Nat
      /\ DOMAIN minted = Threads /\ DOMAIN inbox = Threads
      /\ IsSeq(inbox[t]) /\ \A r \in Range(inbox[t]) : Welcome(r)
      /\ \A d \in Range(todo[t]) : Due(t, d)
  BY DEF Works, Shaped, Queued, Due
<1>1. CASE Raise(t)
  <2>1. /\ inbox' = inbox /\ minted' = minted
        /\ Leaves(t)
    BY <1>0, <1>1, Leaving DEF Raise
  <2>2. todo'[t] = <<>>
    BY <1>1 DEF Raise, IInv, Typed
  <2> QED
    BY <1>0, <2>1, <2>2, Short, QueuedElsewhere DEF Leaves, Only
<1>2. ASSUME NEW outs, Emits(outs), Finish(t, outs)
      PROVE  Queued'
  <2>1. /\ IsSeq(todo'[t])
        /\ Range(todo'[t]) = (UNION {Range(Deliveries(Event(t, outs, i))) : i \in DOMAIN outs})
                             \cup Range(Tail(todo[t]))
        /\ minted'[t] = minted[t] + Len(outs) /\ DOMAIN minted' = Threads
        /\ Len(outs) \in Nat /\ DOMAIN outs = 1 .. Len(outs)
        /\ \A u \in Threads \ {t} : minted'[u] = minted[u]
        /\ Leaves(t) /\ run'[t].root = run[t].root
        /\ inbox' = inbox
    BY <1>0, <1>2, Finishing DEF Emits
  <2>2. minted'[t] \in Nat /\ \A n \in 1 .. minted[t] : n \in 1 .. minted'[t]
    BY <1>0, <2>1
  <2>3. \A d \in Range(Tail(todo[t])) : Due(t, d)'
    <3>1. Range(Tail(todo[t])) \subseteq Range(todo[t])
      BY <1>0, HeadTail
    <3> QED
      BY <1>0, <2>1, <2>2, <3>1 DEF Due, Welcome
  <2>4. ASSUME NEW i \in DOMAIN outs, NEW d \in Range(Deliveries(Event(t, outs, i)))
        PROVE  Due(t, d)'
    <3>1. Welcome(d.ev) /\ d.ev.root = run[t].root /\ d.ev.id = <<t, minted[t] + i>>
      BY <1>0, <1>2, EmittedDue
    <3>2. minted[t] + i \in 1 .. minted'[t]
      BY <1>0, <2>1
    <3> QED
      BY <2>1, <3>1, <3>2 DEF Due, Welcome
  <2>5. \A d \in Range(todo'[t]) : Due(t, d)'
    BY <2>1, <2>3, <2>4
  <2> QED
    BY <1>0, <2>1, <2>2, <2>5, QueuedElsewhere DEF Leaves, Only
<1>3. ASSUME NEW there, Goto(t, there)
      PROVE  Queued'
  <2>1. UNCHANGED <<inbox, run, todo, minted>>
    BY <1>3 DEF Goto
  <2> QED
    BY <1>0, <2>1 DEF Queued, Welcome
<1> QED
  BY <1>1, <1>2, <1>3 DEF Works

\* And so do the threads' own steps.
LEMMA QueuedRequest ==
  ASSUME IInv, Queued, NEW t \in Threads, Publish(t) \/ Reset(t) \/ Reply(t)
  PROVE  Queued'
<1>0. /\ IsSeq(todo[t]) /\ minted[t] \in Nat
      /\ DOMAIN minted = Threads /\ DOMAIN inbox = Threads
      /\ DOMAIN run = Threads /\ DOMAIN todo = Threads
      /\ IsSeq(inbox[t]) /\ \A r \in Range(inbox[t]) : Welcome(r)
      /\ \A d \in Range(todo[t]) : Due(t, d)
  BY DEF IInv, Typed, Queued, Due
<1>1. ASSUME inbox[t] # <<>>
      PROVE  /\ IsSeq(Tail(inbox[t])) /\ \A r \in Range(Tail(inbox[t])) : Welcome(r)
             /\ Welcome(Head(inbox[t]))
  BY <1>0, <1>1, HeadTail
<1>2. CASE Publish(t)
  <2> DEFINE id == <<t, minted[t] + 1>>
             req == Head(inbox[t])
             ev == Child(req, [ven |-> req.ven, root |-> id], id)
  <2>1. /\ inbox[t] # <<>>
        /\ todo' = [todo EXCEPT ![t] = Deliveries(ev)]
        /\ run' = [run EXCEPT ![t] = [root |-> id, did |-> <<>>, cut |-> FALSE]]
        /\ minted' = [minted EXCEPT ![t] = minted[t] + 1]
        /\ inbox' = [inbox EXCEPT ![t] = Tail(inbox[t])]
    BY <1>2 DEF Publish, Asked
  <2>2. /\ todo'[t] = Deliveries(ev) /\ run'[t].root = id
        /\ minted'[t] = minted[t] + 1 /\ minted'[t] \in Nat /\ minted[t] + 1 \in 1 .. minted'[t]
        /\ inbox'[t] = Tail(inbox[t])
        /\ DOMAIN minted' = Threads /\ DOMAIN inbox' = Threads
        /\ \A u \in Threads \ {t} : /\ minted'[u] = minted[u] /\ inbox'[u] = inbox[u]
                                    /\ todo'[u] = todo[u] /\ run'[u].root = run[u].root
    BY <1>0, <2>1
  <2>3. ev.type = req.type /\ ev.about = req.about /\ ev.ven = req.ven
        /\ ev.root = id /\ ev.id = id
    BY ChildFields
  <2> HIDE DEF ev
  <2>4. IsSeq(Deliveries(ev)) /\ \A d \in Range(Deliveries(ev)) : d.ev = ev
    BY DeliveriesFacts
  <2>5. Welcome(ev)
    BY <1>1, <2>1, <2>3 DEF Welcome
  <2>6. \A d \in Range(todo'[t]) : Due(t, d)'
    BY <2>2, <2>3, <2>4, <2>5 DEF Due, Welcome
  <2>7. IsSeq(inbox'[t]) /\ \A r \in Range(inbox'[t]) : Welcome(r)
    BY <1>1, <2>1, <2>2
  <2> HIDE DEF id, req
  <2> QED
    BY <2>2, <2>4, <2>6, <2>7, QueuedElsewhere
<1>3. CASE Reply(t)
  <2>1. /\ todo[t] = <<>> /\ UNCHANGED <<inbox, todo, minted>>
        /\ run' = [run EXCEPT ![t] = Idle]
    BY <1>3 DEF Reply, Idling
  <2> QED
    BY <1>0, <2>1, Short, QueuedElsewhere
<1>4. CASE Reset(t)
  <2>1. /\ inbox[t] # <<>> /\ UNCHANGED <<todo, minted>>
        /\ inbox' = [inbox EXCEPT ![t] = Tail(inbox[t])]
        /\ run' = [u \in Threads |-> IF Serving(u) THEN [run[u] EXCEPT !.cut = TRUE] ELSE run[u]]
    BY <1>4 DEF Reset, Asked
  <2>2. \A u \in Threads : run'[u].root = run[u].root
    <3> SUFFICES ASSUME NEW u \in Threads
                 PROVE  run'[u].root = run[u].root
      OBVIOUS
    <3>1. run[u] = [root |-> run[u].root, did |-> run[u].did, cut |-> run[u].cut]
      BY DEF IInv, Typed
    <3>2. run'[u] = [run[u] EXCEPT !.cut = TRUE] \/ run'[u] = run[u]
      BY <2>1
    <3> QED
      BY <3>1, <3>2, Cutting
  <2>3. IsSeq(inbox'[t]) /\ \A r \in Range(inbox'[t]) : Welcome(r)
    BY <1>0, <1>1, <2>1
  <2>4. \A d \in Range(todo'[t]) : Due(t, d)'
    BY <1>0, <2>1, <2>2 DEF Due, Welcome
  <2> QED
    BY <1>0, <2>1, <2>2, <2>3, <2>4, QueuedElsewhere
<1> QED
  BY <1>2, <1>3, <1>4

-----------------------------------------------------------------------------
\* Steps outside the ingestion nodes leave the graph and the views alone.
LEMMA FiniteStep ==
  ASSUME IInv, Shaped, NEW t \in Threads, FeedsStep(t) \/ UNCHANGED feedVars
  PROVE  Finite'
<1>0. /\ IsFiniteSet(DOMAIN graph) /\ DOMAIN views = Ventures
      /\ \A v \in Ventures : /\ IsFiniteSet(DOMAIN views[v].roles)
                             /\ IsFiniteSet(DOMAIN views[v].sentiment)
  BY DEF Shaped, Finite
<1>1. CASE UNCHANGED <<graph, views>>
  BY <1>0, <1>1 DEF Finite
<1>2. CASE UpsertEntities(t)
  <2> DEFINE ents == loc[t].ents
             id == [k \in DOMAIN ents |-> ents[k].id]
  <2>1. todo[t] # <<>> /\ loc[t].pc = "entities" /\ graph' = Merge(graph, ents) /\ views' = views
    BY <1>2 DEF UpsertEntities, At, Handling
  <2>2. IsSeq(ents)
    BY <2>1, AtHand DEF Fits
  <2>3. DOMAIN graph' = DOMAIN graph \cup {ents[k].id : k \in DOMAIN ents}
    BY <2>1 DEF Merge
  <2>4. IsFiniteSet({ents[k].id : k \in DOMAIN ents})
    <3> HIDE DEF ents
    <3>1. IsFiniteSet(DOMAIN ents) /\ DOMAIN id = DOMAIN ents
      BY <2>2, RangeFinite
    <3>2. IsFiniteSet({id[k] : k \in DOMAIN ents})
      <4> HIDE DEF id
      <4> QED
        BY <3>1, Image
    <3> QED
      BY <3>2
  <2>5. IsFiniteSet(DOMAIN graph')
    <3> DEFINE new == {ents[k].id : k \in DOMAIN ents}
    <3>1. DOMAIN graph' = DOMAIN graph \cup new /\ IsFiniteSet(new)
      BY <2>3, <2>4
    <3> HIDE DEF new
    <3> QED
      BY <1>0, <3>1, FS_Union
  <2> QED
    BY <1>0, <2>1, <2>5 DEF Finite
<1>3. CASE Refresh(t)
  <2>1. /\ todo[t] # <<>> /\ loc[t].pc = "refresh" /\ graph' = graph
        /\ views' = [views EXCEPT ![Ev(t).ven] = loc[t].views]
    BY <1>3 DEF Refresh, At, Handling
  <2>2. /\ IsFiniteSet(DOMAIN loc[t].views.roles) /\ IsFiniteSet(DOMAIN loc[t].views.sentiment)
    BY <2>1, AtHand DEF Fits
  <2> QED
    BY <1>0, <2>1, <2>2 DEF Finite
<1>4. UNCHANGED <<graph, views>> \/ UpsertEntities(t) \/ Refresh(t)
  BY DEF FeedsStep, ScrapeStart, Fetch, FetchFails, Claim, Store, SourceDone, BuilderRead,
         BuilderExtract, BuilderAdvance, UpsertEdges, RollUp, Infer, InferFails,
         feedVars, knowVars
<1> QED
  BY <1>1, <1>2, <1>3, <1>4

\* The threads stay in shape.
LEMMA ShapedStep == IInv /\ Shaped /\ [Next]_vars => Shaped'
<1> SUFFICES ASSUME IInv, Shaped, [Next]_vars
             PROVE  Shaped'
  OBVIOUS
<1>1. CASE UNCHANGED vars
  <2>1. UNCHANGED <<inbox, run, todo, loc, minted, graph, views>>
    BY <1>1 DEF vars, requestVars, feedVars
  <2> QED
    BY <2>1 DEF Shaped, Queued, Remembered, Finite, Welcome
<1>2. ASSUME NEW t \in Threads, Step(t)
      PROVE  Shaped'
  <2>1. /\ (Publish(t) \/ Reset(t) \/ Reply(t)) \/ Works(t)
        /\ FeedsStep(t) \/ UNCHANGED feedVars
    BY <1>2, TrackingWorks, BillingWorks, FeedsWorks DEF Step
  <2>2. Queued'
    BY <2>1, QueuedWorks, QueuedRequest DEF Shaped
  <2>3. Finite'
    BY <2>1, FiniteStep
  <2>4. Remembered'
    <3>1. CASE Publish(t) \/ Reset(t) \/ Reply(t)
      BY <3>1 DEF Publish, Reset, Reply, Shaped, Remembered
    <3>2. CASE Raise(t) \/ \E outs : Emits(outs) /\ Finish(t, outs)
      <4>1. loc' = [loc EXCEPT ![t] = Start]
        BY <3>2 DEF Raise, Finish
      <4> QED
        BY <4>1 DEF Shaped, Remembered, Start, Fits, IInv, Typed
    <3>3. ASSUME NEW there, Goto(t, there), Fits(there)
          PROVE  Remembered'
      BY <3>3 DEF Goto, Shaped, Remembered, IInv, Typed
    <3> QED
      BY <2>1, <3>1, <3>2, <3>3 DEF Works
  <2> QED
    BY <2>2, <2>3, <2>4 DEF Shaped
<1> QED
  BY <1>1, <1>2 DEF Next

\* At first there is nothing to do.
LEMMA ShapedInit == Init => Shaped
<1> SUFFICES ASSUME Init
             PROVE  Shaped
  OBVIOUS
<1>1. /\ inbox \in Scenarios /\ minted = [t \in Threads |-> 0]
      /\ todo = [t \in Threads |-> <<>>] /\ loc = [t \in Threads |-> Start]
      /\ graph = <<>> /\ views = [v \in Ventures |-> NoViews]
  BY DEF Init, RequestsInit, FeedsInit
<1>2. \A t \in Threads : IsSeq(inbox[t]) /\ \A r \in Range(inbox[t]) : Welcome(r)
  <2> SUFFICES ASSUME NEW t \in Threads
               PROVE  IsSeq(inbox[t]) /\ \A r \in Range(inbox[t]) : Welcome(r)
    OBVIOUS
  <2>1. IsSeq(inbox[t]) /\ \A i \in DOMAIN inbox[t] : inbox[t][i].ven \in Ventures
    BY <1>1, ScenariosAssumption DEF IsSeq
  <2>2. \A i \in DOMAIN inbox[t] : inbox[t][i].type \in Billed => inbox[t][i].about \in Customers
    BY <1>1, CustomersAssumption DEF Billed
  <2> QED
    BY <2>1, <2>2 DEF Welcome, Range
<1>3. DOMAIN inbox = Threads
  BY <1>1, ScenariosAssumption
<1>4. Queued
  BY <1>1, <1>2, <1>3, Short DEF Queued
<1>5. Remembered
  BY <1>1 DEF Remembered, Start, Fits
<1>6. Finite
  <2>1. DOMAIN graph = {} /\ IsFiniteSet({})
    BY <1>1, FS_EmptySet
  <2>2. \A v \in Ventures : DOMAIN views[v].roles = {} /\ DOMAIN views[v].sentiment = {}
    BY <1>1 DEF NoViews
  <2> QED
    BY <1>1, <2>1, <2>2 DEF Finite
<1> QED
  BY <1>4, <1>5, <1>6 DEF Shaped

-----------------------------------------------------------------------------
\* Which nodes a step of each kind is inside.
LEMMA NodesOf ==
  ASSUME NEW t \in Threads
  PROVE  /\ TrackingStep(t) => \E n \in Stateless \cup {"thesis-tracker", "founder-notifier"} :
                                 Handling(t, n)
         /\ BillingStep(t) => Handling(t, "subscription-manager")
         /\ FeedsStep(t) => \E n \in {"source-scraper", "knowledge-builder", "insight-inferrer"} :
                              Handling(t, n)
<1>1. TrackingStep(t) => \E n \in Stateless \cup {"thesis-tracker", "founder-notifier"} :
                           Handling(t, n)
  BY DEF TrackingStep, React, ReactFails, TrackerIgnores, TrackerWrites, TrackerAnnounces,
         NotifierPosts, NotifierMails, NotifierFails, At
<1>2. BillingStep(t) => Handling(t, "subscription-manager")
  BY DEF BillingStep, TakeId, Create, Remember, Charge, Forget, Cancel, BillingFails,
         Activating, Cancelling, At
<1>3. FeedsStep(t) => \E n \in {"source-scraper", "knowledge-builder", "insight-inferrer"} :
                        Handling(t, n)
  BY DEF FeedsStep, ScrapeStart, Fetch, FetchFails, Claim, Store, SourceDone, BuilderRead,
         BuilderExtract, BuilderAdvance, UpsertEntities, UpsertEdges, RollUp, Refresh,
         Infer, InferFails, At
<1> QED
  BY <1>1, <1>2, <1>3

\* What a step of t does to the threads.
LEMMA StepOnly ==
  ASSUME IInv, NEW t \in Threads, Works(t)
  PROVE  /\ Only(t)
         /\ loc'[t].pc = "start" \/ (todo'[t] = todo[t] /\ todo[t] # <<>>)
<1>1. todo[t] # <<>>
  BY DEF Works
<1>2. CASE Raise(t) \/ \E outs : Finish(t, outs)
  <2>1. Leaves(t)
    BY <1>1, <1>2, Leaving
  <2> QED
    BY <2>1 DEF Leaves, Start
<1>3. CASE \E there : Goto(t, there) /\ "pc" \in DOMAIN there
  <2>1. Moves(t)
    BY <1>1, <1>3, Moving
  <2> QED
    BY <2>1 DEF Moves
<1> QED
  BY <1>2, <1>3 DEF Works

\* Nobody gets inside a handler but by a step of that handler's node.
LEMMA AtElsewhere ==
  ASSUME IInv, NEW t \in Threads, NEW node, NEW pc, pc # "start",
         (Works(t) /\ ~Handling(t, node)) \/ Publish(t) \/ Reset(t) \/ Reply(t)
  PROVE  \A u \in Threads : At(u, node, pc)' =>
           At(u, node, pc) /\ loc'[u] = loc[u] /\ todo'[u] = todo[u]
<1>0. DOMAIN todo = Threads /\ DOMAIN loc = Threads
  BY DEF IInv, Typed
<1>1. CASE Works(t) /\ ~Handling(t, node)
  <2>1. /\ Only(t)
        /\ loc'[t].pc = "start" \/ (todo'[t] = todo[t] /\ todo[t] # <<>>)
    BY <1>1, StepOnly
  <2>2. ~At(t, node, pc)'
    BY <1>1, <2>1 DEF At, Handling
  <2>3. \A u \in Threads \ {t} : At(u, node, pc)' =>
           At(u, node, pc) /\ loc'[u] = loc[u] /\ todo'[u] = todo[u]
    BY <2>1 DEF At, Handling, Only
  <2> QED
    BY <2>2, <2>3
<1>2. CASE Publish(t)
  <2>1. loc[t].pc = "start" /\ loc' = loc /\ \A u \in Threads \ {t} : todo'[u] = todo[u]
    <3>1. loc[t] = Start
      BY <1>2 DEF Publish, Asked, IInv, Placed
    <3>2. PICK q : todo' = [todo EXCEPT ![t] = q]
      BY <1>2 DEF Publish
    <3> QED
      BY <1>0, <1>2, <3>1, <3>2 DEF Publish, Start
  <2>2. ~At(t, node, pc)'
    BY <2>1 DEF At
  <2> QED
    BY <2>1, <2>2 DEF At, Handling
<1>3. CASE Reset(t) \/ Reply(t)
  BY <1>3 DEF Reset, Reply, At, Handling
<1> QED
  BY <1>1, <1>2, <1>3

-----------------------------------------------------------------------------
\* Edges in hand whose entities are in the graph have their ends there.
Linked ==
  \A t \in Threads : At(t, "knowledge-builder", "edges") => EndsIn(loc[t].edges, DOMAIN graph)

\* A step that leaves the edges alone and the graph's entities in place.
LEMMA LinkedQuiet ==
  ASSUME NoDanglingEdges, Linked, NEW t \in Threads,
         UNCHANGED <<graph, edges>>,
         \A u \in Threads : At(u, "knowledge-builder", "edges")' =>
           At(u, "knowledge-builder", "edges") /\ loc'[u] = loc[u]
  PROVE  NoDanglingEdges' /\ Linked'
<1>1. NoDanglingEdges'
  BY DEF NoDanglingEdges
<1>2. Linked'
  BY DEF Linked
<1> QED
  BY <1>1, <1>2

\* The graph only grows, by the entities in hand.
LEMMA Merging ==
  ASSUME NEW g, NEW ents
  PROVE  DOMAIN Merge(g, ents) = DOMAIN g \cup Ids(ents)
BY DEF Merge, Ids, Range

\* knowledge-builder keeps the graph closed.
LEMMA LinkedFeeds ==
  ASSUME IInv, Shaped, NoDanglingEdges, Linked, NEW t \in Threads, FeedsStep(t)
  PROVE  NoDanglingEdges' /\ Linked'
<1>0. /\ todo[t] # <<>> /\ Fits(loc[t]) /\ "pc" \in DOMAIN loc[t] /\ Works(t)
      /\ \E n \in {"source-scraper", "knowledge-builder", "insight-inferrer"} : Handling(t, n)
  <2>1. Works(t) /\ \E n \in {"source-scraper", "knowledge-builder", "insight-inferrer"} : Handling(t, n)
    BY FeedsWorks, NodesOf
  <2> QED
    BY <2>1, AtHand DEF Works
<1>1. /\ Only(t) /\ \A u \in Threads \ {t} : At(u, "knowledge-builder", "edges")' =>
                      At(u, "knowledge-builder", "edges") /\ loc'[u] = loc[u]
  BY <1>0, StepOnly DEF Only, At, Handling
<1>2. ASSUME NEW there, Goto(t, there)
      PROVE  loc'[t] = there
  BY <1>2 DEF Goto, IInv, Typed
<1>3. CASE UpsertEntities(t)
  <2>1. /\ graph' = Merge(graph, loc[t].ents) /\ edges' = edges
        /\ loc'[t] = [pc |-> "edges", edges |-> loc[t].edges]
        /\ loc[t].pc = "entities"
    BY <1>2, <1>3 DEF UpsertEntities, At
  <2>2. DOMAIN graph' = DOMAIN graph \cup Ids(loc[t].ents)
    BY <2>1, Merging
  <2>3. EndsIn(loc[t].edges, Ids(loc[t].ents))
    BY <1>0, <2>1 DEF Fits
  <2>4. EndsIn(loc'[t].edges, DOMAIN graph')
    BY <2>1, <2>2, <2>3 DEF EndsIn
  <2>5. NoDanglingEdges'
    BY <2>1, <2>2 DEF NoDanglingEdges
  <2>6. \A u \in Threads \ {t} : At(u, "knowledge-builder", "edges")' =>
          EndsIn(loc'[u].edges, DOMAIN graph')
    BY <1>1, <2>2 DEF Linked, EndsIn
  <2> QED
    BY <2>4, <2>5, <2>6 DEF Linked
<1>4. CASE UpsertEdges(t)
  <2>1. /\ graph' = graph /\ edges' = edges \cup loc[t].edges
        /\ loc'[t].pc = "rollup" /\ At(t, "knowledge-builder", "edges")
    BY <1>2, <1>4 DEF UpsertEdges
  <2>2. EndsIn(loc[t].edges, DOMAIN graph)
    BY <2>1 DEF Linked
  <2>3. NoDanglingEdges'
    BY <2>1, <2>2 DEF NoDanglingEdges, EndsIn
  <2>4. ~At(t, "knowledge-builder", "edges")'
    BY <2>1 DEF At
  <2>5. Linked'
    BY <1>1, <2>1, <2>4 DEF Linked
  <2> QED
    BY <2>3, <2>5
<1>5. ASSUME UNCHANGED <<graph, edges>>, loc'[t].pc # "edges"
      PROVE  NoDanglingEdges' /\ Linked'
  <2>1. ~At(t, "knowledge-builder", "edges")'
    BY <1>5 DEF At
  <2> QED
    BY <1>1, <1>5, <2>1, LinkedQuiet
<1>6. ASSUME Raise(t) \/ \E outs : Finish(t, outs)
      PROVE  loc'[t].pc # "edges"
  <2>1. Leaves(t)
    BY <1>0, <1>6, Leaving
  <2> QED
    BY <2>1 DEF Leaves, Start
<1>7. ASSUME NEW srcs, NEW outs, Scrape(t, srcs, outs)
      PROVE  loc'[t].pc # "edges"
  <2>1. Finish(t, outs) \/ Goto(t, [pc |-> "fetch", srcs |-> srcs, outs |-> outs])
    BY <1>7 DEF Scrape
  <2>2. CASE Goto(t, [pc |-> "fetch", srcs |-> srcs, outs |-> outs])
    BY <2>2, <1>2
  <2> QED
    BY <2>1, <2>2, <1>6
<1>8. CASE ScrapeStart(t) \/ SourceDone(t)
  BY <1>5, <1>7, <1>8 DEF ScrapeStart, SourceDone, feedVars, knowVars
<1>9. CASE FetchFails(t) \/ InferFails(t) \/ Infer(t) \/ Refresh(t)
  BY <1>5, <1>6, <1>9 DEF FetchFails, InferFails, Infer, Refresh, feedVars, knowVars
<1>10. CASE Fetch(t)
  <2>1. PICK recs : Goto(t, [pc |-> "insert", srcs |-> loc[t].srcs, outs |-> loc[t].outs,
                             recs |-> recs])
    BY <1>10 DEF Fetch
  <2>2. loc'[t].pc = "insert"
    BY <2>1, <1>2
  <2> QED
    BY <1>5, <1>10, <2>2 DEF Fetch, feedVars
<1>11. CASE Claim(t)
  <2>1. UNCHANGED <<graph, edges>> /\ loc[t].pc = "insert"
    BY <1>11 DEF Claim, knowVars, At
  <2>2. CASE Goto(t, [loc[t] EXCEPT !.recs = Tail(@)])
    BY <1>0, <1>2, <1>5, <2>1, <2>2
  <2>3. CASE Goto(t, [pc |-> "store", srcs |-> loc[t].srcs, outs |-> loc[t].outs,
                      recs |-> Tail(loc[t].recs),
                      row |-> [seq |-> seq + 1, rec |-> Head(loc[t].recs)]])
    BY <1>2, <1>5, <2>1, <2>3
  <2> QED
    BY <1>11, <2>2, <2>3 DEF Claim
<1>12. CASE Store(t)
  <2>1. loc'[t].pc = "insert"
    BY <1>2, <1>12 DEF Store
  <2> QED
    BY <1>5, <1>12, <2>1 DEF Store, knowVars
<1>13. CASE BuilderRead(t)
  <2>1. Finish(t, <<>>) \/ Goto(t, [pc |-> "extract", new |-> ReadSince(watermark)])
    BY <1>13 DEF BuilderRead
  <2>2. CASE Goto(t, [pc |-> "extract", new |-> ReadSince(watermark)])
    BY <1>2, <1>5, <1>13, <2>2 DEF BuilderRead, knowVars
  <2> QED
    BY <1>5, <1>6, <1>13, <2>1, <2>2 DEF BuilderRead, knowVars
<1>14. CASE BuilderExtract(t)
  <2>1. PICK e, f, m : Goto(t, [pc |-> "advance", ents |-> e, edges |-> f, mark |-> m])
    BY <1>14 DEF BuilderExtract
  <2>2. loc'[t].pc = "advance"
    BY <1>2, <2>1
  <2> QED
    BY <1>5, <1>14, <2>2 DEF BuilderExtract, feedVars
<1>15. CASE BuilderAdvance(t)
  <2>1. loc'[t].pc = "entities"
    BY <1>2, <1>15 DEF BuilderAdvance
  <2> QED
    BY <1>5, <1>15, <2>1 DEF BuilderAdvance, knowVars
<1>16. CASE RollUp(t)
  <2>1. loc'[t].pc = "refresh"
    BY <1>2, <1>16 DEF RollUp
  <2> QED
    BY <1>5, <1>16, <2>1 DEF RollUp, feedVars
<1> QED
  BY <1>3, <1>4, <1>8, <1>9, <1>10, <1>11, <1>12, <1>13, <1>14, <1>15, <1>16 DEF FeedsStep

\* What every step keeps.
LEMMA LinkedStep == IInv /\ Shaped /\ NoDanglingEdges /\ Linked /\ [Next]_vars
                      => NoDanglingEdges' /\ Linked'
<1> SUFFICES ASSUME IInv, Shaped, NoDanglingEdges, Linked, [Next]_vars
             PROVE  NoDanglingEdges' /\ Linked'
  OBVIOUS
<1>1. CASE UNCHANGED vars
  BY <1>1 DEF vars, requestVars, feedVars, NoDanglingEdges, Linked, At, Handling
<1>2. ASSUME NEW t \in Threads, Step(t)
      PROVE  NoDanglingEdges' /\ Linked'
  <2>1. CASE FeedsStep(t)
    BY <2>1, LinkedFeeds
  <2>2. CASE UNCHANGED feedVars
    <3>1. UNCHANGED <<graph, edges>>
      BY <2>2 DEF feedVars
    <3>2. \/ Works(t) /\ ~Handling(t, "knowledge-builder")
          \/ Publish(t) \/ Reset(t) \/ Reply(t)
          \/ FeedsStep(t)
      BY <1>2, TrackingWorks, BillingWorks, NodesOf DEF Step, Handling, Stateless
    <3>3. CASE ~FeedsStep(t)
      <4>1. \A u \in Threads : At(u, "knowledge-builder", "edges")' =>
              At(u, "knowledge-builder", "edges") /\ loc'[u] = loc[u]
        BY <3>2, <3>3, AtElsewhere
      <4> QED
        BY <3>1, <4>1, LinkedQuiet
    <3> QED
      BY <3>3, <2>1
  <2> QED
    BY <1>2, <2>1, <2>2 DEF Step
<1> QED
  BY <1>1, <1>2 DEF Next

\* Entities are written before the edges that join them, whatever the threads do:
\* no edge of the graph has an end that is no entity of it
\* (knowledge_builder.py handle, StructuralExtractor, ReviewExtractor).
THEOREM SafeNoDanglingEdges == Spec => []NoDanglingEdges
<1>1. Init => NoDanglingEdges /\ Linked
  BY DEF Init, RequestsInit, FeedsInit, NoDanglingEdges, Linked, At, Handling
<1> QED
  BY InvInit, InvStep, ShapedInit, ShapedStep, <1>1, LinkedStep, PTL DEF Spec

-----------------------------------------------------------------------------
\* The handler at hand returns.
Returns(t) == ~Raise(t) /\ \E outs : Emits(outs) /\ Finish(t, outs)

\* What a step of t does to the deliveries still to be made: each stays, is lost to
\* a raise, or is the one whose handler returned.
LEMMA DeliveriesKept ==
  ASSUME IInv, Shaped, NEW t \in Threads, Works(t) \/ Publish(t) \/ Reset(t) \/ Reply(t)
  PROVE  /\ dropped \subseteq dropped'
         /\ \A u \in Threads : \A d \in Range(todo[u]) :
              \/ d \in Range(todo'[u])
              \/ d \in dropped'
              \/ u = t /\ d = Head(todo[t]) /\ Returns(t)
<1>0. DOMAIN todo = Threads /\ \A u \in Threads : IsSeq(todo[u])
  BY DEF IInv, Typed, Shaped, Queued
<1>1. CASE Raise(t)
  <2>1. /\ dropped' = dropped \cup Range(todo[t])
        /\ todo' = [todo EXCEPT ![t] = <<>>]
    BY <1>1 DEF Raise
  <2> QED
    BY <1>0, <2>1
<1>2. ASSUME NEW outs, Emits(outs), Finish(t, outs), todo[t] # <<>>
      PROVE  /\ dropped' = dropped
             /\ \A u \in Threads : \A d \in Range(todo[u]) :
                  d \in Range(todo'[u]) \/ (u = t /\ d = Head(todo[t]))
  <2>1. /\ Range(todo'[t]) = (UNION {Range(Deliveries(Event(t, outs, i))) : i \in DOMAIN outs})
                             \cup Range(Tail(todo[t]))
        /\ Leaves(t) /\ dropped' = dropped
    BY <1>2, Finishing DEF Shaped, Emits
  <2>2. Range(todo[t]) = {Head(todo[t])} \cup Range(Tail(todo[t]))
    BY <1>0, <1>2, HeadTail
  <2> QED
    BY <2>1, <2>2 DEF Leaves, Only
<1>3. CASE \E there : Goto(t, there)
  BY <1>3 DEF Goto
<1>4. CASE Publish(t)
  <2>1. todo[t] = <<>>
    BY <1>4 DEF Publish, Asked, IInv, Placed
  <2>2. dropped' = dropped /\ \A u \in Threads \ {t} : todo'[u] = todo[u]
    <3>1. PICK q : todo' = [todo EXCEPT ![t] = q]
      BY <1>4 DEF Publish
    <3> QED
      BY <1>0, <1>4, <3>1 DEF Publish
  <2> QED
    BY <2>1, <2>2, Short
<1>5. CASE Reset(t) \/ Reply(t)
  BY <1>5 DEF Reset, Reply
<1> QED
  BY <1>1, <1>2, <1>3, <1>4, <1>5 DEF Works, Returns

-----------------------------------------------------------------------------
\* The founder was mailed what is believed of a, or the mail was lost, or somebody is
\* about to announce it, or its announcement is on its way to founder-notifier.
Mailed(v, a) ==
  \E m \in told : /\ m.ven = v /\ m.about = a /\ m.says = belief[v][a]
                  /\ m.type = "thesis.state.updated" /\ m.via = "mail"
Lost(v, a) == \E d \in dropped : d.node = "founder-notifier" /\ d.ev.ven = v /\ d.ev.about = a
Announcing(t, v, a) ==
  At(t, "thesis-tracker", "announce") /\ Ev(t).ven = v /\ Evidence(Ev(t)).of = a
News(d, v, a) ==
  /\ d.node = "founder-notifier" /\ d.ev.type = "thesis.state.updated"
  /\ d.ev.ven = v /\ d.ev.about = a /\ d.ev.says = belief[v][a]

Backed(v, a) ==
  \/ belief[v][a] = "untested"
  \/ Mailed(v, a)
  \/ Lost(v, a)
  \/ \E t \in Threads : Announcing(t, v, a)
  \/ \E t \in Threads : \E d \in Range(todo[t]) : News(d, v, a)

Believed ==
  /\ belief = [v \in Ventures |-> [a \in Assumptions |-> belief[v][a]]]
  /\ \A v \in Ventures, a \in Assumptions : Backed(v, a)

\* A belief that a step leaves alone stays backed, but for an announcement made and
\* a mail sent in that step.
LEMMA BackedStays ==
  ASSUME IInv, Shaped, NEW t \in Threads, Works(t) \/ Publish(t) \/ Reset(t) \/ Reply(t),
         NEW v \in Ventures, NEW a \in Assumptions, Backed(v, a),
         belief'[v][a] = belief[v][a], told \subseteq told'
  PROVE  \/ Backed(v, a)'
         \/ Announcing(t, v, a) /\ ~Announcing(t, v, a)'
         \/ /\ todo[t] # <<>> /\ News(Head(todo[t]), v, a)
            /\ Returns(t)
<1>1. CASE belief[v][a] = "untested" \/ Mailed(v, a)
  BY <1>1 DEF Backed, Mailed
<1>2. /\ dropped \subseteq dropped'
      /\ \A u \in Threads : \A d \in Range(todo[u]) :
           \/ d \in Range(todo'[u])
           \/ d \in dropped'
           \/ u = t /\ d = Head(todo[t]) /\ Returns(t)
  BY DeliveriesKept
<1>3. CASE Lost(v, a)
  BY <1>2, <1>3 DEF Backed, Lost
<1>4. ASSUME NEW u \in Threads, Announcing(u, v, a), ~Announcing(u, v, a)'
      PROVE  u = t
  <2>0. DOMAIN todo = Threads /\ DOMAIN loc = Threads
    BY DEF IInv, Typed
  <2>1. todo[u] # <<>> /\ Serving(u)
    BY <1>4 DEF Announcing, At, Handling, IInv, Placed
  <2>2. CASE Works(t)
    <3>1. Only(t)
      BY <2>2, StepOnly
    <3> QED
      BY <1>4, <3>1 DEF Only, Announcing, At, Handling, Ev
  <2>3. CASE Publish(t)
    <3>1. PICK q : todo' = [todo EXCEPT ![t] = q]
      BY <2>3 DEF Publish
    <3> QED
      BY <1>4, <2>0, <2>3, <3>1 DEF Publish, Announcing, At, Handling, Ev
  <2>4. CASE Reset(t) \/ Reply(t)
    BY <1>4, <2>4 DEF Reset, Reply, Announcing, At, Handling, Ev
  <2> QED
    BY <2>2, <2>3, <2>4
<1>5. CASE \E u \in Threads : Announcing(u, v, a)
  BY <1>4, <1>5 DEF Backed
<1>6. ASSUME NEW u \in Threads, NEW d \in Range(todo[u]), News(d, v, a)
      PROVE  \/ Backed(v, a)'
             \/ /\ todo[t] # <<>> /\ News(Head(todo[t]), v, a)
                /\ Returns(t)
  <2>1. CASE d \in Range(todo'[u])
    BY <1>6, <2>1 DEF Backed, News
  <2>2. CASE d \in dropped'
    BY <1>6, <2>2 DEF Backed, News, Lost
  <2>3. CASE u = t /\ d = Head(todo[t]) /\ Returns(t)
    <3>1. todo[t] # <<>>
      BY <1>6, <2>3, Short
    <3> QED
      BY <1>6, <2>3, <3>1
  <2> QED
    BY <1>2, <2>1, <2>2, <2>3
<1> QED
  BY <1>1, <1>3, <1>5, <1>6 DEF Backed

\* Somebody who makes no announcement and sends no mail keeps every belief backed.
LEMMA BelievedQuiet ==
  ASSUME IInv, Shaped, Believed, NEW t \in Threads,
         Works(t) \/ Publish(t) \/ Reset(t) \/ Reply(t),
         belief' = belief, told \subseteq told',
         ~At(t, "thesis-tracker", "announce"),
         ~Handling(t, "founder-notifier") \/ ~Returns(t)
  PROVE  Believed'
<1>1. ASSUME NEW v \in Ventures, NEW a \in Assumptions
      PROVE  Backed(v, a)'
  <2>1. ~Announcing(t, v, a)
    BY DEF Announcing
  <2>2. todo[t] # <<>> /\ News(Head(todo[t]), v, a) => Handling(t, "founder-notifier")
    BY DEF News, Handling
  <2> QED
    BY <2>1, <2>2, BackedStays DEF Believed
<1> QED
  BY <1>1 DEF Believed

\* thesis-tracker writes: it is about to announce what it wrote.
LEMMA BelievedWrites ==
  ASSUME IInv, Shaped, Believed, NEW t \in Threads, TrackerWrites(t)
  PROVE  Believed'
<1>0. PICK ven, of : ven = Ev(t).ven /\ of = Evidence(Ev(t)).of
  OBVIOUS
<1>1. /\ At(t, "thesis-tracker", "start") /\ todo[t] # <<>>
      /\ belief' = [belief EXCEPT ![ven][of] = State(Evidence(Ev(t)).is)]
      /\ Goto(t, [pc |-> "announce"]) /\ told' = told
  BY <1>0 DEF TrackerWrites, At, Handling
<1>2. Works(t)
  BY TrackingWorks DEF TrackingStep
<1>3. loc'[t].pc = "announce" /\ todo' = todo
  BY <1>1 DEF Goto, IInv, Typed
<1>4. Announcing(t, ven, of)'
  BY <1>0, <1>1, <1>3 DEF Announcing, At, Handling, Ev
<1>5. belief' = [v \in Ventures |-> [a \in Assumptions |-> belief'[v][a]]]
  BY <1>1 DEF Believed
<1>6. ASSUME NEW v \in Ventures, NEW a \in Assumptions, v # ven \/ a # of
      PROVE  Backed(v, a)'
  <2>1. belief'[v][a] = belief[v][a]
    BY <1>1, <1>6 DEF Believed
  <2>2. ~Announcing(t, v, a)
    BY <1>1 DEF Announcing, At
  <2>3. ~(todo[t] # <<>> /\ News(Head(todo[t]), v, a))
    BY <1>1 DEF News, At, Handling
  <2> QED
    BY <1>1, <1>2, <2>1, <2>2, <2>3, BackedStays DEF Believed
<1>7. \A v \in Ventures, a \in Assumptions : Backed(v, a)'
  BY <1>4, <1>6 DEF Backed
<1> QED
  BY <1>5, <1>7 DEF Believed

\* thesis-tracker announces what it finds: the announcement is on its way.
LEMMA BelievedAnnounces ==
  ASSUME IInv, Shaped, Believed, NEW t \in Threads, TrackerAnnounces(t)
  PROVE  Believed'
<1>0. PICK ven, of : ven = Ev(t).ven /\ of = Evidence(Ev(t)).of
  OBVIOUS
<1> DEFINE out == Out("thesis.state.updated", of, belief[ven][of])
<1>1. /\ At(t, "thesis-tracker", "announce") /\ todo[t] # <<>>
      /\ belief' = belief /\ told' = told
      /\ Finish(t, <<out>>)
  BY <1>0 DEF TrackerAnnounces, Update, At, Handling, trackingVars
<1>2. Works(t)
  BY TrackingWorks DEF TrackingStep
<1>3. PICK outs : outs = <<out>> /\ Finish(t, outs)
  BY <1>1
<1>4. IsSeq(outs) /\ DOMAIN outs = {1} /\ outs[1] = out
  BY <1>3, Short
<1>5. Range(Deliveries(Event(t, outs, 1))) \subseteq Range(todo'[t])
  <2>1. Range(todo'[t]) = (UNION {Range(Deliveries(Event(t, outs, i))) : i \in DOMAIN outs})
                          \cup Range(Tail(todo[t]))
    BY <1>1, <1>3, <1>4, Finishing DEF Shaped
  <2> QED
    BY <1>4, <2>1
<1>6. PICK ev : ev = Event(t, outs, 1)
  OBVIOUS
<1>7. /\ ev.type = "thesis.state.updated" /\ ev.ven = ven /\ ev.about = of
      /\ ev.says = belief[ven][of]
  BY <1>0, <1>4, <1>6, ChildFields, OutFields DEF Event
<1>8. PICK d : d = [node |-> "founder-notifier", ev |-> ev]
  OBVIOUS
<1>9. d \in Range(todo'[t])
  <2>1. "founder-notifier" \in Range(Roster) /\ ev.type \in ReactsTo("founder-notifier")
    BY <1>7, RosterFacts DEF ReactsTo
  <2>2. d \in Range(Deliveries(ev))
    BY <1>8, <2>1, DeliveriesFacts
  <2> QED
    BY <1>5, <1>6, <2>2
<1>10. d.node = "founder-notifier" /\ d.ev = ev
  BY <1>8
<1>11. News(d, ven, of)'
  BY <1>1, <1>7, <1>10 DEF News
<1>12. ASSUME NEW v \in Ventures, NEW a \in Assumptions, v # ven \/ a # of
       PROVE  Backed(v, a)'
  <2>1. ~Announcing(t, v, a)
    BY <1>0, <1>12 DEF Announcing
  <2>2. ~(todo[t] # <<>> /\ News(Head(todo[t]), v, a))
    BY <1>1 DEF News, At, Handling
  <2> QED
    BY <1>1, <1>2, <2>1, <2>2, BackedStays DEF Believed
<1>13. \A v \in Ventures, a \in Assumptions : Backed(v, a)'
  BY <1>9, <1>11, <1>12 DEF Backed
<1> QED
  BY <1>1, <1>13 DEF Believed

\* founder-notifier mails: what was on its way has arrived.
LEMMA BelievedMails ==
  ASSUME IInv, Shaped, Believed, NEW t \in Threads, NotifierMails(t)
  PROVE  Believed'
<1>1. /\ Handling(t, "founder-notifier") /\ todo[t] # <<>>
      /\ belief' = belief
      /\ told' = told \cup {[ven |-> Ev(t).ven, type |-> Ev(t).type, about |-> Ev(t).about,
                             says |-> Ev(t).says, via |-> "mail"]}
  BY DEF NotifierMails, At, Handling, Send
<1>2. Works(t)
  BY TrackingWorks DEF TrackingStep
<1>3. ASSUME NEW v \in Ventures, NEW a \in Assumptions
      PROVE  Backed(v, a)'
  <2>1. ~Announcing(t, v, a)
    BY <1>1 DEF Announcing, At, Handling
  <2>2. CASE News(Head(todo[t]), v, a)
    <3>1. PICK m \in told' : m = [ven |-> Ev(t).ven, type |-> Ev(t).type, about |-> Ev(t).about,
                                  says |-> Ev(t).says, via |-> "mail"]
      BY <1>1
    <3>2. /\ m.ven = v /\ m.about = a /\ m.says = belief[v][a]
          /\ m.type = "thesis.state.updated" /\ m.via = "mail"
      BY <2>2, <3>1 DEF News, Ev
    <3>3. Mailed(v, a)'
      BY <1>1, <3>2 DEF Mailed
    <3> QED
      BY <3>3 DEF Backed
  <2>3. CASE ~News(Head(todo[t]), v, a)
    BY <1>1, <1>2, <2>1, <2>3, BackedStays DEF Believed
  <2> QED
    BY <2>2, <2>3
<1> QED
  BY <1>1, <1>3 DEF Believed

\* A handler that goes on or raises does not return.
LEMMA NoReturn ==
  ASSUME IInv, NEW t \in Threads, todo[t] # <<>>,
         Raise(t) \/ \E there : Goto(t, there) /\ there.pc # "start"
  PROVE  ~Returns(t)
<1>1. CASE Raise(t)
  BY <1>1 DEF Returns
<1>2. ASSUME NEW there, Goto(t, there), there.pc # "start", NEW outs, Finish(t, outs)
      PROVE  FALSE
  <2>1. loc'[t] = Start
    BY <1>2, Leaving DEF Leaves
  <2> QED
    BY <1>2, <2>1 DEF Goto, Start, IInv, Typed
<1> QED
  BY <1>1, <1>2 DEF Returns

\* Every step keeps every belief backed.
LEMMA BelievedStep == IInv /\ Shaped /\ Believed /\ [Next]_vars => Believed'
<1> SUFFICES ASSUME IInv, Shaped, Believed, [Next]_vars
             PROVE  Believed'
  OBVIOUS
<1>1. CASE UNCHANGED vars
  BY <1>1 DEF vars, requestVars, trackingVars, Believed, Backed, Mailed, Lost, Announcing,
              News, At, Handling, Ev
<1>2. ASSUME NEW t \in Threads, Step(t)
      PROVE  Believed'
  <2>1. Works(t) \/ Publish(t) \/ Reset(t) \/ Reply(t)
    BY <1>2, TrackingWorks, BillingWorks, FeedsWorks DEF Step
  <2>2. ASSUME UNCHANGED trackingVars,
               ~Handling(t, "thesis-tracker"), ~Handling(t, "founder-notifier")
        PROVE  Believed'
    BY <2>1, <2>2, BelievedQuiet DEF trackingVars, At
  <2>3. CASE (Publish(t) \/ Reset(t) \/ Reply(t)) /\ UNCHANGED trackingVars
    <3>2. ~Handling(t, "thesis-tracker") /\ ~At(t, "thesis-tracker", "announce")
          /\ (~Handling(t, "founder-notifier") \/ ~Returns(t))
      <4>1. CASE Publish(t) \/ Reply(t)
        BY <4>1 DEF Publish, Reply, Asked, Handling, At, IInv, Placed
      <4>2. CASE Reset(t)
        BY <4>2 DEF Reset, Asked, Handling, At, IInv, Placed
      <4> QED
        BY <2>3, <4>1, <4>2
    <3> QED
      BY <2>1, <2>3, <3>2, BelievedQuiet DEF trackingVars
  <2>4. CASE BillingStep(t) /\ UNCHANGED trackingVars
    BY <2>2, <2>4, NodesOf DEF Handling
  <2>5. CASE FeedsStep(t) /\ UNCHANGED trackingVars
    BY <2>2, <2>5, NodesOf DEF Handling
  <2>6. CASE React(t) \/ ReactFails(t)
    BY <2>2, <2>6 DEF React, ReactFails, Handling, Stateless
  <2>7. CASE TrackerIgnores(t)
    BY <2>1, <2>7, BelievedQuiet DEF TrackerIgnores, At, Handling, trackingVars
  <2>8. CASE NotifierPosts(t)
    <3>1. /\ Goto(t, [pc |-> "mail"]) /\ Handling(t, "founder-notifier") /\ todo[t] # <<>>
          /\ belief' = belief /\ told \subseteq told'
      BY <2>8 DEF NotifierPosts, Send, At, Handling
    <3>2. ~Returns(t) /\ ~Handling(t, "thesis-tracker")
      BY <3>1, NoReturn DEF Handling
    <3> QED
      BY <2>1, <3>1, <3>2, BelievedQuiet DEF At
  <2>9. CASE NotifierFails(t)
    BY <2>1, <2>9, NoReturn, BelievedQuiet DEF NotifierFails, At, Handling, trackingVars
  <2> QED
    BY <1>2, <2>3, <2>4, <2>5, <2>6, <2>7, <2>8, <2>9,
       BelievedWrites, BelievedAnnounces, BelievedMails DEF Step, TrackingStep
<1> QED
  BY <1>1, <1>2 DEF Next

\* At rest nobody is inside a handler and nothing is left to deliver.
LEMMA Resting ==
  ASSUME IInv, AtRest
  PROVE  \A t \in Threads : todo[t] = <<>>
BY DEF IInv, Placed, AtRest

\* What the tracker believes the founder was mailed, whoever wrote it and whoever
\* announced it, unless the mail was lost to a raise
\* (thesis_tracker.py handle, founder_notifier.py handle).
THEOREM SafeBeliefTold == Spec => []BeliefTold
<1>1. Init => Believed
  BY DEF Init, TrackingInit, Believed, Backed
<1>2. IInv /\ Believed => BeliefTold
  <2> SUFFICES ASSUME IInv, Believed, AtRest, NEW v \in Ventures, NEW a \in Assumptions
               PROVE  \/ belief[v][a] = "untested"
                      \/ Mailed(v, a)
                      \/ Lost(v, a)
    BY DEF BeliefTold, Mailed, Lost
  <2>1. \A t \in Threads : todo[t] = <<>> /\ Range(todo[t]) = {}
    BY Resting, Short
  <2>2. ~\E t \in Threads : Announcing(t, v, a)
    BY <2>1 DEF Announcing, At, Handling
  <2>3. ~\E t \in Threads : \E d \in Range(todo[t]) : News(d, v, a)
    BY <2>1
  <2>4. Backed(v, a)
    BY DEF Believed
  <2> QED
    BY <2>2, <2>3, <2>4 DEF Backed
<1> QED
  BY InvInit, InvStep, ShapedInit, ShapedStep, <1>1, BelievedStep, <1>2, PTL DEF Spec

-----------------------------------------------------------------------------
\* A step of t leaves the other threads where they are, and the threads' own steps
\* are taken between handlers.
LEMMA OthersStay ==
  ASSUME IInv, NEW t \in Threads, Works(t) \/ Publish(t) \/ Reset(t) \/ Reply(t)
  PROVE  /\ \A u \in Threads \ {t} : loc'[u] = loc[u] /\ todo'[u] = todo[u]
         /\ Publish(t) \/ Reset(t) \/ Reply(t) => todo[t] = <<>> /\ loc'[t].pc = "start"
<1>0. DOMAIN todo = Threads
  BY DEF IInv, Typed
<1>1. \A u \in Threads \ {t} : loc'[u] = loc[u] /\ todo'[u] = todo[u]
  <2>1. CASE Works(t)
    BY <2>1, StepOnly DEF Only
  <2>2. CASE Publish(t)
    <3>1. PICK q : todo' = [todo EXCEPT ![t] = q]
      BY <2>2 DEF Publish
    <3> QED
      BY <1>0, <2>2, <3>1 DEF Publish
  <2>3. CASE Reset(t) \/ Reply(t)
    BY <2>3 DEF Reset, Reply
  <2> QED
    BY <2>1, <2>2, <2>3
<1>2. Publish(t) \/ Reset(t) \/ Reply(t) => todo[t] = <<>>
  BY DEF Publish, Reset, Reply, Asked, IInv, Placed
<1>3. Publish(t) \/ Reset(t) \/ Reply(t) => loc'[t].pc = "start"
  <2>1. Publish(t) \/ Reset(t) \/ Reply(t) => loc' = loc
    BY DEF Publish, Reset, Reply
  <2>2. todo[t] = <<>> => loc[t].pc = "start"
    BY DEF IInv, Placed, Start
  <2> QED
    BY <1>2, <2>1, <2>2
<1> QED
  BY <1>1, <1>2, <1>3

-----------------------------------------------------------------------------
\* A handler of subscription-manager that has a number remembers it.
Numbers(t) ==
  \A pc \in {"create", "remember", "charge"} :
    Activating(t, pc) => "id" \in DOMAIN loc[t] /\ loc[t].id # NoId

Booked ==
  /\ active = [c \in Customers |-> active[c]]
  /\ IsSeq(subscriptions)
  /\ \A i \in DOMAIN subscriptions :
       LET s == subscriptions[i]
       IN /\ s = [id |-> s.id, customer |-> s.customer, status |-> s.status]
          /\ s.id # NoId /\ s.customer \in Customers
  /\ \A t \in Threads : Numbers(t)

\* What SubscriptionsHeld says of a record, and who is about to make it so.
Kept(i) ==
  LET s == subscriptions[i]
  IN \/ s.status = "cancelled"
     \/ active[s.customer] = s.id
     \/ s.id \in superseded
     \/ Failed(s.customer, "subscription.cancellation_requested")
     \/ SharedId(i)

Pending(t, i) ==
  /\ Activating(t, "remember") \/ Cancelling(t, "cancel")
  /\ Ev(t).about = subscriptions[i].customer /\ loc[t].id = subscriptions[i].id

Held == \A i \in DOMAIN subscriptions : Kept(i) \/ \E t \in Threads : Pending(t, i)

\* A record that a step leaves alone stays kept, and pending with any thread but t.
LEMMA KeptStays ==
  ASSUME IInv, Shaped, NEW t \in Threads, Works(t) \/ Publish(t) \/ Reset(t) \/ Reply(t),
         NEW i \in DOMAIN subscriptions, Kept(i) \/ \E u \in Threads : Pending(u, i),
         subscriptions'[i] = subscriptions[i],
         DOMAIN subscriptions \subseteq DOMAIN subscriptions',
         \A j \in DOMAIN subscriptions : subscriptions'[j].id = subscriptions[j].id,
         superseded \subseteq superseded',
         \/ active'[subscriptions[i].customer] = active[subscriptions[i].customer]
         \/ active[subscriptions[i].customer] # subscriptions[i].id
  PROVE  \/ Kept(i)' \/ \E u \in Threads : Pending(u, i)'
         \/ Pending(t, i)
<1>1. CASE Kept(i)
  <2>1. dropped \subseteq dropped'
    BY DeliveriesKept
  <2> QED
    BY <1>1, <2>1 DEF Kept, Failed, SharedId
<1>2. ASSUME NEW u \in Threads \ {t}, Pending(u, i)
      PROVE  Pending(u, i)'
  BY <1>2, OthersStay DEF Pending, Activating, Cancelling, At, Handling, Ev
<1> QED
  BY <1>1, <1>2

\* Steps of others keep every record held.
LEMMA HeldQuiet ==
  ASSUME IInv, Shaped, Booked, Held, NEW t \in Threads,
         Works(t) \/ Publish(t) \/ Reset(t) \/ Reply(t),
         UNCHANGED <<subscriptions, active, superseded>>,
         ~Activating(t, "remember"),
         ~Cancelling(t, "cancel") \/ Raise(t),
         Numbers(t)'
  PROVE  Booked' /\ Held'
<1>1. Booked'
  <2>1. \A u \in Threads \ {t} : Numbers(u)'
    BY OthersStay DEF Booked, Numbers, Activating, At, Handling, Ev
  <2> QED
    BY <2>1 DEF Booked, IsSeq
<1>2. ASSUME NEW i \in DOMAIN subscriptions
      PROVE  Kept(i)' \/ \E u \in Threads : Pending(u, i)'
  <2>1. Kept(i)' \/ (\E u \in Threads : Pending(u, i)') \/ Pending(t, i)
    BY KeptStays DEF Held
  <2>2. CASE Pending(t, i)
    <3>1. Cancelling(t, "cancel") /\ Raise(t) /\ Ev(t).about = subscriptions[i].customer
      BY <2>2 DEF Pending
    <3>2. Head(todo[t]) \in dropped' /\ Ev(t).type = "subscription.cancellation_requested"
      <4>1. todo[t] # <<>> /\ IsSeq(todo[t])
        BY <3>1 DEF Cancelling, At, Handling, Shaped, Queued
      <4>2. Head(todo[t]) \in Range(todo[t])
        BY <4>1, HeadTail
      <4> QED
        BY <3>1, <4>2 DEF Raise, Cancelling
    <3>3. Kept(i)'
      BY <3>1, <3>2 DEF Kept, Failed, Ev
    <3> QED
      BY <3>3
  <2> QED
    BY <2>1, <2>2
<1> QED
  BY <1>1, <1>2 DEF Held

\* A thread that is not inside subscription-manager has no number to remember.
LEMMA NoNumber ==
  ASSUME IInv, NEW t \in Threads,
         (Works(t) /\ ~Handling(t, "subscription-manager")) \/ Publish(t) \/ Reset(t) \/ Reply(t)
         \/ (todo[t] # <<>> /\ (Raise(t) \/ \E outs : Finish(t, outs)))
  PROVE  Numbers(t)'
<1>1. CASE Works(t) /\ ~Handling(t, "subscription-manager")
  <2>1. loc'[t].pc = "start" \/ todo'[t] = todo[t]
    BY <1>1, StepOnly
  <2> QED
    BY <1>1, <2>1 DEF Numbers, Activating, At, Handling
<1>2. CASE Publish(t) \/ Reset(t) \/ Reply(t)
  <2>1. loc'[t].pc = "start"
    BY <1>2, OthersStay
  <2> QED
    BY <2>1 DEF Numbers, Activating, At
<1>3. CASE todo[t] # <<>> /\ (Raise(t) \/ \E outs : Finish(t, outs))
  <2>1. loc'[t] = Start
    BY <1>3, Leaving DEF Leaves
  <2> QED
    BY <2>1 DEF Numbers, Activating, At, Start
<1> QED
  BY <1>1, <1>2, <1>3

\* A number is taken, and remembered.
LEMMA HeldTakeId ==
  ASSUME IInv, Shaped, Booked, Held, NEW t \in Threads, TakeId(t)
  PROVE  Booked' /\ Held'
<1>1. /\ Activating(t, "start") /\ UNCHANGED billingVars
      /\ Goto(t, [pc |-> "create", id |-> SubId(Len(subscriptions) + 1)])
  BY DEF TakeId
<1>2. PICK there : there = [pc |-> "create", id |-> SubId(Len(subscriptions) + 1)]
  OBVIOUS
<1>3. there.id # NoId /\ "id" \in DOMAIN there
  BY <1>2 DEF SubId, NoId
<1>4. loc'[t] = there
  BY <1>1, <1>2 DEF Goto, IInv, Typed
<1>5. Numbers(t)'
  BY <1>3, <1>4 DEF Numbers
<1>6. Works(t)
  BY BillingWorks DEF BillingStep
<1>7. ~Activating(t, "remember") /\ ~Cancelling(t, "cancel")
  BY <1>1 DEF Activating, Cancelling, At
<1> QED
  BY <1>1, <1>5, <1>6, <1>7, HeldQuiet DEF billingVars

\* Where a handler that changes its place only is.
LEMMA Placing ==
  ASSUME IInv, NEW t \in Threads, NEW pc, Goto(t, [loc[t] EXCEPT !.pc = pc]),
         "id" \in DOMAIN loc[t]
  PROVE  /\ loc'[t].pc = pc /\ loc'[t].id = loc[t].id /\ "id" \in DOMAIN loc'[t]
         /\ todo' = todo
BY DEF Goto, IInv, Typed

\* The record is created: its thread will remember it.
LEMMA HeldCreate ==
  ASSUME IInv, Shaped, Booked, Held, NEW t \in Threads, Create(t)
  PROVE  Booked' /\ Held'
<1>1. /\ Activating(t, "create") /\ active' = active /\ superseded' = superseded
      /\ Goto(t, [loc[t] EXCEPT !.pc = "remember"])
  BY DEF Create
<1>2. PICK s : /\ s = [id |-> loc[t].id, customer |-> Ev(t).about, status |-> "active"]
               /\ subscriptions' = Append(subscriptions, s)
  BY DEF Create
<1>3. "id" \in DOMAIN loc[t] /\ loc[t].id # NoId
  BY <1>1 DEF Booked, Numbers
<1>4. loc'[t].pc = "remember" /\ loc'[t].id = loc[t].id /\ "id" \in DOMAIN loc'[t] /\ todo' = todo
  BY <1>1, <1>3, Placing
<1>5. /\ IsSeq(subscriptions') /\ Len(subscriptions) \in Nat
      /\ DOMAIN subscriptions = 1 .. Len(subscriptions)
      /\ DOMAIN subscriptions' = 1 .. Len(subscriptions) + 1
      /\ \A i \in DOMAIN subscriptions : subscriptions'[i] = subscriptions[i]
      /\ subscriptions'[Len(subscriptions) + 1] = s
  BY <1>2, Appending DEF Booked
<1>6. \A i \in DOMAIN subscriptions' : \/ i \in DOMAIN subscriptions
                                       \/ subscriptions'[i] = s
  BY <1>5
<1>7. Ev(t).about \in Customers /\ Works(t)
  <2>1. todo[t] # <<>> /\ Ev(t).type = "subscription.requested"
    BY <1>1 DEF Activating, At, Handling
  <2> QED
    BY <2>1, AtHand, BillingWorks DEF Welcome, Billed, BillingStep
<1>8. Booked'
  <2>1. /\ s = [id |-> s.id, customer |-> s.customer, status |-> s.status]
        /\ s.id # NoId /\ s.customer \in Customers
    BY <1>2, <1>3, <1>7
  <2>2. \A u \in Threads \ {t} : Numbers(u)'
    BY <1>7, OthersStay DEF Booked, Numbers, Activating, At, Handling, Ev
  <2>3. Numbers(t)'
    BY <1>3, <1>4 DEF Numbers
  <2>4. \A i \in DOMAIN subscriptions' :
          /\ subscriptions'[i] = [id |-> subscriptions'[i].id,
                                  customer |-> subscriptions'[i].customer,
                                  status |-> subscriptions'[i].status]
          /\ subscriptions'[i].id # NoId /\ subscriptions'[i].customer \in Customers
    BY <1>5, <1>6, <2>1 DEF Booked
  <2> QED
    BY <1>1, <1>5, <2>2, <2>3, <2>4 DEF Booked
<1>9. ASSUME NEW i \in DOMAIN subscriptions
      PROVE  Kept(i)' \/ \E u \in Threads : Pending(u, i)'
  <2>1. ~Pending(t, i)
    BY <1>1 DEF Pending, Activating, Cancelling, At
  <2>2. DOMAIN subscriptions \subseteq DOMAIN subscriptions'
    BY <1>5
  <2> QED
    BY <1>1, <1>5, <1>7, <2>1, <2>2, KeptStays DEF Held
<1>10. ASSUME NEW i \in DOMAIN subscriptions', subscriptions'[i] = s
       PROVE  Pending(t, i)'
  BY <1>1, <1>2, <1>4, <1>10 DEF Pending, Activating, At, Handling, Ev
<1> QED
  BY <1>6, <1>8, <1>9, <1>10 DEF Held

\* The manager remembers the record: a former one of the customer is superseded.
LEMMA HeldRemember ==
  ASSUME IInv, Shaped, Booked, Held, NEW t \in Threads, Remember(t)
  PROVE  Booked' /\ Held'
<1>0. PICK c, id : c = Ev(t).about /\ id = loc[t].id
  OBVIOUS
<1>1. /\ Activating(t, "remember") /\ subscriptions' = subscriptions
      /\ active' = [active EXCEPT ![c] = id]
      /\ superseded' = superseded \cup ({active[c]} \ {NoId})
      /\ Goto(t, [loc[t] EXCEPT !.pc = "charge"])
  BY <1>0 DEF Remember
<1>2. "id" \in DOMAIN loc[t] /\ id # NoId
  BY <1>0, <1>1 DEF Booked, Numbers
<1>3. loc'[t].id = loc[t].id /\ "id" \in DOMAIN loc'[t]
  BY <1>1, <1>2, Placing
<1>4. Works(t)
  BY BillingWorks DEF BillingStep
<1>5. Booked'
  <2>1. \A u \in Threads \ {t} : Numbers(u)'
    BY <1>4, OthersStay DEF Booked, Numbers, Activating, At, Handling, Ev
  <2>2. Numbers(t)'
    BY <1>0, <1>2, <1>3 DEF Numbers
  <2>3. active' = [d \in Customers |-> active'[d]]
    BY <1>1 DEF Booked
  <2> QED
    BY <1>1, <2>1, <2>2, <2>3 DEF Booked, IsSeq
<1>6. ASSUME NEW i \in DOMAIN subscriptions
      PROVE  Kept(i)' \/ \E u \in Threads : Pending(u, i)'
  <2> DEFINE s == subscriptions[i]
  <2>1. s.customer \in Customers /\ s.id # NoId
    BY DEF Booked
  <2>2. CASE s.customer = c /\ active[c] = s.id
    BY <1>1, <2>1, <2>2 DEF Kept
  <2>3. CASE s.customer = c /\ s.id = id
    BY <1>1, <2>1, <2>3 DEF Kept, Booked
  <2>4. CASE ~(s.customer = c /\ active[c] = s.id) /\ ~(s.customer = c /\ s.id = id)
    <3>1. ~Pending(t, i)
      BY <1>0, <2>4 DEF Pending
    <3>2. active'[s.customer] = active[s.customer] \/ active[s.customer] # s.id
      BY <1>1, <2>1, <2>4 DEF Booked
    <3> QED
      BY <1>1, <1>4, <3>1, <3>2, KeptStays DEF Held
  <2> QED
    BY <2>2, <2>3, <2>4
<1> QED
  BY <1>1, <1>5, <1>6 DEF Held

\* The manager forgets the customer: the record it knew is about to be cancelled.
LEMMA HeldForget ==
  ASSUME IInv, Shaped, Booked, Held, NEW t \in Threads, Forget(t)
  PROVE  Booked' /\ Held'
<1>0. PICK c, id : /\ c = Ev(t).about
                   /\ id = IF active[c] # NoId THEN active[c] ELSE Ev(t).says
  OBVIOUS
<1>1. /\ Cancelling(t, "start") /\ todo[t] # <<>>
      /\ UNCHANGED <<subscriptions, superseded>>
      /\ active' = [active EXCEPT ![c] = NoId]
      /\ IF id = NoId THEN Finish(t, <<>>) ELSE Goto(t, [pc |-> "cancel", id |-> id])
  BY <1>0 DEF Forget, Cancelling, At, Handling
<1>2. Works(t)
  BY BillingWorks DEF BillingStep
<1>3. Numbers(t)'
  <2>1. CASE Finish(t, <<>>)
    BY <1>1, <2>1, NoNumber
  <2>2. CASE Goto(t, [pc |-> "cancel", id |-> id])
    <3>1. loc'[t].pc = "cancel"
      BY <2>2 DEF Goto, IInv, Typed
    <3> QED
      BY <3>1 DEF Numbers, Activating, At
  <2> QED
    BY <1>1, <2>1, <2>2
<1>4. Booked'
  <2>1. \A u \in Threads \ {t} : Numbers(u)'
    BY <1>2, OthersStay DEF Booked, Numbers, Activating, At, Handling, Ev
  <2>2. active' = [d \in Customers |-> active'[d]]
    BY <1>1 DEF Booked
  <2> QED
    BY <1>1, <1>3, <2>1, <2>2 DEF Booked, IsSeq
<1>5. ASSUME NEW i \in DOMAIN subscriptions
      PROVE  Kept(i)' \/ \E u \in Threads : Pending(u, i)'
  <2> DEFINE s == subscriptions[i]
  <2>1. s.customer \in Customers /\ s.id # NoId
    BY DEF Booked
  <2>2. CASE s.customer = c /\ active[c] = s.id
    <3>1. id = s.id /\ Goto(t, [pc |-> "cancel", id |-> id])
      BY <1>0, <1>1, <2>1, <2>2
    <3>2. loc'[t].pc = "cancel" /\ loc'[t].id = id /\ todo' = todo
      BY <3>1 DEF Goto, IInv, Typed
    <3>3. Pending(t, i)'
      BY <1>0, <1>1, <2>2, <3>1, <3>2 DEF Pending, Cancelling, At, Handling, Ev
    <3> QED
      BY <3>3
  <2>3. CASE ~(s.customer = c /\ active[c] = s.id)
    <3>1. ~Pending(t, i)
      BY <1>1 DEF Pending, Activating, Cancelling, At
    <3>2. active'[s.customer] = active[s.customer] \/ active[s.customer] # s.id
      BY <1>1, <2>1, <2>3 DEF Booked
    <3> QED
      BY <1>1, <1>2, <3>1, <3>2, KeptStays DEF Held
  <2> QED
    BY <2>2, <2>3
<1> QED
  BY <1>1, <1>4, <1>5 DEF Held

\* The least of a set of numbers is in it.
LEMMA MinIn ==
  ASSUME NEW S \in SUBSET Nat, S # {}
  PROVE  Min(S) \in S
BY Least DEF Min

\* A record with the number is cancelled: if it is another's, they share it.
LEMMA HeldCancel ==
  ASSUME IInv, Shaped, Booked, Held, NEW t \in Threads, Cancel(t)
  PROVE  Booked' /\ Held'
<1> DEFINE named == {i \in DOMAIN subscriptions : subscriptions[i].id = loc[t].id}
           m == Min(named)
<1>1. /\ Cancelling(t, "cancel") /\ todo[t] # <<>>
      /\ UNCHANGED <<payments, active, superseded>>
      /\ subscriptions' = IF named = {} THEN subscriptions
                          ELSE [subscriptions EXCEPT ![m].status = "cancelled"]
      /\ \E outs : Finish(t, outs)
  BY DEF Cancel, Cancelling, At, Handling
<1>2. Works(t)
  BY BillingWorks DEF BillingStep
<1>3. DOMAIN subscriptions = 1 .. Len(subscriptions) /\ Len(subscriptions) \in Nat
  BY SeqFacts DEF Booked
<1>4. named # {} => m \in named
  BY <1>3, MinIn
<1>5. \A i \in named : i \in DOMAIN subscriptions /\ subscriptions[i].id = loc[t].id
  OBVIOUS
<1>6. \A i \in DOMAIN subscriptions : subscriptions[i].id = loc[t].id => i \in named
  OBVIOUS
<1> HIDE DEF named, m
<1>7. /\ DOMAIN subscriptions' = DOMAIN subscriptions
      /\ \A i \in DOMAIN subscriptions :
           /\ subscriptions'[i].id = subscriptions[i].id
           /\ subscriptions'[i].customer = subscriptions[i].customer
           /\ subscriptions'[i] = [id |-> subscriptions'[i].id,
                                   customer |-> subscriptions'[i].customer,
                                   status |-> subscriptions'[i].status]
      /\ \A i \in DOMAIN subscriptions : i # m => subscriptions'[i] = subscriptions[i]
      /\ named # {} => subscriptions'[m].status = "cancelled"
  <2>1. \A i \in DOMAIN subscriptions :
          subscriptions[i] = [id |-> subscriptions[i].id, customer |-> subscriptions[i].customer,
                              status |-> subscriptions[i].status]
    BY DEF Booked
  <2>2. CASE named = {}
    BY <1>1, <2>1, <2>2
  <2>3. CASE named # {}
    <3>1. m \in DOMAIN subscriptions
      BY <1>4, <1>5, <2>3
    <3>2. subscriptions' = [subscriptions EXCEPT ![m] = [subscriptions[m] EXCEPT !.status = "cancelled"]]
      BY <1>1, <2>3
    <3>3. PICK s : s = subscriptions[m] /\ s = [id |-> s.id, customer |-> s.customer, status |-> s.status]
      BY <2>1, <3>1
    <3>4. PICK r : r = [s EXCEPT !.status = "cancelled"]
      OBVIOUS
    <3>5. /\ r.status = "cancelled" /\ r.id = s.id /\ r.customer = s.customer
          /\ r = [id |-> r.id, customer |-> r.customer, status |-> r.status]
      BY <3>3, <3>4
    <3>6. subscriptions' = [subscriptions EXCEPT ![m] = r]
      BY <3>2, <3>3, <3>4
    <3> QED
      BY <2>1, <3>1, <3>3, <3>5, <3>6
  <2> QED
    BY <2>2, <2>3
<1>8. Booked'
  <2>1. \A u \in Threads \ {t} : Numbers(u)'
    BY <1>2, OthersStay DEF Booked, Numbers, Activating, At, Handling, Ev
  <2>2. Numbers(t)'
    BY <1>1, NoNumber
  <2>3. IsSeq(subscriptions')
    <3>1. subscriptions' = [i \in 1 .. Len(subscriptions) |-> subscriptions'[i]]
      BY <1>1, <1>3, <1>7, SeqFacts DEF Booked
    <3> QED
      BY <1>3, <3>1, AsSeq
  <2> QED
    BY <1>1, <1>7, <2>1, <2>2, <2>3 DEF Booked
<1>9. ASSUME NEW i \in DOMAIN subscriptions
      PROVE  Kept(i)' \/ \E u \in Threads : Pending(u, i)'
  <2>1. CASE named # {} /\ i = m
    BY <1>7, <2>1 DEF Kept
  <2>2. CASE subscriptions[i].id = loc[t].id /\ i # m
    <3>1. m \in DOMAIN subscriptions /\ subscriptions[m].id = loc[t].id
      BY <1>4, <1>5, <1>6, <2>2
    <3>2. SharedId(i)'
      BY <1>7, <2>2, <3>1 DEF SharedId
    <3> QED
      BY <3>2 DEF Kept
  <2>3. CASE subscriptions[i].id # loc[t].id
    <3>1. ~Pending(t, i) /\ subscriptions'[i] = subscriptions[i]
      <4>1. named # {} => i # m
        BY <1>4, <1>5, <2>3
      <4>2. subscriptions'[i] = subscriptions[i]
        BY <1>1, <1>7, <4>1
      <4> QED
        BY <2>3, <4>2 DEF Pending
    <3>2. Kept(i) \/ \E u \in Threads : Pending(u, i)
      BY DEF Held
    <3> QED
      BY <1>1, <1>2, <1>7, <3>1, <3>2, KeptStays
  <2> QED
    BY <1>6, <2>1, <2>2, <2>3
<1> QED
  BY <1>7, <1>8, <1>9 DEF Held

\* Every step keeps every record held.
LEMMA HeldStep == IInv /\ Shaped /\ Booked /\ Held /\ [Next]_vars => Booked' /\ Held'
<1> SUFFICES ASSUME IInv, Shaped, Booked, Held, [Next]_vars
             PROVE  Booked' /\ Held'
  OBVIOUS
<1>1. CASE UNCHANGED vars
  BY <1>1 DEF vars, requestVars, billingVars, Booked, Held, Kept, Pending, Numbers, Failed,
              SharedId, Activating, Cancelling, At, Handling, Ev, IsSeq
<1>2. ASSUME NEW t \in Threads, Step(t)
      PROVE  Booked' /\ Held'
  <2>1. Works(t) \/ Publish(t) \/ Reset(t) \/ Reply(t)
    BY <1>2, TrackingWorks, BillingWorks, FeedsWorks DEF Step
  <2>2. ASSUME UNCHANGED billingVars,
               (Works(t) /\ ~Handling(t, "subscription-manager")) \/ Publish(t) \/ Reset(t) \/ Reply(t)
        PROVE  Booked' /\ Held'
    <3>1. Numbers(t)'
      BY <2>2, NoNumber
    <3>2. ~Handling(t, "subscription-manager")
      BY <2>2, OthersStay DEF Handling
    <3> QED
      BY <2>1, <2>2, <3>1, <3>2, HeldQuiet DEF billingVars, Activating, Cancelling, At
  <2>3. CASE Charge(t)
    <3>1. Activating(t, "charge") /\ UNCHANGED <<subscriptions, active, superseded>>
          /\ todo[t] # <<>> /\ \E outs : Finish(t, outs)
      BY <2>3 DEF Charge, Activated, Activating, At, Handling
    <3>2. Numbers(t)'
      BY <3>1, NoNumber
    <3>3. ~Activating(t, "remember") /\ ~Cancelling(t, "cancel")
      BY <3>1 DEF Activating, Cancelling, At
    <3> QED
      BY <2>1, <3>1, <3>2, <3>3, HeldQuiet
  <2>4. CASE BillingFails(t)
    <3>1. Raise(t) /\ todo[t] # <<>> /\ UNCHANGED billingVars /\ ~Activating(t, "remember")
      BY <2>4 DEF BillingFails, Activating, Cancelling, At, Handling
    <3>2. Numbers(t)'
      BY <3>1, NoNumber
    <3> QED
      BY <2>1, <3>1, <3>2, HeldQuiet DEF billingVars
  <2>5. CASE (Publish(t) \/ Reset(t) \/ Reply(t)) /\ UNCHANGED billingVars
    BY <2>2, <2>5
  <2>6. CASE TrackingStep(t) /\ UNCHANGED billingVars
    BY <2>2, <2>6, TrackingWorks, NodesOf DEF Handling, Stateless
  <2>7. CASE FeedsStep(t) /\ UNCHANGED billingVars
    BY <2>2, <2>7, FeedsWorks, NodesOf DEF Handling
  <2> QED
    BY <1>2, <2>3, <2>4, <2>5, <2>6, <2>7, HeldTakeId, HeldCreate, HeldRemember, HeldForget,
       HeldCancel DEF Step, BillingStep
<1> QED
  BY <1>1, <1>2 DEF Next

\* At first there is no record.
LEMMA HeldInit == Init => Booked /\ Held
<1> SUFFICES ASSUME Init
             PROVE  Booked /\ Held
  OBVIOUS
<1>1. subscriptions = <<>> /\ active = [c \in Customers |-> NoId] /\ todo = [t \in Threads |-> <<>>]
  BY DEF Init, RequestsInit, BillingInit
<1>2. IsSeq(subscriptions) /\ DOMAIN subscriptions = {}
  BY <1>1, Short
<1>3. \A t \in Threads : Numbers(t)
  BY <1>1 DEF Numbers, Activating, At, Handling
<1> QED
  BY <1>1, <1>2, <1>3 DEF Booked, Held

\* Whoever subscribes, leaves and pays at once, an active subscription can be
\* cancelled by naming its customer, but for the cases named
\* (subscription_manager.py _activate, _cancel).
THEOREM SafeSubscriptionsHeld == Spec => []SubscriptionsHeld
<1>1. IInv /\ Held => SubscriptionsHeld
  <2> SUFFICES ASSUME IInv, Held, AtRest, NEW i \in DOMAIN subscriptions
               PROVE  Kept(i)
    BY DEF SubscriptionsHeld, Kept
  <2>1. \A t \in Threads : ~Pending(t, i)
    BY Resting DEF Pending, Activating, Cancelling, At, Handling
  <2> QED
    BY <2>1 DEF Held
<1> QED
  BY InvInit, InvStep, ShapedInit, ShapedStep, HeldInit, HeldStep, <1>1, PTL DEF Spec

-----------------------------------------------------------------------------
\* What was lost was created, and nothing lost is still to be delivered.
LostOnce ==
  /\ IsFiniteSet(dropped)
  /\ \A d \in dropped : \E u \in Threads : \E n \in 1 .. minted[u] : d.ev.id = <<u, n>>
  /\ \A t \in Threads : Range(todo[t]) \cap dropped = {}

\* Events created now have ids that nothing lost has.
LEMMA Unlost ==
  ASSUME Queued, LostOnce, NEW t \in Threads, NEW d, NEW n \in Nat, n > minted[t],
         d.ev.id = <<t, n>>
  PROVE  d \notin dropped
<1> SUFFICES ASSUME d \in dropped
             PROVE  FALSE
  OBVIOUS
<1>1. PICK u \in Threads, m \in Nat : m \in 1 .. minted[u] /\ d.ev.id = <<u, m>>
  BY DEF LostOnce
<1>2. u = t /\ m = n
  BY <1>1
<1> QED
  BY <1>1, <1>2 DEF Queued

\* Every step keeps it so.
LEMMA LostStep == IInv /\ Shaped /\ LostOnce /\ [Next]_vars => LostOnce'
<1> SUFFICES ASSUME IInv, Shaped, LostOnce, [Next]_vars
             PROVE  LostOnce'
  OBVIOUS
<1>1. CASE UNCHANGED vars
  BY <1>1 DEF vars, requestVars, LostOnce
<1>2. ASSUME NEW t \in Threads, Step(t)
      PROVE  LostOnce'
  <2>0. /\ Queued /\ IsSeq(todo[t]) /\ minted[t] \in Nat /\ DOMAIN minted = Threads
        /\ DOMAIN todo = Threads
    BY DEF Shaped, Queued, IInv, Typed
  <2>1. Works(t) \/ Publish(t) \/ Reset(t) \/ Reply(t)
    BY <1>2, TrackingWorks, BillingWorks, FeedsWorks DEF Step
  <2>2. \A u \in Threads \ {t} : todo'[u] = todo[u]
    BY <2>1, OthersStay
  <2>3. CASE Raise(t)
    <3>1. /\ dropped' = dropped \cup Range(todo[t]) /\ minted' = minted
          /\ todo' = [todo EXCEPT ![t] = <<>>]
      BY <2>3 DEF Raise
    <3>2. IsFiniteSet(dropped')
      BY <2>0, <3>1, RangeFinite, FS_Union DEF LostOnce
    <3>3. \A d \in Range(todo[t]) : \E n \in 1 .. minted[t] : d.ev.id = <<t, n>>
      BY <2>0 DEF Queued
    <3>4. \A d \in dropped' : \E u \in Threads : \E n \in 1 .. minted'[u] : d.ev.id = <<u, n>>
      BY <3>1, <3>3 DEF LostOnce
    <3>5. ASSUME NEW u \in Threads \ {t}, NEW d \in Range(todo'[u])
          PROVE  d \notin dropped'
      <4>1. d \in Range(todo[u])
        BY <2>2
      <4>2. PICK n : d.ev.id = <<u, n>>
        BY <4>1 DEF Shaped, Queued
      <4>3. d \notin Range(todo[t])
        BY <3>3, <4>2
      <4> QED
        BY <3>1, <4>1, <4>3 DEF LostOnce
    <3>6. Range(todo'[t]) = {}
      BY <2>0, <3>1, Short
    <3> QED
      BY <3>2, <3>4, <3>5, <3>6 DEF LostOnce
  <2>4. ASSUME NEW outs, Emits(outs), Finish(t, outs), todo[t] # <<>>
        PROVE  LostOnce'
    <3>1. /\ Range(todo'[t]) = (UNION {Range(Deliveries(Event(t, outs, i))) : i \in DOMAIN outs})
                               \cup Range(Tail(todo[t]))
          /\ minted'[t] = minted[t] + Len(outs)
          /\ Len(outs) \in Nat /\ DOMAIN outs = 1 .. Len(outs)
          /\ \A u \in Threads \ {t} : minted'[u] = minted[u]
          /\ dropped' = dropped
      <4>1. dropped' = dropped
        BY <2>4 DEF Finish
      <4>2. IsSeq(outs)
        BY <2>4 DEF Emits
      <4> QED
        BY <2>0, <2>4, <4>1, <4>2, Finishing
    <3>2. ASSUME NEW i \in DOMAIN outs, NEW d \in Range(Deliveries(Event(t, outs, i)))
          PROVE  d \notin dropped'
      <4>1. d.ev.id = <<t, minted[t] + i>>
        BY <2>4, EmittedDue
      <4>2. minted[t] + i \in Nat /\ minted[t] + i > minted[t]
        BY <2>0, <3>1
      <4> QED
        BY <2>0, <3>1, <4>1, <4>2, Unlost
    <3>3. Range(Tail(todo[t])) \subseteq Range(todo[t])
      BY <2>0, <2>4, HeadTail
    <3>4. Range(todo'[t]) \cap dropped' = {}
      BY <3>1, <3>2, <3>3 DEF LostOnce
    <3>5. \A u \in Threads : \A n \in 1 .. minted[u] : n \in 1 .. minted'[u]
      BY <2>0, <3>1 DEF Queued
    <3>6. \A d \in dropped' : \E u \in Threads : \E n \in 1 .. minted'[u] : d.ev.id = <<u, n>>
      BY <3>1, <3>5 DEF LostOnce
    <3> QED
      BY <2>2, <3>1, <3>4, <3>6 DEF LostOnce
  <2>5. CASE \E there : Goto(t, there)
    BY <2>5 DEF Goto, LostOnce
  <2>6. CASE Publish(t)
    <3> DEFINE id == <<t, minted[t] + 1>>
               req == Head(inbox[t])
               ev == Child(req, [ven |-> req.ven, root |-> id], id)
    <3>1. /\ todo' = [todo EXCEPT ![t] = Deliveries(ev)]
          /\ minted' = [minted EXCEPT ![t] = minted[t] + 1] /\ dropped' = dropped
      BY <2>6 DEF Publish
    <3>2. ev.id = id
      BY ChildFields
    <3>3. \A d \in Range(Deliveries(ev)) : d.ev.id = id
      <4> HIDE DEF ev
      <4> QED
        BY <3>2, DeliveriesFacts
    <3>4. todo'[t] = Deliveries(ev)
      BY <2>0, <3>1
    <3> HIDE DEF ev
    <3>5. \A d \in Range(todo'[t]) : d \notin dropped
      BY <2>0, <3>3, <3>4, Unlost
    <3>6. \A u \in Threads : \A n \in 1 .. minted[u] : n \in 1 .. minted'[u]
      BY <2>0, <3>1 DEF Queued
    <3> QED
      BY <2>2, <3>1, <3>5, <3>6 DEF LostOnce
  <2>7. CASE Reset(t) \/ Reply(t)
    BY <2>7 DEF Reset, Reply, LostOnce
  <2> QED
    BY <2>1, <2>3, <2>4, <2>5, <2>6, <2>7 DEF Works
<1> QED
  BY <1>1, <1>2 DEF Next

-----------------------------------------------------------------------------
\* Who has created a subscription for c and has not charged for it yet.
Opened(t, c) ==
  (Activating(t, "remember") \/ Activating(t, "charge")) /\ Ev(t).about = c
Open(c)     == {t \in Threads : Opened(t, c)}
DropReq(c)  == {d \in dropped : d.ev.type = "subscription.requested" /\ d.ev.about = c}

Balanced(c) ==
  /\ IsFiniteSet(Open(c))
  /\ Cardinality(Paid(c)) + Cardinality(Open(c)) <= Cardinality(Of(c))
  /\ Cardinality(Of(c)) <=
       Cardinality(Paid(c)) + Cardinality(Open(c)) + Cardinality(DropReq(c))

Charged == IsSeq(payments) /\ \A c \in Customers : Balanced(c)

\* The sets that are counted are finite.
LEMMA Counted ==
  ASSUME Booked, IsSeq(payments), LostOnce, NEW c
  PROVE  /\ IsFiniteSet(Of(c)) /\ IsFiniteSet(Paid(c)) /\ IsFiniteSet(DropReq(c))
         /\ Cardinality(Of(c)) \in Nat /\ Cardinality(Paid(c)) \in Nat
         /\ Cardinality(DropReq(c)) \in Nat
<1>1. IsFiniteSet(DOMAIN subscriptions) /\ IsFiniteSet(DOMAIN payments)
  BY RangeFinite DEF Booked
<1>2. /\ Of(c) \subseteq DOMAIN subscriptions /\ Paid(c) \subseteq DOMAIN payments
      /\ DropReq(c) \subseteq dropped
  BY DEF Of, Paid, DropReq
<1>3. IsFiniteSet(Of(c)) /\ IsFiniteSet(Paid(c)) /\ IsFiniteSet(DropReq(c))
  BY <1>1, <1>2, FS_Subset DEF LostOnce
<1> QED
  BY <1>3, FS_CardinalityType

\* A step that opens and closes nothing keeps the balance.
LEMMA BalancedQuiet ==
  ASSUME IInv, Shaped, Booked, Charged, LostOnce, LostOnce', NEW t \in Threads,
         Works(t) \/ Publish(t) \/ Reset(t) \/ Reply(t), NEW c \in Customers,
         Of(c)' = Of(c), Paid(c)' = Paid(c), Opened(t, c)' <=> Opened(t, c)
  PROVE  Balanced(c)'
<1>1. \A u \in Threads \ {t} : Opened(u, c)' <=> Opened(u, c)
  BY OthersStay DEF Opened, Activating, At, Handling, Ev
<1>2. Open(c)' = Open(c)
  BY <1>1 DEF Open
<1>3. DropReq(c) \subseteq DropReq(c)' /\ IsFiniteSet(DropReq(c)')
  <2>1. dropped \subseteq dropped'
    BY DeliveriesKept
  <2>2. DropReq(c)' \subseteq dropped'
    BY DEF DropReq
  <2> QED
    BY <2>1, <2>2, FS_Subset DEF DropReq, LostOnce
<1>4. /\ Cardinality(DropReq(c)) <= Cardinality(DropReq(c)')
      /\ Cardinality(DropReq(c)') \in Nat
  BY <1>3, FS_Subset, FS_CardinalityType
<1>5. /\ Cardinality(Of(c)) \in Nat /\ Cardinality(Paid(c)) \in Nat
      /\ Cardinality(DropReq(c)) \in Nat /\ Cardinality(Open(c)) \in Nat
  BY Counted, FS_CardinalityType DEF Charged, Balanced
<1>6. Cardinality(DropReq(c)') = Cardinality(DropReq(c))'
  OBVIOUS
<1>7. /\ Cardinality(Paid(c)) + Cardinality(Open(c)) <= Cardinality(Of(c))
      /\ Cardinality(Of(c)) <=
           Cardinality(Paid(c)) + Cardinality(Open(c)) + Cardinality(DropReq(c)')
  BY <1>4, <1>5 DEF Charged, Balanced
<1> QED
  BY <1>2, <1>7 DEF Charged, Balanced

\* A subscription is created: it is open.
LEMMA BalancedCreate ==
  ASSUME IInv, Shaped, Booked, Charged, LostOnce, LostOnce', NEW t \in Threads, Create(t)
  PROVE  Charged'
<1>1. /\ Activating(t, "create") /\ payments' = payments
      /\ Goto(t, [loc[t] EXCEPT !.pc = "remember"])
  BY DEF Create
<1>2. PICK s : /\ s = [id |-> loc[t].id, customer |-> Ev(t).about, status |-> "active"]
               /\ subscriptions' = Append(subscriptions, s)
  BY DEF Create
<1>3. "id" \in DOMAIN loc[t]
  BY <1>1 DEF Booked, Numbers
<1>4. loc'[t].pc = "remember" /\ todo' = todo
  BY <1>1, <1>3, Placing
<1>5. Works(t)
  BY BillingWorks DEF BillingStep
<1>6. /\ Len(subscriptions) \in Nat
      /\ DOMAIN subscriptions = 1 .. Len(subscriptions)
      /\ DOMAIN subscriptions' = 1 .. Len(subscriptions) + 1
      /\ \A i \in DOMAIN subscriptions : subscriptions'[i] = subscriptions[i]
      /\ subscriptions'[Len(subscriptions) + 1] = s
  BY <1>2, Appending DEF Booked
<1>7. s.customer = Ev(t).about
  BY <1>2
<1>8. ASSUME NEW c \in Customers
      PROVE  Balanced(c)'
  <2> DEFINE n == Len(subscriptions) + 1
  <2>1. DOMAIN subscriptions' = DOMAIN subscriptions \cup {n} /\ n \notin DOMAIN subscriptions
    BY <1>6
  <2>2. Paid(c)' = Paid(c)
    BY <1>1 DEF Paid
  <2>3. CASE Ev(t).about # c
    <3>1. Of(c)' = Of(c)
      BY <1>6, <1>7, <2>1, <2>3 DEF Of
    <3>2. ~Opened(t, c) /\ ~Opened(t, c)'
      BY <1>4, <2>3 DEF Opened, Ev
    <3> QED
      BY <1>5, <2>2, <3>1, <3>2, BalancedQuiet
  <2>4. CASE Ev(t).about = c
    <3>1. Of(c)' = Of(c) \cup {n} /\ n \notin Of(c)
      BY <1>6, <1>7, <2>1, <2>4 DEF Of
    <3>2. ~Opened(t, c) /\ Opened(t, c)'
      BY <1>1, <1>4, <2>4 DEF Opened, Activating, At, Handling, Ev
    <3>3. \A u \in Threads \ {t} : Opened(u, c)' <=> Opened(u, c)
      BY <1>5, OthersStay DEF Opened, Activating, At, Handling, Ev
    <3>4. Open(c)' = Open(c) \cup {t} /\ t \notin Open(c)
      BY <3>2, <3>3 DEF Open
    <3>5. DropReq(c)' = DropReq(c)
      BY <1>1 DEF Goto, DropReq
    <3>6. /\ IsFiniteSet(Of(c)) /\ IsFiniteSet(Open(c))
          /\ Cardinality(Of(c)) \in Nat /\ Cardinality(Paid(c)) \in Nat
          /\ Cardinality(DropReq(c)) \in Nat /\ Cardinality(Open(c)) \in Nat
      BY Counted, FS_CardinalityType DEF Charged, Balanced
    <3>7. Cardinality(Of(c) \cup {n}) = Cardinality(Of(c)) + 1
      BY <3>1, <3>6, FS_AddElement
    <3>8. /\ IsFiniteSet(Open(c) \cup {t})
          /\ Cardinality(Open(c) \cup {t}) = Cardinality(Open(c)) + 1
      BY <3>4, <3>6, FS_AddElement
    <3>9. /\ Cardinality(Paid(c)) + Cardinality(Open(c)) <= Cardinality(Of(c))
          /\ Cardinality(Of(c)) <=
               Cardinality(Paid(c)) + Cardinality(Open(c)) + Cardinality(DropReq(c))
      BY DEF Charged, Balanced
    <3>10. /\ Cardinality(Paid(c)) + (Cardinality(Open(c)) + 1) <= Cardinality(Of(c)) + 1
           /\ Cardinality(Of(c)) + 1 <=
                Cardinality(Paid(c)) + (Cardinality(Open(c)) + 1) + Cardinality(DropReq(c))
      BY <3>6, <3>9
    <3> HIDE DEF n
    <3> QED
      BY <2>2, <3>1, <3>4, <3>5, <3>7, <3>8, <3>10 DEF Balanced
  <2> QED
    BY <2>3, <2>4
<1> QED
  BY <1>1, <1>8 DEF Charged

\* It is charged for: it is closed.
LEMMA BalancedCharge ==
  ASSUME IInv, Shaped, Booked, Charged, LostOnce, LostOnce', NEW t \in Threads, Charge(t)
  PROVE  Charged'
<1>0. PICK x : x = Ev(t).about
  OBVIOUS
<1>1. /\ Activating(t, "charge") /\ subscriptions' = subscriptions /\ todo[t] # <<>>
      /\ payments' = Append(payments, x)
  BY <1>0 DEF Charge, Activating, At, Handling
<1>2. PICK outs : Finish(t, outs)
  BY DEF Charge, Activated
<1>3. loc'[t] = Start /\ dropped' = dropped
  BY <1>1, <1>2, Leaving DEF Leaves, Finish
<1>4. Works(t)
  BY BillingWorks DEF BillingStep
<1>5. /\ IsSeq(payments') /\ Len(payments) \in Nat
      /\ DOMAIN payments = 1 .. Len(payments)
      /\ DOMAIN payments' = 1 .. Len(payments) + 1
      /\ \A i \in DOMAIN payments : payments'[i] = payments[i]
      /\ payments'[Len(payments) + 1] = x
  BY <1>1, Appending DEF Charged
<1>6. ASSUME NEW c \in Customers
      PROVE  Balanced(c)'
  <2> DEFINE n == Len(payments) + 1
  <2>1. DOMAIN payments' = DOMAIN payments \cup {n} /\ n \notin DOMAIN payments
    BY <1>5
  <2>2. Of(c)' = Of(c)
    BY <1>1 DEF Of
  <2>3. ~Opened(t, c)'
    BY <1>3 DEF Opened, Activating, At, Start
  <2>4. CASE x # c
    <3>1. Paid(c)' = Paid(c)
      BY <1>5, <2>1, <2>4 DEF Paid
    <3>2. ~Opened(t, c)
      BY <1>0, <2>4 DEF Opened
    <3> QED
      BY <1>4, <2>2, <2>3, <3>1, <3>2, BalancedQuiet
  <2>5. CASE x = c
    <3>1. Paid(c)' = Paid(c) \cup {n} /\ n \notin Paid(c)
      BY <1>5, <2>1, <2>5 DEF Paid
    <3>2. Opened(t, c)
      BY <1>0, <1>1, <2>5 DEF Opened
    <3>3. \A u \in Threads \ {t} : Opened(u, c)' <=> Opened(u, c)
      BY <1>4, OthersStay DEF Opened, Activating, At, Handling, Ev
    <3>4. Open(c)' = Open(c) \ {t} /\ t \in Open(c)
      BY <2>3, <3>2, <3>3 DEF Open
    <3>5. DropReq(c)' = DropReq(c)
      BY <1>3 DEF DropReq
    <3>6. /\ IsFiniteSet(Paid(c)) /\ IsFiniteSet(Open(c))
          /\ Cardinality(Of(c)) \in Nat /\ Cardinality(Paid(c)) \in Nat
          /\ Cardinality(DropReq(c)) \in Nat /\ Cardinality(Open(c)) \in Nat
      BY Counted, FS_CardinalityType DEF Charged, Balanced
    <3>7. Cardinality(Paid(c) \cup {n}) = Cardinality(Paid(c)) + 1
      BY <3>1, <3>6, FS_AddElement
    <3>8. /\ IsFiniteSet(Open(c) \ {t})
          /\ Cardinality(Open(c) \ {t}) = Cardinality(Open(c)) - 1
      BY <3>4, <3>6, FS_RemoveElement
    <3>9. /\ Cardinality(Paid(c)) + Cardinality(Open(c)) <= Cardinality(Of(c))
          /\ Cardinality(Of(c)) <=
               Cardinality(Paid(c)) + Cardinality(Open(c)) + Cardinality(DropReq(c))
      BY DEF Charged, Balanced
    <3>10. /\ (Cardinality(Paid(c)) + 1) + (Cardinality(Open(c)) - 1) <= Cardinality(Of(c))
           /\ Cardinality(Of(c)) <=
                (Cardinality(Paid(c)) + 1) + (Cardinality(Open(c)) - 1) + Cardinality(DropReq(c))
      BY <3>6, <3>9
    <3> HIDE DEF n
    <3> QED
      BY <2>2, <3>1, <3>4, <3>5, <3>7, <3>8, <3>10 DEF Balanced
  <2> QED
    BY <2>4, <2>5
<1> QED
  BY <1>5, <1>6 DEF Charged

\* The payment raises: it is closed, and the request it was for is lost.
LEMMA BalancedFails ==
  ASSUME IInv, Shaped, Booked, Charged, LostOnce, LostOnce', NEW t \in Threads, BillingFails(t)
  PROVE  Charged'
<1>1. /\ Raise(t) /\ UNCHANGED billingVars /\ todo[t] # <<>> /\ ~Activating(t, "remember")
  BY DEF BillingFails, Activating, Cancelling, At, Handling
<1>2. Works(t)
  BY BillingWorks DEF BillingStep
<1>3. loc'[t] = Start
  BY <1>1, Leaving DEF Leaves
<1>4. /\ Head(todo[t]) \in Range(todo[t]) /\ Head(todo[t]) \notin dropped
      /\ Head(todo[t]) \in dropped' /\ dropped \subseteq dropped'
  <2>1. Head(todo[t]) \in Range(todo[t])
    BY <1>1, HeadTail DEF Shaped, Queued
  <2> QED
    BY <1>1, <2>1 DEF LostOnce, Raise
<1>5. ASSUME NEW c \in Customers
      PROVE  Balanced(c)'
  <2>1. Of(c)' = Of(c) /\ Paid(c)' = Paid(c)
    BY <1>1 DEF Of, Paid, billingVars
  <2>2. ~Opened(t, c)'
    BY <1>3 DEF Opened, Activating, At, Start
  <2>3. CASE ~Opened(t, c)
    BY <1>2, <2>1, <2>2, <2>3, BalancedQuiet
  <2>4. CASE Opened(t, c)
    <3> DEFINE d == Head(todo[t])
    <3>1. d.ev.type = "subscription.requested" /\ d.ev.about = c
      BY <2>4 DEF Opened, Activating, Ev
    <3>2. DropReq(c) \cup {d} \subseteq DropReq(c)' /\ d \notin DropReq(c)
      BY <1>4, <3>1 DEF DropReq
    <3>3. IsFiniteSet(DropReq(c)')
      <4>1. DropReq(c)' \subseteq dropped' /\ IsFiniteSet(dropped')
        BY DEF DropReq, LostOnce
      <4> QED
        BY <4>1, FS_Subset
    <3>4. \A u \in Threads \ {t} : Opened(u, c)' <=> Opened(u, c)
      BY <1>2, OthersStay DEF Opened, Activating, At, Handling, Ev
    <3>5. Open(c)' = Open(c) \ {t} /\ t \in Open(c)
      BY <2>2, <2>4, <3>4 DEF Open
    <3>6. /\ IsFiniteSet(DropReq(c)) /\ IsFiniteSet(Open(c))
          /\ Cardinality(Of(c)) \in Nat /\ Cardinality(Paid(c)) \in Nat
          /\ Cardinality(DropReq(c)) \in Nat /\ Cardinality(Open(c)) \in Nat
      BY Counted, FS_CardinalityType DEF Charged, Balanced
    <3>7. Cardinality(DropReq(c)) + 1 <= Cardinality(DropReq(c)')
          /\ Cardinality(DropReq(c)') \in Nat
      <4> HIDE DEF d
      <4>1. Cardinality(DropReq(c) \cup {d}) = Cardinality(DropReq(c)) + 1
        BY <3>2, <3>6, FS_AddElement
      <4>2. Cardinality(DropReq(c) \cup {d}) <= Cardinality(DropReq(c)')
        BY <3>2, <3>3, FS_Subset
      <4> QED
        BY <3>3, <4>1, <4>2, FS_CardinalityType
    <3>8. /\ IsFiniteSet(Open(c) \ {t})
          /\ Cardinality(Open(c) \ {t}) = Cardinality(Open(c)) - 1
      BY <3>5, <3>6, FS_RemoveElement
    <3>9. /\ Cardinality(Paid(c)) + Cardinality(Open(c)) <= Cardinality(Of(c))
          /\ Cardinality(Of(c)) <=
               Cardinality(Paid(c)) + Cardinality(Open(c)) + Cardinality(DropReq(c))
      BY DEF Charged, Balanced
    <3>10. /\ Cardinality(Paid(c)) + (Cardinality(Open(c)) - 1) <= Cardinality(Of(c))
           /\ Cardinality(Of(c)) <=
                Cardinality(Paid(c)) + (Cardinality(Open(c)) - 1) + Cardinality(DropReq(c)')
      BY <3>6, <3>7, <3>9
    <3> HIDE DEF d
    <3> QED
      BY <2>1, <3>5, <3>8, <3>10 DEF Balanced
  <2> QED
    BY <2>3, <2>4
<1> QED
  BY <1>1, <1>5 DEF Charged, billingVars

\* Every step keeps the balance.
LEMMA ChargedStep == IInv /\ Shaped /\ Booked /\ LostOnce /\ LostOnce' /\ Charged /\ [Next]_vars
                       => Charged'
<1> SUFFICES ASSUME IInv, Shaped, Booked, LostOnce, LostOnce', Charged, [Next]_vars
             PROVE  Charged'
  OBVIOUS
<1>1. CASE UNCHANGED vars
  BY <1>1 DEF vars, requestVars, billingVars, Charged, Balanced, Of, Paid, Open, DropReq,
              Opened, Activating, At, Handling, Ev
<1>2. ASSUME NEW t \in Threads, Step(t)
      PROVE  Charged'
  <2>1. Works(t) \/ Publish(t) \/ Reset(t) \/ Reply(t)
    BY <1>2, TrackingWorks, BillingWorks, FeedsWorks DEF Step
  <2>2. ASSUME payments' = payments,
               \A c \in Customers : Of(c)' = Of(c) /\ (Opened(t, c)' <=> Opened(t, c))
        PROVE  Charged'
    <3>1. \A c \in Customers : Paid(c)' = Paid(c)
      BY <2>2 DEF Paid
    <3> QED
      BY <2>1, <2>2, <3>1, BalancedQuiet DEF Charged
  <2>3. ASSUME UNCHANGED billingVars, ~Handling(t, "subscription-manager")
        PROVE  Charged'
    <3>1. loc'[t].pc = "start" \/ todo'[t] = todo[t]
      BY <2>1, StepOnly, OthersStay
    <3>2. \A c : ~Opened(t, c) /\ ~Opened(t, c)'
      BY <2>3, <3>1 DEF Opened, Activating, At, Handling
    <3> QED
      BY <2>2, <2>3, <3>2 DEF Of, billingVars
  <2>4. CASE (Publish(t) \/ Reset(t) \/ Reply(t)) /\ UNCHANGED billingVars
    BY <2>3, <2>4, OthersStay DEF Handling
  <2>5. CASE TrackingStep(t) /\ UNCHANGED billingVars
    BY <2>3, <2>5, NodesOf DEF Handling, Stateless
  <2>6. CASE FeedsStep(t) /\ UNCHANGED billingVars
    BY <2>3, <2>6, NodesOf DEF Handling
  <2>7. CASE TakeId(t)
    <3>1. Activating(t, "start") /\ UNCHANGED billingVars
          /\ Goto(t, [pc |-> "create", id |-> SubId(Len(subscriptions) + 1)])
      BY <2>7 DEF TakeId
    <3>2. loc'[t].pc = "create"
      BY <3>1 DEF Goto, IInv, Typed
    <3>3. \A c : ~Opened(t, c) /\ ~Opened(t, c)'
      BY <3>1, <3>2 DEF Opened, Activating, At
    <3> QED
      BY <2>2, <3>1, <3>3 DEF Of, billingVars
  <2>8. CASE Remember(t)
    <3>1. Activating(t, "remember") /\ UNCHANGED <<subscriptions, payments>>
          /\ Goto(t, [loc[t] EXCEPT !.pc = "charge"]) /\ "id" \in DOMAIN loc[t]
      BY <2>8 DEF Remember, Booked, Numbers
    <3>2. loc'[t].pc = "charge" /\ todo' = todo
      BY <3>1, Placing
    <3>3. \A c : Opened(t, c)' <=> Opened(t, c)
      BY <3>1, <3>2 DEF Opened, Activating, At, Handling, Ev
    <3> QED
      BY <2>2, <3>1, <3>3 DEF Of
  <2>9. ASSUME Cancelling(t, "start") \/ Cancelling(t, "cancel"), payments' = payments,
               \A c \in Customers : Of(c)' = Of(c),
               (todo[t] # <<>> /\ \E outs : Finish(t, outs))
               \/ \E id : Goto(t, [pc |-> "cancel", id |-> id])
        PROVE  Charged'
    <3>1. loc'[t].pc \in {"start", "cancel"}
      <4>1. CASE todo[t] # <<>> /\ \E outs : Finish(t, outs)
        <5>1. Leaves(t)
          BY <4>1, Leaving
        <5> QED
          BY <5>1 DEF Leaves, Start
      <4>2. ASSUME NEW id, Goto(t, [pc |-> "cancel", id |-> id])
            PROVE  loc'[t].pc = "cancel"
        BY <4>2 DEF Goto, IInv, Typed
      <4> QED
        BY <2>9, <4>1, <4>2
    <3>2. \A c : ~Opened(t, c) /\ ~Opened(t, c)'
      BY <2>9, <3>1 DEF Opened, Activating, Cancelling, At
    <3> QED
      BY <2>2, <2>9, <3>2
  <2>10. CASE Forget(t)
    <3>1. /\ Cancelling(t, "start") /\ UNCHANGED <<subscriptions, payments>>
          /\ (todo[t] # <<>> /\ \E outs : Finish(t, outs))
             \/ \E id : Goto(t, [pc |-> "cancel", id |-> id])
      BY <2>10 DEF Forget, Cancelling, At, Handling
    <3> QED
      BY <2>9, <3>1 DEF Of
  <2>11. CASE Cancel(t)
    <3> DEFINE named == {i \in DOMAIN subscriptions : subscriptions[i].id = loc[t].id}
               m == Min(named)
    <3>1. /\ Cancelling(t, "cancel") /\ payments' = payments
          /\ todo[t] # <<>> /\ \E outs : Finish(t, outs)
          /\ subscriptions' = IF named = {} THEN subscriptions
                              ELSE [subscriptions EXCEPT ![m].status = "cancelled"]
      BY <2>11 DEF Cancel, Cancelling, At, Handling
    <3> HIDE DEF named, m
    <3>2. /\ DOMAIN subscriptions' = DOMAIN subscriptions
          /\ \A i \in DOMAIN subscriptions :
               subscriptions'[i].customer = subscriptions[i].customer
      <4>1. CASE named = {}
        BY <3>1, <4>1
      <4>2. CASE named # {}
        <5>1. \A i \in DOMAIN subscriptions :
                [subscriptions[i] EXCEPT !.status = "cancelled"].customer = subscriptions[i].customer
          BY DEF Booked
        <5>2. subscriptions' = [subscriptions EXCEPT ![m] =
                                  [subscriptions[m] EXCEPT !.status = "cancelled"]]
          BY <3>1, <4>2
        <5> QED
          BY <5>1, <5>2
      <4> QED
        BY <4>1, <4>2
    <3>3. \A c \in Customers : Of(c)' = Of(c)
      BY <3>2 DEF Of
    <3> QED
      BY <2>9, <3>1, <3>3
  <2> QED
    BY <1>2, <2>4, <2>5, <2>6, <2>7, <2>8, <2>10, <2>11, BalancedCreate, BalancedCharge,
       BalancedFails DEF Step, BillingStep
<1> QED
  BY <1>1, <1>2 DEF Next

\* At first nothing is lost, created or paid for.
LEMMA ChargedInit == Init => LostOnce /\ Charged
<1> SUFFICES ASSUME Init
             PROVE  LostOnce /\ Charged
  OBVIOUS
<1>1. subscriptions = <<>> /\ payments = <<>> /\ todo = [t \in Threads |-> <<>>] /\ dropped = {}
  BY DEF Init, RequestsInit, BillingInit
<1>2. LostOnce
  BY <1>1, FS_EmptySet DEF LostOnce
<1>3. ASSUME NEW c \in Customers
      PROVE  Balanced(c)
  <2>1. Of(c) = {} /\ Paid(c) = {} /\ DropReq(c) = {}
    BY <1>1 DEF Of, Paid, DropReq
  <2>2. Open(c) = {}
    BY <1>1 DEF Open, Opened, Activating, At, Handling
  <2> QED
    BY <2>1, <2>2, FS_EmptySet DEF Balanced
<1> QED
  BY <1>1, <1>2, <1>3, Short DEF Charged

\* A customer is charged once for each subscription created, but for those whose
\* payment raised (subscription_manager.py _activate).
THEOREM SafeChargedOnce == Spec => []ChargedOnce
<1>1. IInv /\ Booked /\ LostOnce /\ Charged => ChargedOnce
  <2> SUFFICES ASSUME IInv, Booked, LostOnce, Charged, AtRest, NEW c \in Customers
               PROVE  /\ Cardinality(Paid(c)) <= Cardinality(Of(c))
                      /\ Cardinality(Of(c)) - Cardinality(Paid(c)) <= Cardinality(DropReq(c))
    BY DEF ChargedOnce, DropReq
  <2>1. Open(c) = {}
    BY Resting DEF Open, Opened, Activating, At, Handling
  <2>2. /\ Cardinality(Of(c)) \in Nat /\ Cardinality(Paid(c)) \in Nat
        /\ Cardinality(DropReq(c)) \in Nat
    BY Counted DEF Charged
  <2>3. Cardinality(Open(c)) = 0
    BY <2>1, FS_EmptySet
  <2> QED
    BY <2>2, <2>3 DEF Charged, Balanced
<1> QED
  BY InvInit, InvStep, ShapedInit, ShapedStep, HeldInit, HeldStep, ChargedInit, LostStep,
     ChargedStep, <1>1, PTL DEF Spec

-----------------------------------------------------------------------------
\* A set of numbers with a bound has a greatest.
LEMMA MaxIn ==
  ASSUME NEW n \in Nat, NEW S \in SUBSET (1 .. n), S # {}
  PROVE  Max(S) \in S
<1> DEFINE T == {n - x : x \in S}
<1>0. \A x \in S : x \in 1 .. n /\ n - x \in Nat
  OBVIOUS
<1>1. T \in SUBSET Nat /\ T # {}
  BY <1>0
<1>2. PICK m \in T : \A k \in T : m <= k
  <2> HIDE DEF T
  <2> QED
    BY <1>1, Least
<1>3. PICK x \in S : m = n - x
  OBVIOUS
<1>4. \A y \in S : x >= y
  <2> SUFFICES ASSUME NEW y \in S
               PROVE  x >= y
    OBVIOUS
  <2>1. m <= n - y
    BY <1>2
  <2>2. x \in 1 .. n /\ y \in 1 .. n
    BY <1>0
  <2> QED
    BY <1>3, <2>1, <2>2
<1> QED
  BY <1>4 DEF Max

\* What the rows of a run with the outside event root say: each was triggered by the
\* event or by what an earlier row emitted, and nothing is emitted twice.
Chained(did, root) ==
  /\ \A i \in DOMAIN did : \/ did[i].trig = root
                           \/ \E j \in DOMAIN did : j < i /\ did[i].trig \in Range(did[j].out)
  /\ \A i \in DOMAIN did : root \notin Range(did[i].out)
  /\ \A i, j \in DOMAIN did : i <= j => did[i].trig \notin Range(did[j].out)
  /\ \A i, j \in DOMAIN did : i # j => Range(did[i].out) \cap Range(did[j].out) = {}

\* The last rows of did, from the k-th.
From(steps, did, k) ==
  /\ IsSeq(steps) /\ Len(steps) = Len(did) + 1 - k
  /\ \A i \in DOMAIN steps : steps[i] = did[i + k - 1]

\* What ReplyTrue says of a reply.
TrueReply(r) ==
  LET shown == [i \in DOMAIN r.chain |-> r.chain[i].row]
  IN r.how = "chain" =>
       /\ \E k \in 1 .. Len(r.did) + 1 :
            /\ k = 1 \/ r.cut
            /\ shown = SubSeq(r.did, k, Len(r.did))
       /\ \A i \in DOMAIN r.chain :
            LET s == r.chain[i]
            IN /\ ~s.start => (s.parent < i /\ s.row.trig \in Range(shown[s.parent].out))
               /\ ~r.cut => (s.start <=> s.row.trig = r.root)
               /\ (s.end <=> ~\E j \in DOMAIN shown : shown[j].trig \in Range(s.row.out))

\* The chain that is built from the last rows of a run is a true reply.
LEMMA ChainTrue ==
  ASSUME NEW did, IsSeq(did), NEW root, Chained(did, root),
         NEW k \in 1 .. Len(did) + 1, NEW cut, k = 1 \/ cut,
         NEW steps, From(steps, did, k),
         NEW r, r.did = did, r.root = root, r.cut = cut, r.chain = BuildChain(steps)
  PROVE  TrueReply(r)
<1> DEFINE emitter(i) == {j \in DOMAIN steps : steps[i].trig \in Range(steps[j].out)}
           parent(i) == IF emitter(i) = {} THEN 0 ELSE Max(emitter(i))
           chain == r.chain
           shown == [i \in DOMAIN chain |-> chain[i].row]
<1>1. /\ DOMAIN did = 1 .. Len(did) /\ Len(did) \in Nat
      /\ DOMAIN steps = 1 .. Len(steps) /\ Len(steps) \in Nat
      /\ steps = [i \in 1 .. Len(steps) |-> steps[i]]
  BY SeqFacts DEF From
<1>2. \A i \in DOMAIN steps : i + k - 1 \in DOMAIN did /\ steps[i] = did[i + k - 1]
  BY <1>1 DEF From
<1>3. /\ DOMAIN chain = DOMAIN steps
      /\ \A i \in DOMAIN steps :
           /\ chain[i].row = steps[i] /\ chain[i].parent = parent(i)
           /\ (chain[i].start <=> parent(i) = 0)
           /\ (chain[i].end <=> \A j \in DOMAIN steps : parent(j) # i)
  <2> DEFINE step(i) == [row |-> steps[i], parent |-> parent(i), start |-> parent(i) = 0,
                         end |-> \A j \in DOMAIN steps : parent(j) # i]
  <2>1. BuildChain(steps) = [i \in DOMAIN steps |-> step(i)]
    BY DEF BuildChain
  <2>2. \A i \in DOMAIN steps :
          /\ step(i).row = steps[i] /\ step(i).parent = parent(i)
          /\ (step(i).start <=> parent(i) = 0)
          /\ (step(i).end <=> \A j \in DOMAIN steps : parent(j) # i)
    <3> HIDE DEF parent
    <3> QED
      OBVIOUS
  <2> HIDE DEF step, parent
  <2>3. DOMAIN chain = DOMAIN steps /\ \A i \in DOMAIN steps : chain[i] = step(i)
    BY <2>1
  <2> HIDE DEF chain
  <2> QED
    BY <2>2, <2>3
<1>4. shown = steps
  <2>1. DOMAIN chain = 1 .. Len(steps) /\ \A i \in DOMAIN chain : chain[i].row = steps[i]
    BY <1>1, <1>3
  <2>2. shown = [i \in 1 .. Len(steps) |-> steps[i]]
    <3> HIDE DEF chain
    <3> QED
      BY <2>1
  <2> QED
    BY <1>1, <2>2
<1>5. steps = SubSeq(did, k, Len(did))
  <2>1. did \in Seq(Range(did))
    BY DEF IsSeq
  <2>2. SubSeq(did, k, Len(did)) = [i \in 1 .. (Len(did) - k + 1) |-> did[k + i - 1]]
    BY <1>1, <2>1
  <2>3. Len(steps) = Len(did) - k + 1 /\ \A i \in 1 .. Len(steps) : steps[i] = did[k + i - 1]
    BY <1>1, <1>2 DEF From
  <2> QED
    BY <1>1, <2>2, <2>3
<1>6. ASSUME NEW i \in DOMAIN steps, NEW j \in emitter(i)
      PROVE  j < i /\ j \in DOMAIN steps
  <2>1. /\ j \in DOMAIN steps /\ steps[i].trig \in Range(steps[j].out)
        /\ i + k - 1 \in DOMAIN did /\ j + k - 1 \in DOMAIN did
        /\ steps[i] = did[i + k - 1] /\ steps[j] = did[j + k - 1]
    BY <1>2
  <2>2. ~(i + k - 1 <= j + k - 1)
    BY <2>1 DEF Chained
  <2> QED
    BY <1>1, <2>1, <2>2
<1>7. ASSUME NEW i \in DOMAIN steps, NEW j \in emitter(i), NEW l \in emitter(i)
      PROVE  j = l
  <2>1. /\ steps[i].trig \in Range(did[j + k - 1].out) /\ steps[i].trig \in Range(did[l + k - 1].out)
        /\ j + k - 1 \in DOMAIN did /\ l + k - 1 \in DOMAIN did
    BY <1>2
  <2>2. j + k - 1 = l + k - 1
    BY <2>1 DEF Chained
  <2> QED
    BY <1>1, <2>2
<1>8. ASSUME NEW i \in DOMAIN steps
      PROVE  /\ emitter(i) = {} => parent(i) = 0
             /\ emitter(i) # {} => parent(i) \in emitter(i)
  <2>1. emitter(i) \in SUBSET (1 .. Len(steps))
    BY <1>1
  <2>2. emitter(i) # {} => Max(emitter(i)) \in emitter(i)
    <3> HIDE DEF emitter
    <3> QED
      BY <1>1, <2>1, MaxIn
  <2> QED
    BY <2>2
<1>9. \A i \in DOMAIN steps : \A j \in DOMAIN steps :
        j \in emitter(i) <=> steps[i].trig \in Range(steps[j].out)
  OBVIOUS
<1> HIDE DEF emitter, parent, chain, shown
<1>10. ASSUME NEW i \in DOMAIN chain
       PROVE  /\ ~chain[i].start => /\ chain[i].parent < i
                                    /\ chain[i].row.trig \in Range(shown[chain[i].parent].out)
              /\ ~cut => (chain[i].start <=> chain[i].row.trig = root)
              /\ (chain[i].end <=> ~\E j \in DOMAIN shown : shown[j].trig \in Range(chain[i].row.out))
  <2>0. i \in DOMAIN steps /\ chain[i].row = steps[i] /\ i \in Nat /\ i # 0
    <3>1. i \in DOMAIN steps
      BY <1>3
    <3>2. i \in 1 .. Len(steps)
      BY <1>1, <3>1
    <3> QED
      BY <1>1, <1>3, <3>1, <3>2
  <2>1. ~chain[i].start => /\ chain[i].parent < i
                           /\ chain[i].row.trig \in Range(shown[chain[i].parent].out)
    <3> SUFFICES ASSUME ~chain[i].start
                 PROVE  /\ chain[i].parent < i
                        /\ chain[i].row.trig \in Range(shown[chain[i].parent].out)
      OBVIOUS
    <3>1. parent(i) # 0
      BY <1>3, <2>0
    <3>2. parent(i) \in emitter(i)
      BY <1>8, <2>0, <3>1
    <3> QED
      BY <1>3, <1>4, <1>6, <1>9, <2>0, <3>2
  <2>2. ~cut => (chain[i].start <=> chain[i].row.trig = root)
    <3> SUFFICES ASSUME ~cut
                 PROVE  chain[i].start <=> steps[i].trig = root
      BY <2>0
    <3>1. k = 1 /\ Len(steps) = Len(did)
      BY <1>1 DEF From
    <3>2. DOMAIN steps = DOMAIN did /\ \A j \in DOMAIN steps : steps[j] = did[j]
      BY <1>1, <1>2, <3>1
    <3>3. \A j \in emitter(i) : j # 0
      BY <1>1, <1>6, <2>0
    <3>4. chain[i].start <=> emitter(i) = {}
      BY <1>3, <1>8, <2>0, <3>3
    <3>5. CASE steps[i].trig = root
      <4>1. \A j \in DOMAIN steps : steps[i].trig \notin Range(steps[j].out)
        BY <3>2, <3>5 DEF Chained
      <4>2. emitter(i) = {}
        BY <1>6, <1>9, <2>0, <4>1
      <4> QED
        BY <3>4, <3>5, <4>2
    <3>6. CASE steps[i].trig # root
      <4>1. PICK j \in DOMAIN steps : steps[i].trig \in Range(steps[j].out)
        BY <2>0, <3>2, <3>6 DEF Chained
      <4>2. emitter(i) # {}
        BY <1>9, <2>0, <4>1
      <4> QED
        BY <3>4, <3>6, <4>2
    <3> QED
      BY <3>5, <3>6
  <2>3. chain[i].end <=> ~\E j \in DOMAIN shown : shown[j].trig \in Range(chain[i].row.out)
    <3>1. chain[i].end <=> \A j \in DOMAIN steps : parent(j) # i
      BY <1>3, <2>0
    <3>2. ASSUME NEW j \in DOMAIN steps
          PROVE  parent(j) = i <=> steps[j].trig \in Range(steps[i].out)
      <4>1. CASE i \in emitter(j)
        <5>1. parent(j) \in emitter(j)
          BY <1>8, <4>1
        <5> QED
          BY <1>7, <1>9, <2>0, <4>1, <5>1
      <4>2. CASE i \notin emitter(j)
        BY <1>8, <1>9, <2>0, <4>2
      <4> QED
        BY <4>1, <4>2
    <3> QED
      BY <1>4, <2>0, <3>1, <3>2
  <2> QED
    BY <2>1, <2>2, <2>3
<1>11. \E l \in 1 .. Len(r.did) + 1 : (l = 1 \/ r.cut) /\ shown = SubSeq(r.did, l, Len(r.did))
  BY <1>4, <1>5
<1> QED
  BY <1>10, <1>11 DEF TrueReply, chain, shown

-----------------------------------------------------------------------------
\* An id that t has given out.
Minted(t, x) == \E n \in 1 .. minted[t] : x = <<t, n>>

\* The run of t, as far as it got: its rows, and what is left to deliver.
Following(t) ==
  LET did  == run[t].did
      root == run[t].root
  IN Serving(t) =>
       /\ Minted(t, root)
       /\ IsSeq(did) /\ Chained(did, root)
       /\ \A i \in DOMAIN did : /\ Minted(t, did[i].trig)
                                /\ \A x \in Range(did[i].out) : Minted(t, x)
       /\ \A d \in Range(todo[t]) : \/ d.ev.id = root
                                    \/ \E j \in DOMAIN did : d.ev.id \in Range(did[j].out)

\* What the recorder has of it: all, or what came after a reset.
Recorded(t) ==
  Serving(t) =>
    \E k \in 1 .. Len(run[t].did) + 1 :
      (k = 1 \/ run[t].cut) /\ From(Rows(run[t].root), run[t].did, k)

Traced ==
  /\ \A r \in DOMAIN traces : \E u \in Threads : Minted(u, r)
  /\ \A t \in Threads : Following(t) /\ Recorded(t)

Replied == DOMAIN reply = Threads /\ \A t \in Threads : TrueReply(reply[t])

\* Ids are given out for good.
LEMMA MintedStays ==
  ASSUME Queued, NEW u \in Threads, NEW t \in Threads, NEW k \in Nat,
         minted' = [minted EXCEPT ![t] = @ + k], NEW x, Minted(u, x)
  PROVE  Minted(u, x)'
<1>1. PICK n \in 1 .. minted[u] : x = <<u, n>>
  BY DEF Minted
<1>2. minted[u] \in Nat /\ minted'[u] \in Nat /\ minted[u] <= minted'[u]
  BY DEF Queued
<1>3. n \in 1 .. minted'[u]
  BY <1>1, <1>2
<1> QED
  BY <1>1, <1>3 DEF Minted

\* A thread's ids are its own.
LEMMA MintedOwn ==
  ASSUME NEW t, NEW u, NEW x, Minted(t, x), Minted(u, x)
  PROVE  t = u
BY DEF Minted

\* What the recorder has after a row.
LEMMA Recording ==
  ASSUME NEW row, Record(row)
  PROVE  /\ DOMAIN traces' = DOMAIN traces \cup {row.root}
         /\ Rows(row.root)' = Append(Rows(row.root), row)
         /\ \A r : r # row.root => Rows(r)' = Rows(r)
<1>1. /\ DOMAIN traces' = DOMAIN traces \cup {row.root}
      /\ traces'[row.root] = Append(Rows(row.root), row)
      /\ \A r \in DOMAIN traces : r # row.root => traces'[r] = traces[r]
  BY DEF Record
<1>2. ASSUME NEW r
      PROVE  /\ r = row.root => Rows(r)' = Append(Rows(r), row)
             /\ r # row.root => Rows(r)' = Rows(r)
  BY <1>1 DEF Rows
<1> QED
  BY <1>1, <1>2

\* One row more.
LEMMA FromAppend ==
  ASSUME NEW did, IsSeq(did), NEW steps, NEW k \in 1 .. Len(did) + 1, From(steps, did, k), NEW row
  PROVE  /\ From(Append(steps, row), Append(did, row), k)
         /\ Len(Append(did, row)) = Len(did) + 1
<1>1. /\ DOMAIN did = 1 .. Len(did) /\ Len(did) \in Nat
      /\ DOMAIN steps = 1 .. Len(steps) /\ Len(steps) \in Nat
      /\ Len(steps) = Len(did) + 1 - k
  BY SeqFacts DEF From
<1>2. /\ IsSeq(Append(did, row)) /\ DOMAIN Append(did, row) = 1 .. Len(did) + 1
      /\ \A i \in DOMAIN did : Append(did, row)[i] = did[i]
      /\ Append(did, row)[Len(did) + 1] = row
  BY Appending
<1>3. /\ IsSeq(Append(steps, row)) /\ DOMAIN Append(steps, row) = 1 .. Len(steps) + 1
      /\ \A i \in DOMAIN steps : Append(steps, row)[i] = steps[i]
      /\ Append(steps, row)[Len(steps) + 1] = row
  BY Appending DEF From
<1>4. Len(Append(did, row)) = Len(did) + 1 /\ Len(Append(steps, row)) = Len(steps) + 1
  <2>1. /\ DOMAIN Append(did, row) = 1 .. Len(Append(did, row)) /\ Len(Append(did, row)) \in Nat
        /\ DOMAIN Append(steps, row) = 1 .. Len(Append(steps, row)) /\ Len(Append(steps, row)) \in Nat
    BY <1>2, <1>3, SeqFacts
  <2>2. \A a, b \in Nat : 1 .. a = 1 .. b => a = b
    <3> SUFFICES ASSUME NEW a \in Nat, NEW b \in Nat, 1 .. a = 1 .. b
                 PROVE  a = b
      OBVIOUS
    <3>1. (a >= 1 => a \in 1 .. b) /\ (b >= 1 => b \in 1 .. a)
      OBVIOUS
    <3> QED
      BY <3>1
  <2>3. Len(did) + 1 \in Nat /\ Len(steps) + 1 \in Nat
    BY <1>1
  <2> QED
    BY <1>2, <1>3, <2>1, <2>2, <2>3
<1>5. ASSUME NEW i \in DOMAIN Append(steps, row)
      PROVE  Append(steps, row)[i] = Append(did, row)[i + k - 1]
  <2>1. CASE i \in DOMAIN steps
    <3>1. i + k - 1 \in DOMAIN did
      BY <1>1, <2>1
    <3> QED
      BY <1>2, <1>3, <2>1, <3>1 DEF From
  <2>2. CASE i = Len(steps) + 1
    <3>1. i + k - 1 = Len(did) + 1
      BY <1>1, <2>2
    <3> QED
      BY <1>2, <1>3, <2>2, <3>1
  <2> QED
    BY <1>1, <1>3, <2>1, <2>2
<1> QED
  BY <1>1, <1>3, <1>4, <1>5 DEF From

\* One row more, whose trigger is the outside event or was emitted, and which emits
\* what is new.
LEMMA ChainedAppend ==
  ASSUME NEW did, IsSeq(did), NEW root, Chained(did, root), NEW row,
         row.trig = root \/ \E j \in DOMAIN did : row.trig \in Range(did[j].out),
         NEW Old, root \in Old, row.trig \in Old, Range(row.out) \cap Old = {},
         \A i \in DOMAIN did : did[i].trig \in Old /\ Range(did[i].out) \subseteq Old
  PROVE  Chained(Append(did, row), root)
<1> DEFINE all == Append(did, row)
           n == Len(did) + 1
<1>1. /\ DOMAIN did = 1 .. Len(did) /\ Len(did) \in Nat
      /\ DOMAIN all = 1 .. n
      /\ \A i \in DOMAIN did : all[i] = did[i]
      /\ all[n] = row
  BY Appending
<1>2. \A i \in DOMAIN all : (i \in DOMAIN did /\ i < n /\ all[i] = did[i]) \/ (i = n /\ all[i] = row)
  BY <1>1
<1>3. \A i \in DOMAIN did : i \in DOMAIN all /\ i < n /\ ~(n <= i) /\ i # n
  BY <1>1
<1>4. n \in DOMAIN all
  BY <1>1
<1> HIDE DEF all, n
<1>5. \A i \in DOMAIN all : \/ all[i].trig = root
                            \/ \E j \in DOMAIN all : j < i /\ all[i].trig \in Range(all[j].out)
  <2> SUFFICES ASSUME NEW i \in DOMAIN all, all[i].trig # root
               PROVE  \E j \in DOMAIN all : j < i /\ all[i].trig \in Range(all[j].out)
    OBVIOUS
  <2>1. CASE i \in DOMAIN did /\ all[i] = did[i]
    <3>1. PICK j \in DOMAIN did : j < i /\ did[i].trig \in Range(did[j].out)
      BY <2>1 DEF Chained
    <3> QED
      BY <1>1, <1>3, <2>1, <3>1
  <2>2. CASE i = n /\ all[i] = row
    <3>1. PICK j \in DOMAIN did : row.trig \in Range(did[j].out)
      BY <2>2
    <3> QED
      BY <1>1, <1>3, <2>2, <3>1
  <2> QED
    BY <1>2, <2>1, <2>2
<1>6. \A i \in DOMAIN all : root \notin Range(all[i].out)
  BY <1>2 DEF Chained
<1>7. \A i, j \in DOMAIN all : i <= j => all[i].trig \notin Range(all[j].out)
  BY <1>2, <1>3 DEF Chained
<1>8. \A i, j \in DOMAIN all : i # j => Range(all[i].out) \cap Range(all[j].out) = {}
  <2> SUFFICES ASSUME NEW i \in DOMAIN all, NEW j \in DOMAIN all, i # j,
                      NEW x \in Range(all[i].out), x \in Range(all[j].out)
               PROVE  FALSE
    OBVIOUS
  <2>1. CASE i = n
    BY <1>2, <1>3, <2>1
  <2>2. CASE j = n
    BY <1>2, <1>3, <2>2
  <2>3. CASE i # n /\ j # n
    BY <1>2, <2>3 DEF Chained
  <2> QED
    BY <2>1, <2>2, <2>3
<1> QED
  BY <1>5, <1>6, <1>7, <1>8 DEF Chained, all

\* A step that leaves the runs, the rows and the ids alone, and no delivery new.
LEMMA TracedQuiet ==
  ASSUME Traced, UNCHANGED <<run, traces, minted>>,
         \A u \in Threads : Range(todo'[u]) \subseteq Range(todo[u])
  PROVE  Traced'
<1>1. \A u, x : Minted(u, x)' <=> Minted(u, x)
  BY DEF Minted
<1>2. \A r \in DOMAIN traces' : \E u \in Threads : Minted(u, r)'
  BY <1>1 DEF Traced
<1>3. ASSUME NEW u \in Threads
      PROVE  Following(u)' /\ Recorded(u)'
  <2>1. Serving(u)' <=> Serving(u)
    BY DEF Serving
  <2>2. Following(u)'
    BY <1>1, <2>1 DEF Traced, Following
  <2>3. Recorded(u)'
    BY <2>1 DEF Traced, Recorded, Rows
  <2> QED
    BY <2>2, <2>3
<1> QED
  BY <1>2, <1>3 DEF Traced

\* What a step of t does not change of the run of another thread.
LEMMA TracedOther ==
  ASSUME Queued, Traced, NEW t \in Threads, NEW u \in Threads \ {t}, NEW k \in Nat,
         minted' = [minted EXCEPT ![t] = @ + k],
         run'[u] = run[u], todo'[u] = todo[u],
         NEW root, Minted(t, root), \A r : r # root => Rows(r)' = Rows(r)
  PROVE  Following(u)' /\ Recorded(u)'
<1>1. \A x : Minted(u, x) => Minted(u, x)'
  BY MintedStays
<1>2. Serving(u)' <=> Serving(u)
  BY DEF Serving
<1>3. Following(u)'
  BY <1>1, <1>2 DEF Traced, Following
<1>4. Recorded(u)'
  <2> SUFFICES ASSUME Serving(u)
               PROVE  \E n \in 1 .. Len(run[u].did) + 1 :
                        (n = 1 \/ run[u].cut) /\ From(Rows(run[u].root)', run[u].did, n)
    BY <1>2 DEF Recorded
  <2>1. Minted(u, run[u].root)
    BY DEF Traced, Following
  <2>2. run[u].root # root
    BY <2>1, MintedOwn
  <2>3. Rows(run[u].root)' = Rows(run[u].root)
    <3> DEFINE r == run[u].root
    <3>1. r = r'
      OBVIOUS
    <3>2. \A x : x # root => Rows(x)' = Rows(x)
      OBVIOUS
    <3> QED
      BY <2>2, <3>1, <3>2
  <2> QED
    BY <2>3 DEF Traced, Recorded
<1> QED
  BY <1>3, <1>4

\* What a thread that serves knows of its run.
LEMMA Serves ==
  ASSUME IInv, Shaped, Traced, NEW t \in Threads, todo[t] # <<>>
  PROVE  /\ Serving(t) /\ Minted(t, run[t].root)
         /\ IsSeq(run[t].did) /\ Chained(run[t].did, run[t].root)
         /\ \A i \in DOMAIN run[t].did : /\ Minted(t, run[t].did[i].trig)
                                         /\ \A x \in Range(run[t].did[i].out) : Minted(t, x)
         /\ \A d \in Range(todo[t]) :
              \/ d.ev.id = run[t].root
              \/ \E j \in DOMAIN run[t].did : d.ev.id \in Range(run[t].did[j].out)
         /\ \E k \in 1 .. Len(run[t].did) + 1 :
              (k = 1 \/ run[t].cut) /\ From(Rows(run[t].root), run[t].did, k)
         /\ Minted(t, Ev(t).id) /\ Ev(t).root = run[t].root
<1>1. Serving(t)
  BY DEF IInv, Placed
<1>2. Minted(t, Ev(t).id) /\ Ev(t).root = run[t].root
  BY AtHand DEF Minted
<1> QED
  BY <1>1, <1>2 DEF Traced, Following, Recorded

\* A handler returns: its row is one more of the run, and what it emitted is new.
LEMMA TracedFinish ==
  ASSUME IInv, Shaped, Traced, NEW t \in Threads, todo[t] # <<>>, NEW outs, Emits(outs),
         Finish(t, outs)
  PROVE  Traced'
<1>1. PICK did, root, cut, n, ids, row :
        /\ did = run[t].did /\ root = run[t].root /\ cut = run[t].cut /\ n = minted[t]
        /\ ids = [i \in DOMAIN outs |-> <<t, n + i>>] /\ row = Row(t, ids, FALSE)
  OBVIOUS
<1>2. /\ Record(row)
      /\ run' = [run EXCEPT ![t].did = Append(did, row)]
      /\ minted' = [minted EXCEPT ![t] = @ + Len(outs)]
  BY <1>1 DEF Finish, Capture
<1>3. /\ IsSeq(outs) /\ Len(outs) \in Nat /\ DOMAIN outs = 1 .. Len(outs) /\ n \in Nat
      /\ DOMAIN run = Threads /\ run[t] = [root |-> root, did |-> did, cut |-> cut]
  BY <1>1, SeqFacts DEF Emits, Shaped, Queued, IInv, Typed
<1>4. /\ Serving(t) /\ Minted(t, root) /\ IsSeq(did) /\ Chained(did, root)
      /\ \A i \in DOMAIN did : /\ Minted(t, did[i].trig)
                               /\ \A x \in Range(did[i].out) : Minted(t, x)
      /\ \A d \in Range(todo[t]) : \/ d.ev.id = root
                                   \/ \E j \in DOMAIN did : d.ev.id \in Range(did[j].out)
      /\ Minted(t, Ev(t).id) /\ Ev(t).root = root
  BY <1>1, Serves
<1>5. PICK k \in 1 .. Len(did) + 1 : (k = 1 \/ cut) /\ From(Rows(root), did, k)
  BY <1>1, Serves
<1>6. /\ row.root = root /\ row.trig = Ev(t).id
      /\ \A x : x \in Range(row.out) <=> \E i \in DOMAIN outs : x = <<t, n + i>>
  <2>1. row.root = Ev(t).root /\ row.trig = Ev(t).id /\ row.out = ids
    BY <1>1 DEF Row
  <2>2. DOMAIN ids = DOMAIN outs /\ \A i \in DOMAIN outs : ids[i] = <<t, n + i>>
    BY <1>1
  <2>3. \A x : x \in Range(row.out) <=> \E i \in DOMAIN outs : x = <<t, n + i>>
    BY <2>1, <2>2 DEF Range
  <2> QED
    BY <1>4, <2>1, <2>3
<1>7. Minted(t, row.trig) /\ \A x \in Range(row.out) : ~Minted(t, x) /\ Minted(t, x)'
  <2>1. ASSUME NEW x \in Range(row.out), Minted(t, x)
        PROVE  FALSE
    <3>1. PICK i \in DOMAIN outs : x = <<t, n + i>>
      BY <1>6
    <3>2. PICK m \in 1 .. n : x = <<t, m>>
      BY <1>1, <2>1 DEF Minted
    <3>3. i \in Nat /\ i # 0 /\ m = n + i
      BY <1>3, <3>1, <3>2
    <3> QED
      BY <1>3, <3>3
  <2>2. minted'[t] = n + Len(outs)
    BY <1>1, <1>2 DEF Shaped, Queued
  <2>3. \A i \in DOMAIN outs : n + i \in 1 .. minted'[t]
    BY <1>3, <2>2
  <2> QED
    BY <1>4, <1>6, <2>1, <2>3 DEF Minted
<1>8. Chained(Append(did, row), root)
  <2> DEFINE Old == {x \in {<<t, m>> : m \in Nat} : Minted(t, x)}
  <2>1. \A x : x \in Old <=> Minted(t, x)
    BY <1>1, <1>3 DEF Minted
  <2>2. row.trig = root \/ \E j \in DOMAIN did : row.trig \in Range(did[j].out)
    BY <1>4, <1>6, AtHand DEF Ev
  <2>3. /\ root \in Old /\ row.trig \in Old /\ Range(row.out) \cap Old = {}
        /\ \A i \in DOMAIN did : did[i].trig \in Old /\ Range(did[i].out) \subseteq Old
    BY <1>4, <1>7, <2>1
  <2> HIDE DEF Old
  <2> QED
    BY <1>4, <2>2, <2>3, ChainedAppend
<1>9. /\ run'[t].did = Append(did, row) /\ run'[t].root = root /\ run'[t].cut = cut
      /\ Serving(t)'
  BY <1>1, <1>2, <1>3, <1>4 DEF Serving
<1>10. /\ DOMAIN traces' = DOMAIN traces \cup {root}
       /\ Rows(root)' = Append(Rows(root), row)
       /\ \A r : r # root => Rows(r)' = Rows(r)
  <2>1. PICK r0 : r0 = row.root
    OBVIOUS
  <2>2. /\ DOMAIN traces' = DOMAIN traces \cup {row.root}
        /\ Rows(row.root)' = Append(Rows(row.root), row)
        /\ \A r : r # row.root => Rows(r)' = Rows(r)
    BY <1>2, Recording
  <2> QED
    BY <1>6, <2>2
<1>11. \A u \in Threads : \A x : Minted(u, x) => Minted(u, x)'
  BY <1>2, <1>3, MintedStays DEF Shaped
<1>12. \A i \in DOMAIN Append(did, row) : \/ i \in DOMAIN did /\ Append(did, row)[i] = did[i]
                                          \/ Append(did, row)[i] = row
  BY <1>4, Appending
<1>13. \A i \in DOMAIN did : i \in DOMAIN Append(did, row) /\ Append(did, row)[i] = did[i]
  BY <1>4, Appending
<1>14. \E i \in DOMAIN Append(did, row) : Append(did, row)[i] = row
  <2>1. Len(did) + 1 \in DOMAIN Append(did, row) /\ Append(did, row)[Len(did) + 1] = row
    BY <1>4, Appending
  <2> QED
    BY <2>1
<1>15. Following(t)'
  <2>1. ASSUME NEW d \in Range(todo'[t])
        PROVE  \/ d.ev.id = root
               \/ \E j \in DOMAIN Append(did, row) : d.ev.id \in Range(Append(did, row)[j].out)
    <3>1. Range(todo'[t]) = (UNION {Range(Deliveries(Event(t, outs, i))) : i \in DOMAIN outs})
                            \cup Range(Tail(todo[t]))
      BY <1>3, Finishing DEF Shaped
    <3>2. CASE d \in Range(Tail(todo[t]))
      <4>1. d \in Range(todo[t])
        BY <3>2, HeadTail DEF Shaped, Queued
      <4> QED
        BY <1>4, <1>13, <4>1
    <3>3. ASSUME NEW i \in DOMAIN outs, d \in Range(Deliveries(Event(t, outs, i)))
          PROVE  \E j \in DOMAIN Append(did, row) : d.ev.id \in Range(Append(did, row)[j].out)
      <4>1. d.ev.id = <<t, n + i>>
        BY <1>1, <3>3, EmittedDue
      <4>2. d.ev.id \in Range(row.out)
        BY <1>6, <4>1
      <4> QED
        BY <1>14, <4>2
    <3> QED
      BY <3>1, <3>2, <3>3
  <2>2. IsSeq(Append(did, row))
    BY <1>4, Appending
  <2>3. Minted(t, root)'
    BY <1>4, <1>11
  <2>4. \A i \in DOMAIN Append(did, row) :
          /\ Minted(t, Append(did, row)[i].trig)'
          /\ \A x \in Range(Append(did, row)[i].out) : Minted(t, x)'
    BY <1>4, <1>7, <1>11, <1>12
  <2> QED
    BY <1>8, <1>9, <2>1, <2>2, <2>3, <2>4 DEF Following
<1>16. Recorded(t)'
  <2>1. From(Append(Rows(root), row), Append(did, row), k) /\ Len(Append(did, row)) = Len(did) + 1
    BY <1>4, <1>5, FromAppend
  <2>2. k \in 1 .. Len(Append(did, row)) + 1
    BY <1>4, <2>1, Appending
  <2>3. From(Rows(root)', Append(did, row), k)
    BY <1>10, <2>1
  <2> QED
    BY <1>5, <1>9, <2>2, <2>3 DEF Recorded
<1>17. ASSUME NEW u \in Threads \ {t}
       PROVE  Following(u)' /\ Recorded(u)'
  <2>1. run'[u] = run[u] /\ todo'[u] = todo[u]
    BY <1>3, Leaving DEF Leaves, Only
  <2> QED
    BY <1>2, <1>3, <1>4, <1>10, <2>1, TracedOther DEF Shaped
<1>18. \A r \in DOMAIN traces' : \E u \in Threads : Minted(u, r)'
  BY <1>4, <1>10, <1>11 DEF Traced
<1> QED
  BY <1>15, <1>16, <1>17, <1>18 DEF Traced

\* A step that ends the run of t, or finds it ended.
LEMMA TracedEnds ==
  ASSUME IInv, Shaped, Traced, NEW t \in Threads, ~Serving(t)', minted' = minted,
         \A u \in Threads \ {t} : run'[u] = run[u] /\ todo'[u] = todo[u],
         NEW root, Minted(t, root), DOMAIN traces' \subseteq DOMAIN traces \cup {root},
         \A r : r # root => Rows(r)' = Rows(r)
  PROVE  Traced'
<1>1. \A u, x : Minted(u, x)' <=> Minted(u, x)
  BY DEF Minted
<1>2. \A r \in DOMAIN traces' : \E u \in Threads : Minted(u, r)'
  BY <1>1 DEF Traced
<1>3. Following(t)' /\ Recorded(t)'
  BY DEF Following, Recorded
<1>4. ASSUME NEW u \in Threads \ {t}
      PROVE  Following(u)' /\ Recorded(u)'
  <2>1. DOMAIN minted = Threads /\ minted[t] \in Nat /\ \A x \in Threads : minted[x] \in Nat
    BY DEF Shaped, Queued
  <2>2. Serving(u)' <=> Serving(u)
    BY DEF Serving
  <2>3. Following(u)'
    BY <1>1, <2>2 DEF Traced, Following
  <2>4. Recorded(u)'
    <3> SUFFICES ASSUME Serving(u)
                 PROVE  \E n \in 1 .. Len(run[u].did) + 1 :
                          (n = 1 \/ run[u].cut) /\ From(Rows(run[u].root)', run[u].did, n)
      BY <2>2 DEF Recorded
    <3>1. Minted(u, run[u].root)
      BY DEF Traced, Following
    <3>2. run[u].root # root
      BY <3>1, MintedOwn
    <3>3. PICK r : r = run[u].root
      OBVIOUS
    <3>4. Rows(r)' = Rows(r)
      BY <3>2, <3>3
    <3>5. Recorded(u)
      BY DEF Traced
    <3> QED
      BY <3>3, <3>4, <3>5 DEF Recorded
  <2> QED
    BY <2>3, <2>4
<1> QED
  BY <1>2, <1>3, <1>4 DEF Traced

\* The steps of a handler.
LEMMA TracedWorks ==
  ASSUME IInv, Shaped, Traced, NEW t \in Threads, Works(t)
  PROVE  Traced'
<1>0. todo[t] # <<>> /\ DOMAIN run = Threads /\ DOMAIN todo = Threads
  BY DEF Works, IInv, Typed
<1>1. CASE Raise(t)
  <2>1. PICK row : row = Row(t, <<>>, TRUE)
    OBVIOUS
  <2>2. Record(row) /\ run' = [run EXCEPT ![t] = Idle] /\ minted' = minted
        /\ todo' = [todo EXCEPT ![t] = <<>>]
    BY <1>1, <2>1 DEF Raise, Idling
  <2>3. row.root = run[t].root /\ Minted(t, run[t].root)
    BY <1>0, <2>1, Serves DEF Row
  <2>4. PICK root : root = row.root
    OBVIOUS
  <2>5. /\ DOMAIN traces' = DOMAIN traces \cup {root}
        /\ \A r : r # root => Rows(r)' = Rows(r)
    BY <2>2, <2>4, Recording
  <2>6. ~Serving(t)'
    BY <1>0, <2>2 DEF Serving, Idle
  <2>7. Minted(t, root)
    BY <2>3, <2>4
  <2> QED
    BY <1>0, <2>2, <2>5, <2>6, <2>7, TracedEnds
<1>2. ASSUME NEW outs, Emits(outs), Finish(t, outs)
      PROVE  Traced'
  BY <1>0, <1>2, TracedFinish
<1>3. CASE \E there : Goto(t, there)
  BY <1>3, TracedQuiet DEF Goto
<1> QED
  BY <1>1, <1>2, <1>3 DEF Works

\* A publish starts a run that has no rows.
LEMMA TracedPublish ==
  ASSUME IInv, Shaped, Traced, NEW t \in Threads, Publish(t)
  PROVE  Traced'
<1>1. PICK id, n : n = minted[t] /\ id = <<t, n + 1>>
  OBVIOUS
<1>2. PICK ev : ev = Child(Head(inbox[t]), [ven |-> Head(inbox[t]).ven, root |-> id], id)
  OBVIOUS
<1>3. /\ todo' = [todo EXCEPT ![t] = Deliveries(ev)]
      /\ run' = [run EXCEPT ![t] = [root |-> id, did |-> <<>>, cut |-> FALSE]]
      /\ minted' = [minted EXCEPT ![t] = @ + 1]
      /\ traces' = traces
  BY <1>1, <1>2 DEF Publish
<1>4. n \in Nat /\ DOMAIN run = Threads /\ DOMAIN todo = Threads /\ DOMAIN minted = Threads
  BY <1>1 DEF Shaped, Queued, IInv, Typed
<1>5. /\ run'[t] = [root |-> id, did |-> <<>>, cut |-> FALSE] /\ todo'[t] = Deliveries(ev)
      /\ minted'[t] = n + 1
      /\ \A u \in Threads \ {t} : run'[u] = run[u] /\ todo'[u] = todo[u]
  BY <1>1, <1>3, <1>4
<1>6. /\ run'[t].root = id /\ run'[t].did = <<>> /\ run'[t].cut = FALSE
  BY <1>5
<1>7. \A u \in Threads : \A x : Minted(u, x) => Minted(u, x)'
  BY <1>3, MintedStays DEF Shaped
<1>8. \A u \in Threads : ~Minted(u, id)
  BY <1>1, <1>4 DEF Minted
<1>9. \A r : Rows(r)' = Rows(r)
  BY <1>3 DEF Rows
<1>10. Rows(id) = <<>>
  BY <1>8 DEF Rows, Traced
<1>11. Following(t)'
  <2>1. Minted(t, id)'
    <3>1. n + 1 \in 1 .. minted'[t]
      BY <1>4, <1>5
    <3> QED
      BY <1>1, <3>1 DEF Minted
  <2>2. \A d \in Range(todo'[t]) : d.ev.id = id
    BY <1>2, <1>5, DeliveriesFacts, ChildFields
  <2>3. DOMAIN <<>> = {}
    OBVIOUS
  <2>4. Chained(<<>>, id)
    BY <2>3 DEF Chained
  <2> QED
    BY <1>6, <2>1, <2>2, <2>3, <2>4, Short DEF Following
<1>12. Recorded(t)'
  <2>1. Len(<<>>) = 0 /\ DOMAIN <<>> = {}
    OBVIOUS
  <2>2. From(<<>>, <<>>, 1)
    BY <2>1, Short DEF From
  <2>3. Rows(id)' = <<>>
    BY <1>9, <1>10
  <2>4. 1 \in 1 .. Len(<<>>) + 1
    BY <2>1
  <2> QED
    BY <1>6, <2>2, <2>3, <2>4 DEF Recorded
<1>13. ASSUME NEW u \in Threads \ {t}
       PROVE  Following(u)' /\ Recorded(u)'
  <2>1. run'[u] = run[u] /\ todo'[u] = todo[u] /\ (Serving(u)' <=> Serving(u))
    BY <1>5 DEF Serving
  <2>2. Following(u)'
    BY <1>7, <2>1 DEF Traced, Following
  <2>3. Recorded(u)'
    BY <1>9, <2>1 DEF Traced, Recorded
  <2> QED
    BY <2>2, <2>3
<1>14. \A r \in DOMAIN traces' : \E u \in Threads : Minted(u, r)'
  BY <1>3, <1>7 DEF Traced
<1> QED
  BY <1>11, <1>12, <1>13, <1>14 DEF Traced

\* A reset takes the rows, and marks the runs under way.
LEMMA TracedReset ==
  ASSUME IInv, Shaped, Traced, NEW t \in Threads, Reset(t)
  PROVE  Traced'
<1>1. /\ traces' = NoRows /\ minted' = minted /\ todo' = todo
      /\ run' = [u \in Threads |-> IF Serving(u) THEN [run[u] EXCEPT !.cut = TRUE] ELSE run[u]]
  BY DEF Reset
<1>2. \A u, x : Minted(u, x)' <=> Minted(u, x)
  BY <1>1 DEF Minted
<1>3. DOMAIN traces' = {} /\ \A r : Rows(r)' = <<>>
  BY <1>1 DEF NoRows, Rows
<1>4. ASSUME NEW u \in Threads
      PROVE  Following(u)' /\ Recorded(u)'
  <2>1. run[u] = [root |-> run[u].root, did |-> run[u].did, cut |-> run[u].cut]
    BY DEF IInv, Typed
  <2>2. /\ run'[u].root = run[u].root /\ run'[u].did = run[u].did
        /\ (Serving(u) => run'[u].cut = TRUE)
    BY <1>1, <2>1
  <2>3. Serving(u)' <=> Serving(u)
    BY <2>2 DEF Serving
  <2>4. Following(u)'
    BY <1>1, <1>2, <2>2, <2>3 DEF Traced, Following
  <2>5. ASSUME Serving(u)
        PROVE  \E k \in 1 .. Len(run[u].did) + 1 : From(<<>>, run[u].did, k)
    <3>1. Len(run[u].did) \in Nat
      BY <2>5, SeqFacts DEF Traced, Following
    <3>2. Len(<<>>) = 0 /\ DOMAIN <<>> = {}
      OBVIOUS
    <3>3. From(<<>>, run[u].did, Len(run[u].did) + 1)
      BY <3>1, <3>2, Short DEF From
    <3>4. Len(run[u].did) + 1 \in 1 .. Len(run[u].did) + 1
      BY <3>1
    <3> QED
      BY <3>3, <3>4
  <2>6. Recorded(u)'
    BY <1>3, <2>2, <2>3, <2>5 DEF Recorded
  <2> QED
    BY <2>4, <2>6
<1> QED
  BY <1>3, <1>4 DEF Traced

\* A reply ends a run.
LEMMA TracedReply ==
  ASSUME IInv, Shaped, Traced, NEW t \in Threads, Reply(t)
  PROVE  Traced'
<1>1. /\ run' = [run EXCEPT ![t] = Idle] /\ UNCHANGED <<todo, minted, traces>>
      /\ DOMAIN run = Threads /\ Serving(t)
  BY DEF Reply, Idling, IInv, Typed
<1>2. PICK root : root = run[t].root
  OBVIOUS
<1>3. Minted(t, root)
  BY <1>1, <1>2 DEF Traced, Following
<1>4. ~Serving(t)'
  BY <1>1 DEF Serving, Idle
<1>5. \A r : Rows(r)' = Rows(r)
  BY <1>1 DEF Rows
<1> QED
  BY <1>1, <1>3, <1>4, <1>5, TracedEnds

\* Every step keeps the runs and their rows in step.
LEMMA TracedStep == IInv /\ Shaped /\ Traced /\ [Next]_vars => Traced'
<1> SUFFICES ASSUME IInv, Shaped, Traced, [Next]_vars
             PROVE  Traced'
  OBVIOUS
<1>1. CASE UNCHANGED vars
  BY <1>1, TracedQuiet DEF vars, requestVars
<1>2. ASSUME NEW t \in Threads, Step(t)
      PROVE  Traced'
  <2>1. Works(t) \/ Publish(t) \/ Reset(t) \/ Reply(t)
    BY <1>2, TrackingWorks, BillingWorks, FeedsWorks DEF Step
  <2> QED
    BY <2>1, TracedWorks, TracedPublish, TracedReset, TracedReply
<1> QED
  BY <1>1, <1>2 DEF Next

\* And every step keeps the replies true.
LEMMA RepliedStep == IInv /\ Shaped /\ Traced /\ Replied /\ [Next]_vars => Replied'
<1> SUFFICES ASSUME IInv, Shaped, Traced, Replied, [Next]_vars
             PROVE  Replied'
  OBVIOUS
<1>1. CASE reply' = reply
  BY <1>1 DEF Replied
<1>2. ASSUME NEW t \in Threads, NEW r, TrueReply(r), reply' = [reply EXCEPT ![t] = r]
      PROVE  Replied'
  BY <1>2 DEF Replied
<1>3. ASSUME NEW t \in Threads, Reply(t)
      PROVE  Replied'
  <2>1. PICK did, root, cut, steps :
          did = run[t].did /\ root = run[t].root /\ cut = run[t].cut /\ steps = Rows(root)
    OBVIOUS
  <2>2. PICK r : r = [how |-> "chain", root |-> root, did |-> did, cut |-> cut,
                      chain |-> BuildChain(steps)]
    OBVIOUS
  <2>3. reply' = [reply EXCEPT ![t] = r] /\ Serving(t)
    BY <1>3, <2>1, <2>2 DEF Reply
  <2>4. IsSeq(did) /\ Chained(did, root)
    BY <2>1, <2>3 DEF Traced, Following
  <2>5. PICK k \in 1 .. Len(did) + 1 : (k = 1 \/ cut) /\ From(steps, did, k)
    BY <2>1, <2>3 DEF Traced, Recorded
  <2>6. r.did = did /\ r.root = root /\ r.cut = cut /\ r.chain = BuildChain(steps)
    BY <2>2
  <2>7. TrueReply(r)
    BY <2>4, <2>5, <2>6, ChainTrue
  <2> QED
    BY <1>2, <2>3, <2>7
<1>4. ASSUME NEW t \in Threads, Raise(t)
      PROVE  Replied'
  <2>1. PICK r : r = [None EXCEPT !.how = "error"]
    OBVIOUS
  <2>2. r.how = "error"
    BY <2>1 DEF None
  <2>3. TrueReply(r)
    BY <2>2 DEF TrueReply
  <2> QED
    BY <1>2, <1>4, <2>1, <2>3 DEF Raise
<1>5. ASSUME NEW t \in Threads, Step(t)
      PROVE  Replied'
  <2>1. Works(t) \/ Publish(t) \/ Reset(t) \/ Reply(t)
    BY <1>5, TrackingWorks, BillingWorks, FeedsWorks DEF Step
  <2>2. (\E outs : Finish(t, outs)) \/ (\E there : Goto(t, there)) \/ Publish(t) \/ Reset(t)
          => reply' = reply
    BY DEF Finish, Goto, Publish, Reset
  <2> QED
    BY <1>1, <1>3, <1>4, <2>1, <2>2 DEF Works
<1>6. CASE UNCHANGED vars
  BY <1>1, <1>6 DEF vars, requestVars
<1> QED
  BY <1>5, <1>6 DEF Next

\* At first nothing runs and nobody has been answered.
LEMMA TracedInit == Init => Traced /\ Replied
<1> SUFFICES ASSUME Init
             PROVE  Traced /\ Replied
  OBVIOUS
<1>1. /\ run = [t \in Threads |-> Idle] /\ traces = NoRows
      /\ reply = [t \in Threads |-> None]
  BY DEF Init, RequestsInit
<1>2. \A t \in Threads : ~Serving(t)
  BY <1>1 DEF Serving, Idle
<1>3. Traced
  BY <1>1, <1>2 DEF Traced, Following, Recorded, NoRows
<1>4. None.how = "none"
  BY DEF None
<1>5. TrueReply(None)
  BY <1>4 DEF TrueReply
<1> QED
  BY <1>1, <1>3, <1>5 DEF Replied

\* A reply shows its run as it was: the rows of the run in order, but for the first
\* ones that a reset took, each after the one that emitted its trigger, however
\* many threads there are and whatever they publish
\* (app.py publish, _chains_from, _build_chain; substrate.py record).
THEOREM SafeReplyTrue == Spec => []ReplyTrue
<1>1. Replied => ReplyTrue
  BY DEF Replied, ReplyTrue, TrueReply
<1> QED
  BY InvInit, InvStep, ShapedInit, ShapedStep, TracedInit, TracedStep, RepliedStep, <1>1,
     PTL DEF Spec

-----------------------------------------------------------------------------
\* Runs in which no two threads were inside the ingestion nodes at once and no builder
\* took the rows of one venture for another.
Calm == ~overlapped /\ ~strayed

\* A record of which the founder is to hear: a job of a company with a name.
IsLead(rec) ==
  /\ Company(rec) \notin {"", "(unknown)"}
  /\ KindOf[rec.source] \notin {"review-feed", "reviews", "ratings"}

JobId(rec)        == Id(rec, "Job", Own(rec))
Lists(ents, rec)  == \E x \in Range(ents) : x.id = JobId(rec)
Says(props, rec)  == "company" \in DOMAIN props /\ props.company = Company(rec)
Agree(ents) ==
  \A i \in DOMAIN rows : \A x \in Range(ents) :
    x.id = JobId(rows[i].rec) => Says(x.props, rows[i].rec)
InGraph(rec) == JobId(rec) \in DOMAIN graph /\ Says(graph[JobId(rec)], rec)

\* A delivery in the venture was lost to a raise.
Gone(v) == \E d \in dropped : d.ev.ven = v

\* t has scraped for the venture, and will say so when its handler returns.
Gathering(t, v) ==
  /\ Handling(t, "source-scraper")
  /\ Ev(t).ven = v
  /\ \/ loc[t].pc \in {"insert", "store"}
     \/ loc[t].pc = "fetch" /\ loc[t].outs # <<>>

\* knowledge-builder is called, or will be.
Promised(v) ==
  \/ Gone(v)
  \/ \E t \in Threads : \E d \in Range(todo[t]) : d.node = "knowledge-builder" /\ d.ev.ven = v
  \/ \E t \in Threads : Gathering(t, v)

\* What source-scraper remembers: sources and records of its event's venture, and a
\* number the watermark has not passed.
Gathers(t) ==
  /\ \A pc \in {"fetch", "insert", "store"} : At(t, "source-scraper", pc) =>
       /\ IsSeq(loc[t].srcs) /\ loc[t].srcs # <<>>
       /\ \A s \in Range(loc[t].srcs) : s \in Range(Sources) /\ OwnerOf[s] = Ev(t).ven
       /\ \A o \in Range(loc[t].outs) : o.type = "source.records.ingested"
  /\ \A pc \in {"insert", "store"} : At(t, "source-scraper", pc) =>
       /\ {"srcs", "outs", "recs"} \subseteq DOMAIN loc[t]
       /\ IsSeq(loc[t].recs) /\ \A r \in Range(loc[t].recs) : r.ven = Ev(t).ven
  /\ At(t, "source-scraper", "store") =>
       loc[t].row.rec.ven = Ev(t).ven /\ loc[t].row.seq > watermark

\* What knowledge-builder remembers: the rows past the watermark, then their jobs; once
\* the watermark has moved it is past all rows; and views that show every lead.
Builds(t) ==
  /\ At(t, "knowledge-builder", "extract") =>
       /\ loc[t].new # <<>>
       /\ Range(loc[t].new) = {rows[i] : i \in {j \in DOMAIN rows : rows[j].seq > watermark}}
       /\ \A i \in DOMAIN rows : rows[i].seq > watermark =>
            rows[i].rec.ven = Ev(t).ven /\ rows[i].seq <= Last(loc[t].new).seq
  /\ At(t, "knowledge-builder", "advance") =>
       /\ loc[t].mark \in watermark .. seq
       /\ \A i \in DOMAIN rows :
            /\ rows[i].seq <= loc[t].mark
            /\ rows[i].seq > watermark =>
                 /\ rows[i].rec.ven = Ev(t).ven
                 /\ IsLead(rows[i].rec) => Lists(loc[t].ents, rows[i].rec)
  /\ \A pc \in {"advance", "entities"} : At(t, "knowledge-builder", pc) => Agree(loc[t].ents)
  /\ \A pc \in {"entities", "edges", "rollup", "refresh"} : At(t, "knowledge-builder", pc) =>
       \A i \in DOMAIN rows : rows[i].seq <= watermark
  /\ At(t, "knowledge-builder", "refresh") =>
       \A i \in DOMAIN rows : IsLead(rows[i].rec) /\ rows[i].rec.ven = Ev(t).ven =>
         Company(rows[i].rec) \in DOMAIN loc[t].views.roles

\* t has moved the watermark for the venture and not yet refreshed its views.
Catching(t, v) ==
  /\ \E pc \in {"entities", "edges", "rollup", "refresh"} : At(t, "knowledge-builder", pc)
  /\ Ev(t).ven = v

Sane == watermark \in 0 .. seq /\ \A i \in DOMAIN rows : rows[i].rec.ven \in Ventures

\* A row past the watermark is promised to knowledge-builder, any other is in the graph
\* and in the views, or about to be.
Awaited ==
  \A i \in DOMAIN rows : rows[i].seq > watermark => Promised(rows[i].rec.ven)
Graphed ==
  \A i \in DOMAIN rows : IsLead(rows[i].rec) /\ rows[i].seq <= watermark =>
    \/ InGraph(rows[i].rec)
    \/ \E t \in Threads : /\ At(t, "knowledge-builder", "entities")
                          /\ Lists(loc[t].ents, rows[i].rec)
Viewed ==
  \A i \in DOMAIN rows : IsLead(rows[i].rec) /\ rows[i].seq <= watermark =>
    \/ Company(rows[i].rec) \in DOMAIN views[rows[i].rec.ven].roles
    \/ \E t \in Threads : Catching(t, rows[i].rec.ven)

Followed ==
  Calm => /\ Sane /\ Awaited /\ Graphed /\ Viewed
          /\ \A t \in Threads : Gathers(t) /\ Builds(t)

\* A company in the views was mailed about, or will be, or the mail was lost.
ToldOf(v, c) ==
  \E m \in told : m.type = "signal.verdict" /\ m.about = c /\ m.ven = v /\ m.via = "mail"
Telling(d, v, c) ==
  /\ d.ev.ven = v
  /\ \/ d.node = "insight-inferrer"
     \/ d.node = "founder-notifier" /\ d.ev.type = "signal.verdict" /\ d.ev.about = c
Sent ==
  \A v \in Ventures : \A c \in Leading(v) :
    \/ Gone(v)
    \/ ToldOf(v, c)
    \/ \E t \in Threads : \E d \in Range(todo[t]) : Telling(d, v, c)

-----------------------------------------------------------------------------
\* The entities a dimension adds are of its own type.
LEMMA DimensionFacts ==
  ASSUME NEW rec, NEW type, NEW name, NEW edge
  PROVE  /\ IsSeq(Dimension(rec, type, name, edge).ents)
         /\ \A x \in Range(Dimension(rec, type, name, edge).ents) : \E key : x.id = Id(rec, type, key)
<1>1. CASE name = ""
  <2>1. Dimension(rec, type, name, edge).ents = <<>>
    BY <1>1 DEF Dimension
  <2> QED
    BY <2>1, Short
<1>2. CASE name # ""
  <2>1. Dimension(rec, type, name, edge).ents = <<Entity(Id(rec, type, <<name>>), <<>>)>>
    BY <1>2 DEF Dimension
  <2>2. \A i, p : Entity(i, p).id = i
    BY DEF Entity
  <2> QED
    BY <2>1, <2>2, Short
<1> QED
  BY <1>1, <1>2

\* What an extractor says of a job: only a job board's record has one, its own, and it
\* has the record's company.
LEMMA JobFacts ==
  ASSUME NEW kind, NEW rec
  PROVE  /\ \A x \in Range(ExtractAs(kind, rec).ents) : \A r :
              x.id = JobId(r) => Own(r) = Own(rec) /\ Says(x.props, rec)
         /\ kind \notin {"review-feed", "reviews", "ratings"} =>
              \E x \in Range(ExtractAs(kind, rec).ents) : x.id = JobId(rec)
<1> DEFINE own(type, props) == Entity(Id(rec, type, Own(rec)), props)
<1>1. \A type, key, r : Id(rec, type, key) = JobId(r) => type = "Job" /\ key = Own(r)
  BY DEF JobId, Id
<1>2. \A i, p : Entity(i, p).id = i /\ Entity(i, p).props = p
  BY DEF Entity
<1>3. CASE kind \in {"review-feed", "reviews", "ratings"}
  <2>1. PICK e1, e2, p, product :
          ExtractReview(rec).ents = <<own("Review", p)>>
                \o Dimension(rec, "Company", Company(rec), e1).ents
                \o Dimension(rec, "Product", product, e2).ents
    BY DEF ExtractReview
  <2>2. PICK a, b, c : /\ a = <<own("Review", p)>>
                       /\ b = Dimension(rec, "Company", Company(rec), e1).ents
                       /\ c = Dimension(rec, "Product", product, e2).ents
    OBVIOUS
  <2>3. /\ IsSeq(a) /\ IsSeq(b) /\ IsSeq(c)
        /\ Range(a) = {own("Review", p)}
        /\ \A x \in Range(b) : \E key : x.id = Id(rec, "Company", key)
        /\ \A x \in Range(c) : \E key : x.id = Id(rec, "Product", key)
    <3>1. IsSeq(a) /\ Range(a) = {own("Review", p)}
      BY <2>2, Short
    <3>2. IsSeq(b) /\ \A x \in Range(b) : \E key : x.id = Id(rec, "Company", key)
      BY <2>2, DimensionFacts
    <3>3. IsSeq(c) /\ \A x \in Range(c) : \E key : x.id = Id(rec, "Product", key)
      BY <2>2, DimensionFacts
    <3> QED
      BY <3>1, <3>2, <3>3
  <2>4. Range(a \o b \o c) = Range(a) \cup Range(b) \cup Range(c)
    BY <2>3, Joining
  <2>5. \A x \in Range(ExtractReview(rec).ents) : \A r : x.id # JobId(r)
    BY <1>1, <1>2, <2>1, <2>2, <2>3, <2>4
  <2> QED
    BY <1>3, <2>5 DEF ExtractAs
<1>4. CASE kind \notin {"review-feed", "reviews", "ratings"}
  <2>1. PICK e1, e2, e3, p, dept, place :
          /\ ExtractJob(rec).ents = <<own("Job", p)>>
                \o Dimension(rec, "Company", Company(rec), e1).ents
                \o Dimension(rec, "Department", dept, e2).ents
                \o Dimension(rec, "Location", place, e3).ents
          /\ Says(p, rec)
    <3>1. \A title, dept, place :
            Says([title |-> title, company |-> Company(rec), department |-> dept,
                  location |-> place], rec)
      BY DEF Says
    <3> QED
      BY <3>1 DEF ExtractJob
  <2>2. PICK a, b, c, d : /\ a = <<own("Job", p)>>
                          /\ b = Dimension(rec, "Company", Company(rec), e1).ents
                          /\ c = Dimension(rec, "Department", dept, e2).ents
                          /\ d = Dimension(rec, "Location", place, e3).ents
    OBVIOUS
  <2>3. /\ IsSeq(a) /\ IsSeq(b) /\ IsSeq(c) /\ IsSeq(d)
        /\ Range(a) = {own("Job", p)}
        /\ \A x \in Range(b) : \E key : x.id = Id(rec, "Company", key)
        /\ \A x \in Range(c) : \E key : x.id = Id(rec, "Department", key)
        /\ \A x \in Range(d) : \E key : x.id = Id(rec, "Location", key)
    <3>1. IsSeq(a) /\ Range(a) = {own("Job", p)}
      BY <2>2, Short
    <3>2. IsSeq(b) /\ \A x \in Range(b) : \E key : x.id = Id(rec, "Company", key)
      BY <2>2, DimensionFacts
    <3>3. IsSeq(c) /\ \A x \in Range(c) : \E key : x.id = Id(rec, "Department", key)
      BY <2>2, DimensionFacts
    <3>4. IsSeq(d) /\ \A x \in Range(d) : \E key : x.id = Id(rec, "Location", key)
      BY <2>2, DimensionFacts
    <3> QED
      BY <3>1, <3>2, <3>3, <3>4
  <2>4. Range(a \o b \o c \o d) = Range(a) \cup Range(b) \cup Range(c) \cup Range(d)
    <3>1. IsSeq(a \o b) /\ Range(a \o b) = Range(a) \cup Range(b)
      BY <2>3, Joining
    <3>2. IsSeq(a \o b \o c) /\ Range(a \o b \o c) = Range(a \o b) \cup Range(c)
      BY <2>3, <3>1, Joining
    <3>3. Range(a \o b \o c \o d) = Range(a \o b \o c) \cup Range(d)
      BY <2>3, <3>2, Joining
    <3> QED
      BY <3>1, <3>2, <3>3
  <2>5. PICK e : e = own("Job", p)
    OBVIOUS
  <2>6. e.id = JobId(rec) /\ e.props = p /\ e \in Range(ExtractJob(rec).ents)
    BY <1>2, <2>1, <2>2, <2>3, <2>4, <2>5 DEF JobId
  <2>7. \A x \in Range(ExtractJob(rec).ents) : \A r : x.id = JobId(r) => x = e
    BY <1>1, <2>1, <2>2, <2>3, <2>4, <2>5
  <2>8. \A r : JobId(rec) = JobId(r) => Own(r) = Own(rec)
    BY DEF JobId, Id
  <2> QED
    BY <1>4, <2>1, <2>6, <2>7, <2>8 DEF ExtractAs
<1> QED
  BY <1>3, <1>4

\* What a merge makes of an entity: it says what all that were merged in say.
LEMMA Merged ==
  ASSUME NEW g, NEW ents, IsSeq(ents), NEW rec, NEW j,
         \/ \E x \in Range(ents) : x.id = j
         \/ j \in DOMAIN g /\ Says(g[j], rec),
         \A x \in Range(ents) : x.id = j => Says(x.props, rec)
  PROVE  j \in DOMAIN Merge(g, ents) /\ Says(Merge(g, ents)[j], rec)
<1> DEFINE new == {k \in DOMAIN ents : ents[k].id = j}
           old == IF j \in DOMAIN g THEN DOMAIN g[j] ELSE {}
           says == {k \in new : "company" \in DOMAIN ents[k].props}
<1>1. Len(ents) \in Nat /\ DOMAIN ents = 1 .. Len(ents)
  BY SeqFacts
<1>2. \A k \in new : Says(ents[k].props, rec)
  BY DEF Range
<1>3. says = new
  BY <1>2 DEF Says
<1>4. j \in DOMAIN Merge(g, ents)
  BY DEF Merge, Range
<1>5. Merge(g, ents)[j] =
        [p \in old \cup UNION {DOMAIN ents[k].props : k \in new} |->
          LET s == {k \in new : p \in DOMAIN ents[k].props}
          IN IF s = {} THEN g[j][p] ELSE ents[Max(s)].props[p]]
  BY <1>4 DEF Merge
<1>6. "company" \in old \cup UNION {DOMAIN ents[k].props : k \in new}
  <2>1. CASE \E x \in Range(ents) : x.id = j
    <3>1. PICK k \in DOMAIN ents : ents[k].id = j
      BY <2>1 DEF Range
    <3> QED
      BY <1>2, <3>1 DEF Says
  <2>2. CASE j \in DOMAIN g /\ Says(g[j], rec)
    BY <2>2 DEF Says
  <2> QED
    BY <2>1, <2>2
<1>7. Merge(g, ents)[j]["company"] =
        IF says = {} THEN g[j]["company"] ELSE ents[Max(says)].props["company"]
  BY <1>5, <1>6
<1>8. CASE says = {}
  <2>1. ~\E x \in Range(ents) : x.id = j
    BY <1>3, <1>8 DEF Range
  <2>2. g[j]["company"] = Company(rec)
    BY <2>1 DEF Says
  <2> QED
    BY <1>4, <1>5, <1>6, <1>7, <1>8, <2>2 DEF Says
<1>9. CASE says # {}
  <2>1. says \in SUBSET (1 .. Len(ents))
    BY <1>1
  <2>2. Max(says) \in says
    <3> HIDE DEF says
    <3> QED
      BY <1>1, <1>9, <2>1, MaxIn
  <2>3. ents[Max(says)].props["company"] = Company(rec)
    BY <1>2, <2>2 DEF Says
  <2> QED
    BY <1>4, <1>5, <1>6, <1>7, <1>9, <2>3 DEF Says
<1> QED
  BY <1>8, <1>9

-----------------------------------------------------------------------------
\* _sources_to_scrape returns sources of the venture.
LEMMA ListedSources ==
  ASSUME NEW ven
  PROVE  /\ IsSeq(ListEnabled(ven))
         /\ \A s \in Range(ListEnabled(ven)) : s \in Range(Sources) /\ OwnerOf[s] = ven
<1> DEFINE parts == [i \in DOMAIN Sources |->
                      IF OwnerOf[Sources[i]] = ven THEN <<Sources[i]>> ELSE <<>>]
<1>1. IsSeq(Sources)
  BY FeedsAssumption DEF IsSeq
<1>2. Len(Sources) \in Nat /\ DOMAIN Sources = 1 .. Len(Sources)
  BY <1>1, SeqFacts
<1>3. parts = [i \in 1 .. Len(Sources) |-> parts[i]] /\ DOMAIN parts = DOMAIN Sources
  BY <1>2
<1>4. ASSUME NEW i \in DOMAIN Sources
      PROVE  /\ IsSeq(parts[i])
             /\ \A s \in Range(parts[i]) : s \in Range(Sources) /\ OwnerOf[s] = ven
  <2>1. CASE OwnerOf[Sources[i]] = ven
    <3>1. parts[i] = <<Sources[i]>>
      BY <2>1
    <3>2. IsSeq(parts[i]) /\ Range(parts[i]) = {Sources[i]}
      BY <3>1, Short
    <3> QED
      BY <2>1, <3>2 DEF Range
  <2>2. CASE OwnerOf[Sources[i]] # ven
    <3>1. parts[i] = <<>>
      BY <2>2
    <3> QED
      BY <3>1, Short
  <2> QED
    BY <2>1, <2>2
<1>5. ListEnabled(ven) = Flat(parts)
  BY DEF ListEnabled
<1> HIDE DEF parts
<1>6. IsSeq(parts)
  BY <1>2, <1>3, AsSeq
<1>7. IsSeq(Flat(parts)) /\ Range(Flat(parts)) = UNION {Range(parts[i]) : i \in DOMAIN parts}
  BY <1>3, <1>4, <1>6, FlatFacts
<1>8. ASSUME NEW s \in Range(ListEnabled(ven))
      PROVE  s \in Range(Sources) /\ OwnerOf[s] = ven
  <2>1. PICK i \in DOMAIN Sources : s \in Range(parts[i])
    BY <1>3, <1>5, <1>7, <1>8
  <2> QED
    BY <1>4, <2>1
<1> QED
  BY <1>5, <1>7, <1>8

-----------------------------------------------------------------------------
\* A step outside a node leaves every thread inside that node where it is.
LEMMA Aside ==
  ASSUME IInv, NEW t \in Threads, NEW node, NEW pc, pc # "start",
         (Works(t) /\ ~Handling(t, node)) \/ Publish(t) \/ Reset(t) \/ Reply(t)
  PROVE  \A u \in Threads :
           /\ At(u, node, pc)' <=> At(u, node, pc)
           /\ At(u, node, pc) => loc'[u] = loc[u] /\ todo'[u] = todo[u]
<1>1. \A u \in Threads : At(u, node, pc)' =>
         At(u, node, pc) /\ loc'[u] = loc[u] /\ todo'[u] = todo[u]
  BY AtElsewhere
<1>2. /\ \A u \in Threads \ {t} : loc'[u] = loc[u] /\ todo'[u] = todo[u]
      /\ Publish(t) \/ Reset(t) \/ Reply(t) => todo[t] = <<>>
  BY OthersStay
<1>3. ~At(t, node, pc)
  BY <1>2 DEF At, Handling
<1>4. \A u \in Threads \ {t} : At(u, node, pc)' <=> At(u, node, pc)
  BY <1>2 DEF At, Handling
<1> QED
  BY <1>1, <1>2, <1>3, <1>4

\* Outside the ingestion nodes there is nothing to remember.
LEMMA Errandless ==
  ASSUME NEW t, ~Ingesting(t)'
  PROVE  Gathers(t)' /\ Builds(t)'
<1>1. \A node \in {"source-scraper", "knowledge-builder"} : \A pc : pc # "start" => ~At(t, node, pc)'
  BY DEF Ingesting, At
<1> QED
  BY <1>1 DEF Gathers, Builds

\* In a calm run whoever is inside the ingestion nodes is alone there.
LEMMA Solo ==
  ASSUME IInv, Shaped, NEW t \in Threads, FeedsStep(t), ~Handling(t, "insight-inferrer"), Calm'
  PROVE  /\ Calm
         /\ \A u \in Threads \ {t} : ~Ingesting(u) /\ ~Ingesting(u)'
<1>1. Works(t) /\ \E n \in {"source-scraper", "knowledge-builder"} : Handling(t, n)
  BY FeedsWorks, NodesOf
<1>2. \/ Overlap(t) /\ (strayed => strayed')
      \/ UNCHANGED <<overlapped, strayed>> /\ loc[t].pc # "start"
  <2>1. CASE ScrapeStart(t)
    BY <2>1 DEF ScrapeStart
  <2>2. CASE BuilderRead(t)
    BY <2>2 DEF BuilderRead
  <2>3. CASE \/ Fetch(t) \/ FetchFails(t) \/ Claim(t) \/ Store(t) \/ SourceDone(t)
             \/ BuilderExtract(t) \/ BuilderAdvance(t) \/ UpsertEntities(t)
             \/ UpsertEdges(t) \/ RollUp(t) \/ Refresh(t)
    BY <2>3 DEF Fetch, FetchFails, Claim, Store, SourceDone, BuilderExtract, BuilderAdvance,
         UpsertEntities, UpsertEdges, RollUp, Refresh, At, feedVars
  <2> QED
    BY <2>1, <2>2, <2>3 DEF FeedsStep, Infer, InferFails, At
<1>3. ~overlapped /\ ~strayed
  <2>1. overlapped => overlapped'
    BY <1>2 DEF Overlap
  <2> QED
    BY <1>2, <2>1 DEF Calm
<1>4. \A u \in Threads \ {t} : ~Ingesting(u)
  <2>1. CASE Overlap(t)
    BY <2>1 DEF Overlap, Calm
  <2>2. CASE loc[t].pc # "start"
    <3>1. Ingesting(t)
      BY <1>1, <2>2 DEF Ingesting
    <3> QED
      BY <1>3, <3>1 DEF IInv, Apart
  <2> QED
    BY <1>2, <2>1, <2>2
<1>5. \A u \in Threads \ {t} : ~Ingesting(u)'
  <2>1. \A u \in Threads \ {t} : loc'[u] = loc[u] /\ todo'[u] = todo[u]
    BY <1>1, OthersStay
  <2> QED
    BY <1>4, <2>1 DEF Ingesting, Handling
<1> QED
  BY <1>3, <1>4, <1>5 DEF Calm

\* What is promised stays so until source-scraper or knowledge-builder takes it up.
LEMMA PromisedStays ==
  ASSUME IInv, Shaped, NEW t \in Threads, Works(t) \/ Publish(t) \/ Reset(t) \/ Reply(t),
         NEW v, Promised(v)
  PROVE  \/ Promised(v)'
         \/ Gathering(t, v) /\ ~Gathering(t, v)'
         \/ Handling(t, "knowledge-builder") /\ Ev(t).ven = v /\ Returns(t)
<1>1. /\ dropped \subseteq dropped'
      /\ \A u \in Threads : \A d \in Range(todo[u]) :
           \/ d \in Range(todo'[u])
           \/ d \in dropped'
           \/ u = t /\ d = Head(todo[t]) /\ Returns(t)
  BY DeliveriesKept
<1>2. /\ \A u \in Threads \ {t} : loc'[u] = loc[u] /\ todo'[u] = todo[u]
      /\ Publish(t) \/ Reset(t) \/ Reply(t) => todo[t] = <<>>
  BY OthersStay
<1>3. CASE Gone(v)
  BY <1>1, <1>3 DEF Promised, Gone
<1>4. ASSUME NEW u \in Threads, NEW d \in Range(todo[u]),
             d.node = "knowledge-builder", d.ev.ven = v
      PROVE  \/ Promised(v)'
             \/ Handling(t, "knowledge-builder") /\ Ev(t).ven = v /\ Returns(t)
  <2>1. CASE d \in Range(todo'[u])
    BY <1>4, <2>1 DEF Promised
  <2>2. CASE d \in dropped'
    BY <1>4, <2>2 DEF Promised, Gone
  <2>3. CASE u = t /\ d = Head(todo[t]) /\ Returns(t)
    <3>1. todo[t] # <<>>
      BY <1>4, <2>3, Short
    <3> QED
      BY <1>4, <2>3, <3>1 DEF Handling, Ev
  <2> QED
    BY <1>1, <2>1, <2>2, <2>3
<1>5. ASSUME NEW u \in Threads, Gathering(u, v)
      PROVE  Promised(v)' \/ (Gathering(t, v) /\ ~Gathering(t, v)')
  <2>1. CASE u = t
    BY <1>5, <2>1 DEF Promised
  <2>2. CASE u # t
    BY <1>2, <1>5, <2>2 DEF Promised, Gathering, Handling, Ev
  <2> QED
    BY <2>1, <2>2
<1> QED
  BY <1>3, <1>4, <1>5 DEF Promised

\* A raise in the venture loses deliveries of the venture.
LEMMA RaiseGone ==
  ASSUME IInv, Shaped, NEW t \in Threads, todo[t] # <<>>, Raise(t), NEW v, Ev(t).ven = v
  PROVE  Gone(v)'
<1>1. Head(todo[t]) \in dropped'
  BY AtHand DEF Raise
<1> QED
  BY <1>1 DEF Gone, Ev

-----------------------------------------------------------------------------
\* What is left of Followed to show of a step inside the ingestion nodes.
LEMMA Alone ==
  ASSUME IInv, Shaped, NEW t \in Threads, FeedsStep(t), ~Handling(t, "insight-inferrer"),
         Calm' => Sane' /\ Awaited' /\ Graphed' /\ Viewed' /\ Gathers(t)' /\ Builds(t)'
  PROVE  Followed'
<1>1. SUFFICES ASSUME Calm'
               PROVE  \A u \in Threads \ {t} : Gathers(u)' /\ Builds(u)'
  BY DEF Followed
<1>2. \A u \in Threads \ {t} : ~Ingesting(u)'
  BY <1>1, Solo
<1> QED
  BY <1>2, Errandless

\* A step that leaves rows, watermark and graph alone, and those who merge.
LEMMA GraphedStays ==
  ASSUME Graphed, UNCHANGED <<rows, watermark, graph>>,
         \A u \in Threads : At(u, "knowledge-builder", "entities") =>
           At(u, "knowledge-builder", "entities")' /\ loc'[u] = loc[u]
  PROVE  Graphed'
<1> SUFFICES ASSUME NEW i \in DOMAIN rows, IsLead(rows[i].rec), rows[i].seq <= watermark
             PROVE  \/ InGraph(rows[i].rec)'
                    \/ \E u \in Threads : /\ At(u, "knowledge-builder", "entities")'
                                          /\ Lists(loc'[u].ents, rows[i].rec)
  BY DEF Graphed
<1>1. CASE InGraph(rows[i].rec)
  BY <1>1 DEF InGraph
<1>2. CASE ~InGraph(rows[i].rec)
  BY <1>2 DEF Graphed
<1> QED
  BY <1>1, <1>2

\* A step that leaves rows, watermark and views alone, and those who catch up.
LEMMA ViewedStays ==
  ASSUME Viewed, UNCHANGED <<rows, watermark, views>>,
         \A u \in Threads : \A v : Catching(u, v) => Catching(u, v)'
  PROVE  Viewed'
<1> SUFFICES ASSUME NEW i \in DOMAIN rows, IsLead(rows[i].rec), rows[i].seq <= watermark
             PROVE  \/ Company(rows[i].rec) \in DOMAIN views[rows[i].rec.ven].roles
                    \/ \E u \in Threads : Catching(u, rows[i].rec.ven)'
  BY DEF Viewed
<1> QED
  BY DEF Viewed

\* A thread that a step leaves alone catches up as before.
LEMMA CatchingStays ==
  ASSUME IInv, Shaped, NEW t \in Threads,
         (Works(t) /\ ~Handling(t, "knowledge-builder")) \/ Publish(t) \/ Reset(t) \/ Reply(t)
  PROVE  /\ \A u \in Threads : \A v : Catching(u, v) => Catching(u, v)'
         /\ \A u \in Threads : At(u, "knowledge-builder", "entities") =>
              At(u, "knowledge-builder", "entities")' /\ loc'[u] = loc[u]
<1>1. \A pc \in {"entities", "edges", "rollup", "refresh"} : \A u \in Threads :
        At(u, "knowledge-builder", pc) =>
          At(u, "knowledge-builder", pc)' /\ loc'[u] = loc[u] /\ todo'[u] = todo[u]
  BY Aside
<1> QED
  BY <1>1 DEF Catching, Ev

\* A step of source-scraper that stores nothing.
LEMMA FollowedGathers ==
  ASSUME IInv, Shaped, Followed, NEW t \in Threads, FeedsStep(t),
         Handling(t, "source-scraper"),
         UNCHANGED <<rows, watermark, graph, views>>, seq' \in Nat, seq <= seq',
         \A v : Calm /\ Gathering(t, v) => Gathering(t, v)' \/ Promised(v)',
         Calm /\ Calm' => Gathers(t)'
  PROVE  Followed'
<1>0. ~Handling(t, "insight-inferrer") /\ ~Handling(t, "knowledge-builder")
  BY DEF Handling
<1>1. Works(t)
  BY FeedsWorks
<1> SUFFICES ASSUME Calm'
             PROVE  Sane' /\ Awaited' /\ Graphed' /\ Viewed' /\ Gathers(t)' /\ Builds(t)'
  BY <1>0, Alone
<1>2. Calm /\ Sane /\ Awaited /\ Graphed /\ Viewed
  BY <1>0, Solo DEF Followed
<1>3. Sane'
  BY <1>2 DEF Sane, IInv, Typed
<1>4. Awaited'
  <2> SUFFICES ASSUME NEW i \in DOMAIN rows, rows[i].seq > watermark
               PROVE  Promised(rows[i].rec.ven)'
    BY DEF Awaited
  <2>1. PICK v : v = rows[i].rec.ven
    OBVIOUS
  <2>2. Promised(v)
    BY <1>2, <2>1 DEF Awaited
  <2>3. Promised(v)'
    BY <1>0, <1>1, <1>2, <2>2, PromisedStays
  <2> QED
    BY <2>1, <2>3
<1>5. Graphed' /\ Viewed'
  BY <1>0, <1>1, <1>2, CatchingStays, GraphedStays, ViewedStays
<1>6. Builds(t)'
  <2>1. \A pc : pc # "start" => ~At(t, "knowledge-builder", pc)'
    BY <1>0, <1>1, AtElsewhere DEF At
  <2> QED
    BY <2>1 DEF Builds
<1> QED
  BY <1>2, <1>3, <1>4, <1>5, <1>6

\* A step of knowledge-builder that touches neither watermark, graph nor views.
LEMMA FollowedBuilds ==
  ASSUME IInv, Shaped, Followed, NEW t \in Threads, FeedsStep(t),
         Handling(t, "knowledge-builder"),
         UNCHANGED <<rows, watermark, graph, views, seq>>,
         Returns(t) => \A i \in DOMAIN rows : rows[i].seq <= watermark,
         ~At(t, "knowledge-builder", "entities"),
         \A v : Catching(t, v) => Catching(t, v)',
         Calm /\ Calm' => Builds(t)'
  PROVE  Followed'
<1>0. ~Handling(t, "insight-inferrer") /\ ~Handling(t, "source-scraper")
  BY DEF Handling
<1>1. Works(t)
  BY FeedsWorks
<1> SUFFICES ASSUME Calm'
             PROVE  Sane' /\ Awaited' /\ Graphed' /\ Viewed' /\ Gathers(t)' /\ Builds(t)'
  BY <1>0, Alone
<1>2. Calm /\ Sane /\ Awaited /\ Graphed /\ Viewed
  BY <1>0, Solo DEF Followed
<1>3. Sane'
  BY <1>2 DEF Sane
<1>4. Awaited'
  <2> SUFFICES ASSUME NEW i \in DOMAIN rows, rows[i].seq > watermark
               PROVE  Promised(rows[i].rec.ven)'
    BY DEF Awaited
  <2>1. PICK v : v = rows[i].rec.ven
    OBVIOUS
  <2>2. Promised(v)
    BY <1>2, <2>1 DEF Awaited
  <2>3. ~Returns(t)
    BY <1>2 DEF Sane, IInv, Numbered, Typed
  <2>4. ~Gathering(t, v)
    BY <1>0 DEF Gathering
  <2>5. Promised(v)'
    BY <1>1, <2>2, <2>3, <2>4, PromisedStays
  <2> QED
    BY <2>1, <2>5
<1>5. \A u \in Threads \ {t} : ~Ingesting(u)
  BY <1>0, Solo
<1>6. \A u \in Threads : ~At(u, "knowledge-builder", "entities")
  BY <1>5 DEF At, Ingesting
<1>7. \A u \in Threads \ {t} : \A v : ~Catching(u, v)
  BY <1>5 DEF Catching, At, Ingesting
<1>8. Graphed' /\ Viewed'
  BY <1>2, <1>6, <1>7, GraphedStays, ViewedStays
<1>9. Gathers(t)'
  <2>1. \A pc : pc # "start" => ~At(t, "source-scraper", pc)'
    BY <1>0, <1>1, AtElsewhere DEF At
  <2> QED
    BY <2>1 DEF Gathers
<1> QED
  BY <1>2, <1>3, <1>4, <1>8, <1>9

-----------------------------------------------------------------------------
\* Where a move within a handler takes its thread, and who goes with it.
LEMMA MovedTo ==
  ASSUME IInv, NEW t \in Threads, todo[t] # <<>>, NEW there, Goto(t, there),
         "pc" \in DOMAIN there
  PROVE  /\ loc'[t] = there /\ todo'[t] = todo[t]
         /\ \A node : Handling(t, node)' <=> Handling(t, node)
         /\ Ev(t)' = Ev(t)
BY Moving DEF Moves, Handling, Ev

\* source-scraper goes on, with sources of the venture and with what it will say.
LEMMA GathersOn ==
  ASSUME IInv, NEW t \in Threads, Handling(t, "source-scraper"), NEW there, Goto(t, there),
         \/ there.pc = "fetch" /\ "pc" \in DOMAIN there
         \/ /\ there.pc \in {"insert", "store"}
            /\ {"pc", "srcs", "outs", "recs"} \subseteq DOMAIN there
            /\ IsSeq(there.recs) /\ \A r \in Range(there.recs) : r.ven = Ev(t).ven,
         IsSeq(there.srcs), there.srcs # <<>>,
         \A s \in Range(there.srcs) : s \in Range(Sources) /\ OwnerOf[s] = Ev(t).ven,
         \A o \in Range(there.outs) : o.type = "source.records.ingested",
         there.pc = "store" => /\ there.row.rec.ven = Ev(t).ven
                               /\ there.row.seq > watermark /\ watermark' = watermark
  PROVE  Gathers(t)'
<1>1. /\ loc'[t] = there /\ Ev(t)' = Ev(t)
      /\ todo[t] # <<>> /\ Handling(t, "source-scraper")'
  BY MovedTo DEF Handling
<1>2. PICK v : v = Ev(t).ven
  OBVIOUS
<1>3. Ev(t)'.ven = v
  BY <1>1, <1>2
<1> QED
  BY <1>1, <1>2, <1>3 DEF Gathers, At

\* It starts: the enabled sources of the venture are to be fetched.
LEMMA FollowedStart ==
  ASSUME IInv, Shaped, Followed, NEW t \in Threads, ScrapeStart(t)
  PROVE  Followed'
<1>1. /\ Handling(t, "source-scraper") /\ loc[t].pc = "start" /\ todo[t] # <<>>
      /\ FeedsStep(t)
      /\ Scrape(t, ListEnabled(Ev(t).ven), <<>>)
      /\ UNCHANGED <<rows, watermark, graph, views, seq>>
  BY DEF ScrapeStart, At, Handling, rawVars, knowVars, FeedsStep
<1>2. seq \in Nat /\ \A v : ~Gathering(t, v)
  BY <1>1 DEF IInv, Typed, Gathering
<1>3. Gathers(t)'
  <2>1. CASE ListEnabled(Ev(t).ven) = <<>>
    <3>1. loc'[t] = Start
      BY <1>1, <2>1, Leaving DEF Scrape, Leaves
    <3>2. ~Ingesting(t)'
      BY <3>1 DEF Ingesting, Start
    <3> QED
      BY <3>2, Errandless
  <2>2. CASE ListEnabled(Ev(t).ven) # <<>>
    <3>1. PICK there, srcs : /\ srcs = ListEnabled(Ev(t).ven)
                             /\ there = [pc |-> "fetch", srcs |-> srcs, outs |-> <<>>]
      OBVIOUS
    <3>2. Goto(t, there)
      BY <1>1, <2>2, <3>1 DEF Scrape
    <3>3. /\ IsSeq(srcs) /\ srcs # <<>>
          /\ \A s \in Range(srcs) : s \in Range(Sources) /\ OwnerOf[s] = Ev(t).ven
      BY <2>2, <3>1, ListedSources
    <3>4. /\ there.pc = "fetch" /\ "pc" \in DOMAIN there
          /\ there.srcs = srcs /\ Range(there.outs) = {}
      BY <3>1, Short
    <3> QED
      BY <1>1, <3>2, <3>3, <3>4, GathersOn
  <2> QED
    BY <2>1, <2>2
<1> QED
  BY <1>1, <1>2, <1>3, FollowedGathers

\* A feed lists records of the venture, or cannot be read.
LEMMA FollowedFetch ==
  ASSUME IInv, Shaped, Followed, NEW t \in Threads, Fetch(t)
  PROVE  Followed'
<1>1. /\ At(t, "source-scraper", "fetch") /\ Handling(t, "source-scraper")
      /\ todo[t] # <<>> /\ loc[t].pc = "fetch" /\ FeedsStep(t)
      /\ UNCHANGED <<rows, watermark, graph, views, seq>>
  BY DEF Fetch, At, Handling, feedVars, FeedsStep
<1>2. PICK recs \in Listed[Head(loc[t].srcs)] :
        Goto(t, [pc |-> "insert", srcs |-> loc[t].srcs, outs |-> loc[t].outs, recs |-> recs])
  BY DEF Fetch
<1>3. PICK there : there = [pc |-> "insert", srcs |-> loc[t].srcs, outs |-> loc[t].outs,
                            recs |-> recs]
  OBVIOUS
<1>4. /\ Goto(t, there) /\ there.pc = "insert" /\ there.recs = recs
      /\ there.srcs = loc[t].srcs /\ there.outs = loc[t].outs
      /\ {"pc", "srcs", "outs", "recs"} \subseteq DOMAIN there
  BY <1>2, <1>3
<1>5. \A v : Gathering(t, v) => Gathering(t, v)'
  <2>1. loc'[t] = there /\ Handling(t, "source-scraper")' /\ Ev(t)' = Ev(t)
    BY <1>1, <1>4, MovedTo
  <2> QED
    BY <1>4, <2>1 DEF Gathering
<1>6. ASSUME Calm
      PROVE  Gathers(t)'
  <2>1. /\ IsSeq(loc[t].srcs) /\ loc[t].srcs # <<>>
        /\ \A s \in Range(loc[t].srcs) : s \in Range(Sources) /\ OwnerOf[s] = Ev(t).ven
        /\ \A o \in Range(loc[t].outs) : o.type = "source.records.ingested"
    BY <1>1, <1>6 DEF Followed, Gathers
  <2>2. Head(loc[t].srcs) \in Range(loc[t].srcs)
    BY <2>1, HeadTail
  <2>3. IsSeq(recs) /\ \A r \in Range(recs) : r.ven = Ev(t).ven
    BY <2>1, <2>2, FeedsAssumption DEF IsSeq
  <2> QED
    BY <1>1, <1>4, <2>1, <2>3, GathersOn
<1> QED
  BY <1>1, <1>5, <1>6, FollowedGathers DEF IInv, Typed

\* A feed that cannot be read loses what the run gathered.
LEMMA FollowedFetchFails ==
  ASSUME IInv, Shaped, Followed, NEW t \in Threads, FetchFails(t)
  PROVE  Followed'
<1>1. /\ Handling(t, "source-scraper") /\ todo[t] # <<>> /\ FeedsStep(t) /\ Raise(t)
      /\ UNCHANGED <<rows, watermark, graph, views, seq>>
  BY DEF FetchFails, At, Handling, feedVars, FeedsStep
<1>2. \A v : Gathering(t, v) => Promised(v)'
  BY <1>1, RaiseGone DEF Gathering, Promised
<1>3. Gathers(t)'
  <2>1. loc'[t] = Start
    BY <1>1, Leaving DEF Leaves
  <2>2. ~Ingesting(t)'
    BY <2>1 DEF Ingesting, Start
  <2> QED
    BY <2>2, Errandless
<1> QED
  BY <1>1, <1>2, <1>3, FollowedGathers DEF IInv, Typed

\* A record the store has is left behind, one it has not is numbered past the watermark.
LEMMA FollowedClaim ==
  ASSUME IInv, Shaped, Followed, NEW t \in Threads, Claim(t)
  PROVE  Followed'
<1>1. /\ At(t, "source-scraper", "insert") /\ Handling(t, "source-scraper")
      /\ todo[t] # <<>> /\ loc[t].pc = "insert" /\ loc[t].recs # <<>> /\ FeedsStep(t)
      /\ UNCHANGED <<rows, watermark, graph, views>>
      /\ seq \in Nat /\ "pc" \in DOMAIN loc[t]
  BY DEF Claim, At, Handling, knowVars, FeedsStep, IInv, Typed
<1>2. PICK tail, head : tail = Tail(loc[t].recs) /\ head = Head(loc[t].recs)
  OBVIOUS
<1>3. PICK past, claimed :
        /\ past = [loc[t] EXCEPT !.recs = tail]
        /\ claimed = [pc |-> "store", srcs |-> loc[t].srcs, outs |-> loc[t].outs,
                      recs |-> tail, row |-> [seq |-> seq + 1, rec |-> head]]
  OBVIOUS
<1>4. (Goto(t, past) /\ seq' = seq) \/ (Goto(t, claimed) /\ seq' = seq + 1)
  BY <1>2, <1>3 DEF Claim
<1>5. /\ "pc" \in DOMAIN past /\ past.pc = "insert"
      /\ "pc" \in DOMAIN claimed /\ claimed.pc = "store"
  BY <1>1, <1>3
<1>6. \A v : Gathering(t, v) => Gathering(t, v)'
  <2>1. /\ loc'[t].pc \in {"insert", "store"}
        /\ Handling(t, "source-scraper")' /\ Ev(t)' = Ev(t)
    BY <1>1, <1>4, <1>5, MovedTo
  <2> QED
    BY <2>1 DEF Gathering
<1>7. ASSUME Calm
      PROVE  Gathers(t)'
  <2>1. /\ IsSeq(loc[t].srcs) /\ loc[t].srcs # <<>>
        /\ \A s \in Range(loc[t].srcs) : s \in Range(Sources) /\ OwnerOf[s] = Ev(t).ven
        /\ \A o \in Range(loc[t].outs) : o.type = "source.records.ingested"
        /\ {"srcs", "outs", "recs"} \subseteq DOMAIN loc[t]
        /\ IsSeq(loc[t].recs) /\ \A r \in Range(loc[t].recs) : r.ven = Ev(t).ven
        /\ watermark \in 0 .. seq
    BY <1>1, <1>7 DEF Followed, Gathers, Sane
  <2>2. IsSeq(tail) /\ (\A r \in Range(tail) : r.ven = Ev(t).ven) /\ head.ven = Ev(t).ven
    BY <1>1, <1>2, <2>1, HeadTail
  <2>3. CASE Goto(t, past)
    <3>1. /\ {"pc", "srcs", "outs", "recs"} \subseteq DOMAIN past
          /\ past.recs = tail /\ past.srcs = loc[t].srcs /\ past.outs = loc[t].outs
      BY <1>1, <1>3, <2>1
    <3> QED
      BY <1>1, <1>5, <2>1, <2>2, <2>3, <3>1, GathersOn
  <2>4. CASE Goto(t, claimed)
    <3>1. /\ {"pc", "srcs", "outs", "recs"} \subseteq DOMAIN claimed
          /\ claimed.recs = tail /\ claimed.srcs = loc[t].srcs /\ claimed.outs = loc[t].outs
          /\ claimed.row.rec = head /\ claimed.row.seq = seq + 1
      BY <1>3
    <3>2. seq + 1 > watermark
      BY <1>1, <2>1
    <3> QED
      BY <1>1, <1>5, <2>1, <2>2, <2>4, <3>1, <3>2, GathersOn
  <2> QED
    BY <1>4, <2>3, <2>4
<1> QED
  BY <1>1, <1>4, <1>6, <1>7, FollowedGathers

\* A row is stored, of the venture, past the watermark, and its source will be told.
LEMMA FollowedStore ==
  ASSUME IInv, Shaped, Followed, NEW t \in Threads, Store(t)
  PROVE  Followed'
<1>1. /\ At(t, "source-scraper", "store") /\ Handling(t, "source-scraper")
      /\ todo[t] # <<>> /\ loc[t].pc = "store" /\ FeedsStep(t)
      /\ UNCHANGED <<seq, watermark, graph, views>>
      /\ rows' = Append(rows, loc[t].row)
  BY DEF Store, At, Handling, knowVars, FeedsStep
<1>2. ~Handling(t, "insight-inferrer") /\ ~Handling(t, "knowledge-builder") /\ Works(t)
  BY <1>1, FeedsWorks DEF Handling
<1> SUFFICES ASSUME Calm'
             PROVE  Sane' /\ Awaited' /\ Graphed' /\ Viewed' /\ Gathers(t)' /\ Builds(t)'
  BY <1>1, <1>2, Alone
<1>3. Calm /\ Sane /\ Awaited /\ Graphed /\ Viewed /\ Gathers(t)
  BY <1>1, <1>2, Solo DEF Followed
<1>4. PICK there : /\ there = [pc |-> "insert", srcs |-> loc[t].srcs, outs |-> loc[t].outs,
                               recs |-> loc[t].recs]
                   /\ Goto(t, there)
  BY DEF Store
<1>5. /\ there.pc = "insert" /\ {"pc", "srcs", "outs", "recs"} \subseteq DOMAIN there
      /\ there.srcs = loc[t].srcs /\ there.outs = loc[t].outs /\ there.recs = loc[t].recs
  BY <1>4
<1>6. loc'[t] = there /\ Handling(t, "source-scraper")' /\ Ev(t)' = Ev(t)
  BY <1>1, <1>4, <1>5, MovedTo
<1>7. Gathers(t)'
  <2>1. /\ IsSeq(loc[t].srcs) /\ loc[t].srcs # <<>>
        /\ \A s \in Range(loc[t].srcs) : s \in Range(Sources) /\ OwnerOf[s] = Ev(t).ven
        /\ \A o \in Range(loc[t].outs) : o.type = "source.records.ingested"
        /\ IsSeq(loc[t].recs) /\ \A r \in Range(loc[t].recs) : r.ven = Ev(t).ven
    BY <1>1, <1>3 DEF Gathers
  <2> QED
    BY <1>1, <1>4, <1>5, <2>1, GathersOn
<1>8. PICK row, n, ven : row = loc[t].row /\ n = Len(rows) + 1 /\ ven = Ev(t).ven
  OBVIOUS
<1>9. /\ row.rec.ven = ven /\ row.seq > watermark /\ ven \in Ventures
      /\ Gathering(t, ven)'
  BY <1>1, <1>3, <1>5, <1>6, <1>8, AtHand DEF Gathers, Gathering, Welcome
<1>10. /\ DOMAIN rows' = DOMAIN rows \cup {n}
       /\ rows'[n] = row /\ \A i \in DOMAIN rows : rows'[i] = rows[i]
  <2>1. /\ Len(rows) \in Nat /\ DOMAIN rows = 1 .. Len(rows)
        /\ DOMAIN Append(rows, row) = 1 .. Len(rows) + 1
        /\ \A i \in DOMAIN rows : Append(rows, row)[i] = rows[i]
        /\ Append(rows, row)[Len(rows) + 1] = row
    BY Appending DEF IInv, Typed
  <2> QED
    BY <1>1, <1>8, <2>1
<1>11. Sane'
  BY <1>1, <1>3, <1>9, <1>10 DEF Sane
<1>12. Awaited'
  <2>1. Promised(ven)'
    BY <1>9 DEF Promised
  <2>2. ASSUME NEW i \in DOMAIN rows, rows[i].seq > watermark
        PROVE  \E v : v = rows'[i].rec.ven /\ Promised(v)'
    <3>1. PICK v : v = rows[i].rec.ven
      OBVIOUS
    <3>2. Promised(v)
      BY <1>3, <2>2, <3>1 DEF Awaited
    <3>3. Gathering(t, v) => Gathering(t, v)'
      BY <1>5, <1>6 DEF Gathering
    <3>4. Promised(v)'
      BY <1>2, <3>2, <3>3, PromisedStays
    <3> QED
      BY <1>10, <3>1, <3>4
  <2>3. \A i \in DOMAIN rows' : rows'[i].seq > watermark =>
          \E v : v = rows'[i].rec.ven /\ Promised(v)'
    BY <1>9, <1>10, <2>1, <2>2
  <2> QED
    BY <1>1, <2>3 DEF Awaited
<1>13. /\ \A u \in Threads : \A v : Catching(u, v) => Catching(u, v)'
       /\ \A u \in Threads : At(u, "knowledge-builder", "entities") =>
            At(u, "knowledge-builder", "entities")' /\ loc'[u] = loc[u]
  BY <1>2, CatchingStays
<1>14. \A i \in DOMAIN rows' : rows'[i].seq <= watermark =>
         i \in DOMAIN rows /\ rows'[i] = rows[i]
  <2>1. row.seq \in Int /\ watermark \in Int
    BY <1>1, <1>3, <1>8 DEF IInv, Typed, Numbered, InHand, Sane
  <2>2. ~(rows'[n].seq <= watermark)
    BY <1>9, <1>10, <2>1
  <2> QED
    BY <1>10, <2>2
<1>15. \A rec : InGraph(rec)' <=> InGraph(rec)
  BY <1>1 DEF InGraph
<1>16. Graphed'
  <2> SUFFICES ASSUME NEW i \in DOMAIN rows', IsLead(rows'[i].rec), rows'[i].seq <= watermark
               PROVE  \/ InGraph(rows[i].rec)'
                      \/ \E u \in Threads : /\ At(u, "knowledge-builder", "entities")'
                                            /\ Lists(loc'[u].ents, rows[i].rec)
    BY <1>1, <1>14 DEF Graphed
  <2> QED
    BY <1>3, <1>13, <1>14, <1>15 DEF Graphed
<1>17. Viewed'
  <2> SUFFICES ASSUME NEW i \in DOMAIN rows', IsLead(rows'[i].rec), rows'[i].seq <= watermark
               PROVE  \/ Company(rows[i].rec) \in DOMAIN views[rows[i].rec.ven].roles
                      \/ \E u \in Threads : Catching(u, rows[i].rec.ven)'
    BY <1>1, <1>14 DEF Viewed
  <2> QED
    BY <1>3, <1>13, <1>14 DEF Viewed
<1>18. Builds(t)'
  <2>1. \A pc : pc # "start" => ~At(t, "knowledge-builder", pc)'
    BY <1>2, AtElsewhere DEF At
  <2> QED
    BY <2>1 DEF Builds
<1> QED
  BY <1>7, <1>11, <1>12, <1>16, <1>17, <1>18

\* What a handler emits is to be delivered, in its venture, to every node that hears it.
LEMMA Heard ==
  ASSUME IInv, Shaped, NEW t \in Threads, todo[t] # <<>>, NEW outs, IsSeq(outs), Finish(t, outs),
         NEW o \in Range(outs), NEW n \in Range(Roster), o.type \in ReactsTo(n)
  PROVE  \E d \in Range(todo'[t]) :
           d.node = n /\ d.ev.ven = Ev(t).ven /\ d.ev.type = o.type /\ d.ev.about = o.about
<1>1. Range(todo'[t]) = (UNION {Range(Deliveries(Event(t, outs, i))) : i \in DOMAIN outs})
                        \cup Range(Tail(todo[t]))
  BY Finishing DEF Shaped
<1>2. PICK i \in DOMAIN outs : outs[i] = o
  BY DEF Range
<1>3. PICK ev : ev = Event(t, outs, i)
  OBVIOUS
<1>4. ev.ven = Ev(t).ven /\ ev.type = o.type /\ ev.about = o.about
  BY <1>2, <1>3, ChildFields DEF Event
<1>5. Range(Deliveries(ev)) =
        {[node |-> m, ev |-> ev] : m \in {k \in Range(Roster) : ev.type \in ReactsTo(k)}}
  BY DeliveriesFacts
<1>6. PICK d : d = [node |-> n, ev |-> ev]
  OBVIOUS
<1>7. d \in Range(Deliveries(ev)) /\ d.node = n /\ d.ev = ev
  BY <1>4, <1>5, <1>6
<1>8. d \in Range(todo'[t])
  BY <1>1, <1>3, <1>7
<1> QED
  BY <1>4, <1>7, <1>8

\* A source is done with: the next is fetched, or knowledge-builder hears of all.
LEMMA FollowedSourceDone ==
  ASSUME IInv, Shaped, Followed, NEW t \in Threads, SourceDone(t)
  PROVE  Followed'
<1>1. /\ At(t, "source-scraper", "insert") /\ Handling(t, "source-scraper")
      /\ todo[t] # <<>> /\ loc[t].pc = "insert" /\ FeedsStep(t)
      /\ UNCHANGED <<rows, watermark, graph, views, seq>>
  BY DEF SourceDone, At, Handling, feedVars, FeedsStep
<1>2. PICK o, outs, srcs :
        /\ o = Out("source.records.ingested", Head(loc[t].srcs), "")
        /\ outs = Append(loc[t].outs, o)
        /\ srcs = Tail(loc[t].srcs)
  OBVIOUS
<1>3. Scrape(t, srcs, outs)
  BY <1>2 DEF SourceDone
<1>4. IsSeq(loc[t].outs)
  BY <1>1, AtHand DEF Fits, Emits
<1>5. IsSeq(outs) /\ Range(outs) = Range(loc[t].outs) \cup {o} /\ o.type = "source.records.ingested"
  <2>1. o.type = "source.records.ingested"
    BY <1>2 DEF Out
  <2>2. PICK said : said = loc[t].outs
    OBVIOUS
  <2>3. IsSeq(Append(said, o)) /\ Range(Append(said, o)) = Range(said) \cup {o}
    BY <1>4, <2>2, Appending, AppendRange
  <2> QED
    BY <1>2, <2>1, <2>2, <2>3
<1>6. outs # <<>>
  BY <1>5, Short
<1>7. CASE srcs = <<>>
  <2>1. Finish(t, outs)
    BY <1>3, <1>7 DEF Scrape
  <2>2. "knowledge-builder" \in Range(Roster) /\ o.type \in ReactsTo("knowledge-builder")
    BY <1>5, RosterFacts DEF ReactsTo
  <2>3. PICK d \in Range(todo'[t]) : d.node = "knowledge-builder" /\ d.ev.ven = Ev(t).ven
    BY <1>1, <1>5, <2>1, <2>2, Heard
  <2>4. \A v : Gathering(t, v) => Promised(v)'
    BY <2>3 DEF Gathering, Promised
  <2>5. Gathers(t)'
    <3>1. loc'[t] = Start
      BY <1>1, <2>1, Leaving DEF Leaves
    <3>2. ~Ingesting(t)'
      BY <3>1 DEF Ingesting, Start
    <3> QED
      BY <3>2, Errandless
  <2> QED
    BY <1>1, <2>4, <2>5, FollowedGathers DEF IInv, Typed
<1>8. CASE srcs # <<>>
  <2>1. PICK there : there = [pc |-> "fetch", srcs |-> srcs, outs |-> outs]
    OBVIOUS
  <2>2. /\ Goto(t, there) /\ there.pc = "fetch" /\ "pc" \in DOMAIN there
        /\ there.srcs = srcs /\ there.outs = outs
    BY <1>3, <1>8, <2>1 DEF Scrape
  <2>3. \A v : Gathering(t, v) => Gathering(t, v)'
    <3>1. loc'[t] = there /\ Handling(t, "source-scraper")' /\ Ev(t)' = Ev(t)
      BY <1>1, <2>2, MovedTo
    <3> QED
      BY <1>6, <2>2, <3>1 DEF Gathering
  <2>4. ASSUME Calm
        PROVE  Gathers(t)'
    <3>1. /\ IsSeq(loc[t].srcs) /\ loc[t].srcs # <<>>
          /\ \A s \in Range(loc[t].srcs) : s \in Range(Sources) /\ OwnerOf[s] = Ev(t).ven
          /\ \A x \in Range(loc[t].outs) : x.type = "source.records.ingested"
      BY <1>1, <2>4 DEF Followed, Gathers
    <3>2. IsSeq(srcs) /\ Range(srcs) \subseteq Range(loc[t].srcs)
      BY <1>2, <3>1, HeadTail
    <3> QED
      BY <1>1, <1>5, <1>8, <2>2, <3>1, <3>2, GathersOn
  <2> QED
    BY <1>1, <2>3, <2>4, FollowedGathers DEF IInv, Typed
<1> QED
  BY <1>7, <1>8

-----------------------------------------------------------------------------
\* knowledge-builder starts: the rows past the watermark are all of the venture, or there
\* are none.
LEMMA FollowedRead ==
  ASSUME IInv, Shaped, Followed, NEW t \in Threads, BuilderRead(t)
  PROVE  Followed'
<1>1. /\ Handling(t, "knowledge-builder") /\ todo[t] # <<>> /\ loc[t].pc = "start"
      /\ FeedsStep(t) /\ UNCHANGED <<rows, watermark, graph, views, seq>>
      /\ ~At(t, "knowledge-builder", "entities") /\ \A v : ~Catching(t, v)
  BY DEF BuilderRead, At, Handling, rawVars, knowVars, FeedsStep, Catching
<1>2. IsSeq(rows) /\ \A i \in DOMAIN rows : rows[i].seq \in Nat
  BY DEF IInv, Typed, Numbered
<1>3. /\ IsSeq(ReadSince(watermark))
      /\ Range(ReadSince(watermark)) =
           {rows[i] : i \in {j \in DOMAIN rows : rows[j].seq > watermark}}
      /\ ReadSince(watermark) # <<>> =>
           \A i \in DOMAIN rows : rows[i].seq > watermark =>
             rows[i].seq <= Last(ReadSince(watermark)).seq
  BY <1>2, Reading
<1>4. CASE ReadSince(watermark) = <<>>
  <2>1. Finish(t, <<>>)
    BY <1>4 DEF BuilderRead
  <2>2. \A i \in DOMAIN rows : ~(rows[i].seq > watermark)
    BY <1>3, <1>4, Short
  <2>3. ASSUME Calm
        PROVE  \A i \in DOMAIN rows : rows[i].seq <= watermark
    BY <1>2, <2>2, <2>3 DEF Followed, Sane, IInv, Typed
  <2>4. Builds(t)'
    <3>1. loc'[t] = Start
      BY <1>1, <2>1, Leaving DEF Leaves
    <3>2. ~Ingesting(t)'
      BY <3>1 DEF Ingesting, Start
    <3> QED
      BY <3>2, Errandless
  <2>5. CASE Calm
    BY <1>1, <2>3, <2>4, <2>5, FollowedBuilds
  <2>6. CASE ~Calm
    <3>1. ~Handling(t, "insight-inferrer")
      BY <1>1 DEF Handling
    <3> QED
      BY <1>1, <2>6, <3>1, Solo DEF Followed
  <2> QED
    BY <2>5, <2>6
<1>5. CASE ReadSince(watermark) # <<>>
  <2>1. PICK new, there : new = ReadSince(watermark) /\ there = [pc |-> "extract", new |-> new]
    OBVIOUS
  <2>2. Goto(t, there) /\ there.pc = "extract" /\ "pc" \in DOMAIN there /\ there.new = new
    BY <1>5, <2>1 DEF BuilderRead
  <2>3. ~Returns(t)
    BY <1>1, <2>2, NoReturn
  <2>4. ASSUME Calm'
        PROVE  Builds(t)'
    <3>1. \A i \in DOMAIN rows : rows[i].seq > watermark => rows[i].rec.ven = Ev(t).ven
      BY <2>4 DEF BuilderRead, Calm
    <3>2. /\ new # <<>>
          /\ Range(new) = {rows[i] : i \in {j \in DOMAIN rows : rows[j].seq > watermark}}
          /\ \A i \in DOMAIN rows : rows[i].seq > watermark => rows[i].seq <= Last(new).seq
      BY <1>2, <1>3, <1>5, <2>1
    <3>3. loc'[t] = there /\ Ev(t)' = Ev(t)
      BY <1>1, <2>2, MovedTo
    <3>4. PICK v : v = Ev(t).ven /\ Ev(t)'.ven = v
      BY <3>3
    <3>5. loc'[t].pc = "extract" /\ loc'[t].new = new
      BY <2>2, <3>3
    <3> QED
      BY <1>1, <3>1, <3>2, <3>4, <3>5 DEF Builds, At
  <2> QED
    BY <1>1, <2>3, <2>4, FollowedBuilds
<1> QED
  BY <1>4, <1>5

\* The entities found in the rows read are those of their jobs; the new watermark is past
\* all rows.
LEMMA FollowedExtract ==
  ASSUME IInv, Shaped, Followed, NEW t \in Threads, BuilderExtract(t)
  PROVE  Followed'
<1>1. /\ At(t, "knowledge-builder", "extract") /\ Handling(t, "knowledge-builder")
      /\ todo[t] # <<>> /\ loc[t].pc = "extract"
      /\ FeedsStep(t) /\ UNCHANGED <<rows, watermark, graph, views, seq>>
      /\ ~At(t, "knowledge-builder", "entities") /\ \A v : ~Catching(t, v)
  BY DEF BuilderExtract, At, Handling, feedVars, FeedsStep, Catching
<1> DEFINE new == loc[t].new
           facts == Facts(new)
           parts == [k \in DOMAIN new |-> facts[k].ents]
<1>2. PICK ents, arcs, mark, there :
        /\ ents = Flat(parts)
        /\ mark = Max({watermark, Last(new).seq})
        /\ there = [pc |-> "advance", ents |-> ents, edges |-> arcs, mark |-> mark]
        /\ Goto(t, there)
  <2>1. Goto(t, [pc |-> "advance", ents |-> Flat(parts),
                 edges |-> UNION {facts[k].edges : k \in DOMAIN new},
                 mark |-> Max({watermark, Last(new).seq})])
    BY DEF BuilderExtract
  <2> HIDE DEF parts, facts
  <2> QED
    BY <2>1
<1>3. /\ there.pc = "advance" /\ "pc" \in DOMAIN there
      /\ there.ents = ents /\ there.mark = mark
  BY <1>2
<1>4. ~Returns(t)
  BY <1>1, <1>2, <1>3, NoReturn
<1>5. ASSUME Calm
      PROVE  Builds(t)'
  <2>1. /\ new # <<>> /\ watermark \in 0 .. seq /\ seq \in Nat
        /\ Range(new) = {rows[i] : i \in {j \in DOMAIN rows : rows[j].seq > watermark}}
        /\ \A i \in DOMAIN rows : rows[i].seq > watermark =>
             rows[i].rec.ven = Ev(t).ven /\ rows[i].seq <= Last(new).seq
    BY <1>1, <1>5 DEF Followed, Builds, Sane, IInv, Typed
  <2>2. IsSeq(new)
    BY <1>1, AtHand DEF Fits
  <2>3. /\ Len(new) \in Nat /\ DOMAIN new = 1 .. Len(new)
        /\ Last(new) \in Range(new)
    <3>1. Len(new) \in Nat /\ DOMAIN new = 1 .. Len(new) /\ DOMAIN new # {}
      BY <2>1, <2>2, SeqFacts
    <3> HIDE DEF new
    <3>2. Len(new) \in DOMAIN new
      BY <3>1
    <3> QED
      BY <3>1, <3>2 DEF Last, Range
  <2>4. PICK last \in DOMAIN rows : rows[last] = Last(new) /\ rows[last].seq > watermark
    BY <2>1, <2>3
  <2>5. rows[last].seq \in 1 .. seq /\ \A i \in DOMAIN rows : rows[i].seq \in 1 .. seq
    BY DEF IInv, Numbered
  <2>6. mark = rows[last].seq
    <3>1. PICK a, b : a = watermark /\ b = rows[last].seq
      OBVIOUS
    <3>2. a \in Int /\ b \in Int /\ b > a /\ mark = Max({a, b})
      BY <1>2, <2>1, <2>4, <2>5, <3>1
    <3>3. \A x \in {a, b} : (\A y \in {a, b} : x >= y) => x = b
      BY <3>2
    <3>4. \E x \in {a, b} : \A y \in {a, b} : x >= y
      BY <3>2
    <3>5. Max({a, b}) = b
      BY <3>3, <3>4 DEF Max
    <3> QED
      BY <3>1, <3>2, <3>5
  <2>7. /\ mark \in watermark .. seq
        /\ \A i \in DOMAIN rows : rows[i].seq <= mark
    BY <2>1, <2>4, <2>5, <2>6
  <2>8. /\ parts = [k \in 1 .. Len(new) |-> parts[k]] /\ DOMAIN parts = DOMAIN new
        /\ \A k \in DOMAIN new :
             parts[k] = ExtractAs(KindOf[new[k].rec.source], new[k].rec).ents
    BY <2>3 DEF Facts
  <2> HIDE DEF parts, new
  <2>9. IsSeq(parts) /\ \A k \in DOMAIN parts : IsSeq(parts[k])
    <3>1. \A kind, rec : IsSeq(ExtractAs(kind, rec).ents)
      BY ExtractJoins
    <3> QED
      BY <2>3, <2>8, <3>1, AsSeq
  <2>10. Range(ents) = UNION {Range(parts[k]) : k \in DOMAIN parts}
    BY <1>2, <2>9, FlatFacts
  <2> DEFINE Jobs(ents1, rec) == \A x \in Range(ents1) : \A r :
               x.id = JobId(r) => Own(r) = Own(rec) /\ Says(x.props, rec)
  <2>20. ASSUME NEW k \in DOMAIN new
         PROVE  /\ Jobs(parts[k], new[k].rec)
                /\ IsLead(new[k].rec) => Lists(parts[k], new[k].rec)
    <3>1. PICK kind, rec : kind = KindOf[new[k].rec.source] /\ rec = new[k].rec
      OBVIOUS
    <3>2. parts[k] = ExtractAs(kind, rec).ents
      BY <2>8, <3>1
    <3>3. Jobs(ExtractAs(kind, rec).ents, rec)
      BY JobFacts
    <3>4. kind \notin {"review-feed", "reviews", "ratings"} => Lists(ExtractAs(kind, rec).ents, rec)
      BY JobFacts DEF Lists
    <3>5. IsLead(rec) => kind \notin {"review-feed", "reviews", "ratings"}
      BY <3>1 DEF IsLead
    <3> QED
      BY <3>1, <3>2, <3>3, <3>4, <3>5
  <2>11. ASSUME NEW i \in DOMAIN rows, rows[i].seq > watermark, IsLead(rows[i].rec)
         PROVE  Lists(ents, rows[i].rec)
    <3>1. rows[i] \in Range(new)
      BY <2>1, <2>11
    <3>2. PICK k \in DOMAIN new : new[k] = rows[i]
      BY <3>1 DEF Range
    <3>3. \E x \in Range(parts[k]) : x.id = JobId(rows[i].rec)
      BY <2>11, <2>20, <3>2 DEF Lists
    <3> QED
      BY <2>8, <2>10, <3>2, <3>3 DEF Lists
  <2>12. ASSUME NEW i \in DOMAIN rows, NEW x \in Range(ents), x.id = JobId(rows[i].rec)
         PROVE  Says(x.props, rows[i].rec)
    <3>1. PICK k \in DOMAIN new : x \in Range(parts[k])
      BY <2>8, <2>10
    <3>2. new[k] \in Range(new)
      BY DEF Range
    <3>3. PICK j \in DOMAIN rows : new[k] = rows[j]
      BY <2>1, <3>2
    <3>4. Own(rows[i].rec) = Own(rows[j].rec) /\ Says(x.props, rows[j].rec)
      BY <2>12, <2>20, <3>1, <3>3
    <3>5. i = j
      BY <1>5, <3>4 DEF IInv, Unique, Calm
    <3> QED
      BY <3>4, <3>5
  <2>13. Agree(ents)
    BY <2>12 DEF Agree
  <2>14. loc'[t] = there /\ Ev(t)' = Ev(t)
    BY <1>1, <1>2, <1>3, MovedTo
  <2>15. PICK v : v = Ev(t).ven /\ Ev(t)'.ven = v
    BY <2>14
  <2>16. loc'[t].pc = "advance" /\ loc'[t].ents = ents /\ loc'[t].mark = mark
    BY <1>3, <2>14
  <2>17. /\ loc'[t].mark \in watermark .. seq
         /\ \A i \in DOMAIN rows :
              /\ rows[i].seq <= loc'[t].mark
              /\ rows[i].seq > watermark =>
                   /\ rows[i].rec.ven = v
                   /\ IsLead(rows[i].rec) => Lists(loc'[t].ents, rows[i].rec)
    BY <2>1, <2>7, <2>11, <2>15, <2>16
  <2>18. Agree(loc[t].ents)'
    BY <1>1, <2>13, <2>16 DEF Agree
  <2> QED
    BY <1>1, <2>15, <2>16, <2>17, <2>18 DEF Builds, At
<1> QED
  BY <1>1, <1>4, <1>5, FollowedBuilds

\* The watermark moves past all rows; the jobs of those it passes are about to be merged.
LEMMA FollowedAdvance ==
  ASSUME IInv, Shaped, Followed, NEW t \in Threads, BuilderAdvance(t)
  PROVE  Followed'
<1>1. /\ At(t, "knowledge-builder", "advance") /\ Handling(t, "knowledge-builder")
      /\ todo[t] # <<>> /\ loc[t].pc = "advance" /\ FeedsStep(t)
      /\ UNCHANGED <<rows, graph, views, seq>> /\ watermark' = loc[t].mark
      /\ ~Handling(t, "insight-inferrer") /\ ~Handling(t, "source-scraper")
  BY DEF BuilderAdvance, At, Handling, rawVars, knowVars, FeedsStep
<1>2. Works(t)
  BY <1>1, FeedsWorks
<1> SUFFICES ASSUME Calm'
             PROVE  Sane' /\ Awaited' /\ Graphed' /\ Viewed' /\ Gathers(t)' /\ Builds(t)'
  BY <1>1, Alone
<1>3. Calm /\ Sane /\ Awaited /\ Graphed /\ Viewed /\ Builds(t)
  BY <1>1, Solo DEF Followed
<1>4. \A u \in Threads : /\ ~At(u, "knowledge-builder", "entities")
                         /\ \A v : ~Catching(u, v)
  <2>1. \A u \in Threads \ {t} : ~Ingesting(u)
    BY <1>1, Solo
  <2> QED
    BY <1>1, <2>1 DEF Catching, At, Ingesting
<1>5. PICK ents, there :
        /\ ents = loc[t].ents
        /\ there = [pc |-> "entities", ents |-> ents, edges |-> loc[t].edges]
        /\ Goto(t, there)
  BY DEF BuilderAdvance
<1>6. there.pc = "entities" /\ "pc" \in DOMAIN there /\ there.ents = ents
  BY <1>5
<1>7. /\ loc'[t] = there /\ Handling(t, "knowledge-builder")' /\ Ev(t)' = Ev(t)
  BY <1>1, <1>5, <1>6, MovedTo
<1>8. PICK ven, mark : ven = Ev(t).ven /\ Ev(t)'.ven = ven /\ mark = loc[t].mark
  BY <1>7
<1>9. /\ mark \in watermark .. seq /\ watermark \in 0 .. seq /\ seq \in Nat
      /\ \A i \in DOMAIN rows :
           /\ rows[i].seq <= mark
           /\ rows[i].seq > watermark =>
                /\ rows[i].rec.ven = ven
                /\ IsLead(rows[i].rec) => Lists(ents, rows[i].rec)
      /\ Agree(ents)
  BY <1>1, <1>3, <1>5, <1>8 DEF Builds, Sane, IInv, Typed
<1>10. /\ \A i \in DOMAIN rows : rows[i].seq \in Int
       /\ watermark \in Int /\ mark \in Int
  BY <1>9 DEF IInv, Numbered
<1>11. At(t, "knowledge-builder", "entities")' /\ Catching(t, ven)' /\ loc'[t].ents = ents
  BY <1>6, <1>7, <1>8 DEF At, Catching
<1>12. Sane'
  BY <1>1, <1>3, <1>8, <1>9 DEF Sane
<1>13. Awaited'
  BY <1>1, <1>8, <1>9, <1>10 DEF Awaited
<1>14. Graphed'
  <2> SUFFICES ASSUME NEW i \in DOMAIN rows, IsLead(rows[i].rec)
               PROVE  InGraph(rows[i].rec) \/ Lists(ents, rows[i].rec)
    BY <1>1, <1>11 DEF Graphed, InGraph
  <2> QED
    BY <1>3, <1>4, <1>9, <1>10 DEF Graphed
<1>15. Viewed'
  <2> SUFFICES ASSUME NEW i \in DOMAIN rows, IsLead(rows[i].rec)
               PROVE  \/ Company(rows[i].rec) \in DOMAIN views[rows[i].rec.ven].roles
                      \/ rows[i].rec.ven = ven
    BY <1>1, <1>11 DEF Viewed
  <2> QED
    BY <1>3, <1>4, <1>9, <1>10 DEF Viewed
<1>16. Gathers(t)'
  BY <1>7 DEF Gathers, At, Handling
<1>17. Builds(t)'
  <2>1. Agree(loc[t].ents)'
    BY <1>1, <1>9, <1>11 DEF Agree
  <2>2. loc'[t].pc = "entities" /\ \A i \in DOMAIN rows : rows[i].seq <= watermark'
    BY <1>1, <1>6, <1>7, <1>8, <1>9
  <2> QED
    BY <1>1, <2>1, <2>2 DEF Builds, At
<1> QED
  BY <1>12, <1>13, <1>14, <1>15, <1>16, <1>17

\* The entities are merged: every lead is in the graph.
LEMMA FollowedEntities ==
  ASSUME IInv, Shaped, Followed, NEW t \in Threads, UpsertEntities(t)
  PROVE  Followed'
<1>1. /\ At(t, "knowledge-builder", "entities") /\ Handling(t, "knowledge-builder")
      /\ todo[t] # <<>> /\ loc[t].pc = "entities" /\ FeedsStep(t)
      /\ UNCHANGED <<rows, watermark, views, seq>>
      /\ ~Handling(t, "insight-inferrer") /\ ~Handling(t, "source-scraper")
  BY DEF UpsertEntities, At, Handling, rawVars, FeedsStep
<1> SUFFICES ASSUME Calm'
             PROVE  Sane' /\ Awaited' /\ Graphed' /\ Viewed' /\ Gathers(t)' /\ Builds(t)'
  BY <1>1, Alone
<1>3. Calm /\ Sane /\ Awaited /\ Graphed /\ Viewed /\ Builds(t)
  BY <1>1, Solo DEF Followed
<1>4. \A u \in Threads \ {t} : ~Ingesting(u)
  BY <1>1, Solo
<1>5. PICK ents, there :
        /\ ents = loc[t].ents
        /\ there = [pc |-> "edges", edges |-> loc[t].edges]
        /\ Goto(t, there)
        /\ graph' = Merge(graph, ents)
  BY DEF UpsertEntities
<1>6. there.pc = "edges" /\ "pc" \in DOMAIN there
  BY <1>5
<1>7. /\ loc'[t] = there /\ Handling(t, "knowledge-builder")' /\ Ev(t)' = Ev(t)
  BY <1>1, <1>5, <1>6, MovedTo
<1>8. /\ \A i \in DOMAIN rows : rows[i].seq <= watermark
      /\ Agree(ents) /\ IsSeq(ents)
  BY <1>1, <1>3, <1>5, AtHand DEF Builds, Fits
<1>9. Sane'
  BY <1>1, <1>3 DEF Sane
<1>10. Awaited'
  BY <1>1, <1>3, <1>8 DEF Awaited, Sane, IInv, Typed, Numbered
<1>11. Graphed'
  <2> SUFFICES ASSUME NEW i \in DOMAIN rows, IsLead(rows[i].rec)
               PROVE  InGraph(rows[i].rec)'
    BY <1>1 DEF Graphed
  <2>1. PICK rec, j : rec = rows[i].rec /\ j = JobId(rec)
    OBVIOUS
  <2>2. InGraph(rec) \/ Lists(ents, rec)
    BY <1>3, <1>4, <1>5, <1>8, <2>1 DEF Graphed, At, Ingesting
  <2>3. (\E x \in Range(ents) : x.id = j) \/ (j \in DOMAIN graph /\ Says(graph[j], rec))
    BY <2>1, <2>2 DEF InGraph, Lists
  <2>4. \A x \in Range(ents) : x.id = j => Says(x.props, rec)
    BY <1>8, <2>1 DEF Agree
  <2>5. j \in DOMAIN graph' /\ Says(graph'[j], rec)
    BY <1>5, <1>8, <2>3, <2>4, Merged
  <2> QED
    BY <1>1, <2>1, <2>5 DEF InGraph
<1>12. Viewed'
  <2>1. \A v : Catching(t, v) => Catching(t, v)'
    BY <1>6, <1>7 DEF Catching, At
  <2>2. \A u \in Threads \ {t} : \A v : ~Catching(u, v)
    BY <1>4 DEF Catching, At, Ingesting
  <2> QED
    BY <1>1, <1>3, <2>1, <2>2, ViewedStays
<1>13. Gathers(t)'
  BY <1>7 DEF Gathers, At, Handling
<1>14. Builds(t)'
  BY <1>1, <1>6, <1>7, <1>8 DEF Builds, At
<1> QED
  BY <1>9, <1>10, <1>11, <1>12, <1>13, <1>14

\* The edges are added: nothing that is followed changes.
LEMMA FollowedEdges ==
  ASSUME IInv, Shaped, Followed, NEW t \in Threads, UpsertEdges(t)
  PROVE  Followed'
<1>1. /\ At(t, "knowledge-builder", "edges") /\ Handling(t, "knowledge-builder")
      /\ todo[t] # <<>> /\ loc[t].pc = "edges" /\ FeedsStep(t)
      /\ UNCHANGED <<rows, watermark, graph, views, seq>>
      /\ ~At(t, "knowledge-builder", "entities")
      /\ Goto(t, [pc |-> "rollup"])
  BY DEF UpsertEdges, At, Handling, rawVars, FeedsStep
<1>2. /\ loc'[t] = [pc |-> "rollup"] /\ Handling(t, "knowledge-builder")' /\ Ev(t)' = Ev(t)
      /\ ~Returns(t)
  BY <1>1, MovedTo, NoReturn
<1>3. \A v : Catching(t, v) => Catching(t, v)'
  BY <1>2 DEF Catching, At
<1>4. ASSUME Calm
      PROVE  Builds(t)'
  <2>1. \A i \in DOMAIN rows : rows[i].seq <= watermark
    BY <1>1, <1>4 DEF Followed, Builds
  <2> QED
    BY <1>1, <1>2, <2>1 DEF Builds, At
<1> QED
  BY <1>1, <1>2, <1>3, <1>4, FollowedBuilds

\* The rollups are computed: they show every lead of the venture.
LEMMA FollowedRollUp ==
  ASSUME IInv, Shaped, Followed, NEW t \in Threads, RollUp(t)
  PROVE  Followed'
<1>1. /\ At(t, "knowledge-builder", "rollup") /\ Handling(t, "knowledge-builder")
      /\ todo[t] # <<>> /\ loc[t].pc = "rollup" /\ FeedsStep(t)
      /\ UNCHANGED <<rows, watermark, graph, views, seq, overlapped, strayed>>
      /\ ~At(t, "knowledge-builder", "entities") /\ ~Handling(t, "insight-inferrer")
  BY DEF RollUp, At, Handling, feedVars, FeedsStep
<1>2. PICK ven, shown, there :
        /\ ven = Ev(t).ven
        /\ shown = RollUps(ven)
        /\ there = [pc |-> "refresh", views |-> shown]
        /\ Goto(t, there)
  BY DEF RollUp
<1>3. there.pc = "refresh" /\ "pc" \in DOMAIN there /\ there.views = shown
  BY <1>2
<1>4. /\ loc'[t] = there /\ Handling(t, "knowledge-builder")' /\ Ev(t)' = Ev(t)
      /\ ~Returns(t)
  BY <1>1, <1>2, <1>3, MovedTo, NoReturn
<1>5. \A v : Catching(t, v) => Catching(t, v)'
  BY <1>3, <1>4 DEF Catching, At
<1>6. ASSUME Calm, Calm'
      PROVE  Builds(t)'
  <2>1. \A i \in DOMAIN rows : rows[i].seq <= watermark
    BY <1>1, <1>6 DEF Followed, Builds
  <2>2. \A u \in Threads : ~At(u, "knowledge-builder", "entities")
    BY <1>1, <1>6, Solo DEF At, Ingesting
  <2>3. ASSUME NEW i \in DOMAIN rows, IsLead(rows[i].rec), rows[i].rec.ven = ven
        PROVE  Company(rows[i].rec) \in DOMAIN shown.roles
    <3>1. PICK rec, j : rec = rows[i].rec /\ j = JobId(rec)
      OBVIOUS
    <3>2. j \in DOMAIN graph /\ Says(graph[j], rec)
      BY <1>6, <2>1, <2>2, <2>3, <3>1 DEF Followed, Graphed, InGraph
    <3>3. j = <<ven, "Job", Own(rec)>>
      BY <2>3, <3>1 DEF JobId, Id
    <3>4. j \in OfType(graph, ven, "Job")
      BY <3>2, <3>3 DEF OfType
    <3>5. CompanyOf(graph, j) = Company(rec)
      BY <2>3, <3>1, <3>2 DEF CompanyOf, Or, Says, IsLead
    <3>6. DOMAIN OpenRoles(graph, ven) =
            {CompanyOf(graph, k) : k \in OfType(graph, ven, "Job")}
      BY DEF OpenRoles
    <3>7. shown.roles = OpenRoles(graph, ven)
      BY <1>2 DEF RollUps
    <3> QED
      BY <3>1, <3>4, <3>5, <3>6, <3>7
  <2>4. PICK v : v = Ev(t)'.ven /\ v = ven
    BY <1>2, <1>4
  <2>5. /\ loc'[t].pc = "refresh"
        /\ \A i \in DOMAIN rows : IsLead(rows[i].rec) /\ rows[i].rec.ven = v =>
             Company(rows[i].rec) \in DOMAIN loc'[t].views.roles
    BY <1>3, <1>4, <2>3, <2>4
  <2> QED
    BY <1>1, <2>1, <2>4, <2>5 DEF Builds, At
<1> QED
  BY <1>1, <1>4, <1>5, <1>6, FollowedBuilds

\* The views are stored: they show every lead of the venture.
LEMMA FollowedRefresh ==
  ASSUME IInv, Shaped, Followed, NEW t \in Threads, Refresh(t)
  PROVE  Followed'
<1>1. /\ At(t, "knowledge-builder", "refresh") /\ Handling(t, "knowledge-builder")
      /\ todo[t] # <<>> /\ loc[t].pc = "refresh" /\ FeedsStep(t)
      /\ UNCHANGED <<rows, watermark, graph, seq>>
      /\ ~Handling(t, "insight-inferrer") /\ ~Handling(t, "source-scraper")
  BY DEF Refresh, At, Handling, rawVars, FeedsStep
<1> SUFFICES ASSUME Calm'
             PROVE  Sane' /\ Awaited' /\ Graphed' /\ Viewed' /\ Gathers(t)' /\ Builds(t)'
  BY <1>1, Alone
<1>2. Calm /\ Sane /\ Awaited /\ Graphed /\ Viewed /\ Builds(t)
  BY <1>1, Solo DEF Followed
<1>3. \A u \in Threads \ {t} : ~Ingesting(u)
  BY <1>1, Solo
<1>4. PICK ven, shown : /\ ven = Ev(t).ven /\ shown = loc[t].views
                        /\ views' = [views EXCEPT ![ven] = shown]
  BY DEF Refresh
<1>5. loc'[t] = Start
  BY <1>1, Leaving DEF Refresh, Leaves
<1>6. \A i \in DOMAIN rows : rows[i].seq <= watermark
  BY <1>1, <1>2 DEF Builds
<1>7. Sane'
  BY <1>1, <1>2 DEF Sane
<1>8. Awaited'
  BY <1>1, <1>2, <1>6 DEF Awaited, Sane, IInv, Typed, Numbered
<1>9. \A u \in Threads : ~At(u, "knowledge-builder", "entities")
  BY <1>1, <1>3 DEF At, Ingesting
<1>10. Graphed'
  BY <1>1, <1>2, <1>9, GraphedStays
<1>11. Viewed'
  <2> SUFFICES ASSUME NEW i \in DOMAIN rows, IsLead(rows[i].rec)
               PROVE  Company(rows[i].rec) \in DOMAIN views'[rows[i].rec.ven].roles
    BY <1>1 DEF Viewed
  <2>1. rows[i].rec.ven \in Ventures /\ DOMAIN views = Ventures
    BY <1>2 DEF Sane, Shaped, Finite
  <2>2. CASE rows[i].rec.ven = ven
    <3>1. Company(rows[i].rec) \in DOMAIN shown.roles
      BY <1>1, <1>2, <1>4, <2>2 DEF Builds
    <3> QED
      BY <1>4, <2>1, <2>2, <3>1
  <2>3. CASE rows[i].rec.ven # ven
    <3>1. \A u \in Threads : ~Catching(u, rows[i].rec.ven)
      BY <1>3, <1>4, <2>3 DEF Catching, At, Ingesting
    <3>2. Company(rows[i].rec) \in DOMAIN views[rows[i].rec.ven].roles
      BY <1>2, <1>6, <3>1 DEF Viewed
    <3> QED
      BY <1>4, <2>1, <2>3, <3>2
  <2> QED
    BY <2>2, <2>3
<1>12. Gathers(t)' /\ Builds(t)'
  <2>1. ~Ingesting(t)'
    BY <1>5 DEF Ingesting, Start
  <2> QED
    BY <2>1, Errandless
<1> QED
  BY <1>7, <1>8, <1>10, <1>11, <1>12

\* Every other step leaves all that is followed where it is.
LEMMA FollowedElsewhere ==
  ASSUME IInv, Shaped, Followed, NEW t \in Threads, UNCHANGED feedVars,
         \/ /\ Works(t)
            /\ ~Handling(t, "source-scraper") /\ ~Handling(t, "knowledge-builder")
         \/ Publish(t) \/ Reset(t) \/ Reply(t)
  PROVE  Followed'
<1>1. UNCHANGED <<rows, seq, watermark, graph, views, overlapped, strayed>>
  BY DEF feedVars
<1>2. /\ ~Handling(t, "source-scraper") /\ ~Handling(t, "knowledge-builder")
      /\ Works(t) \/ Publish(t) \/ Reset(t) \/ Reply(t)
  BY OthersStay DEF Handling
<1> SUFFICES ASSUME Calm
             PROVE  /\ Sane' /\ Awaited' /\ Graphed' /\ Viewed'
                    /\ \A u \in Threads : Gathers(u)' /\ Builds(u)'
  BY <1>1 DEF Followed, Calm
<1>3. /\ Sane /\ Awaited /\ Graphed /\ Viewed
      /\ \A u \in Threads : Gathers(u) /\ Builds(u)
  BY DEF Followed
<1>4. Sane'
  BY <1>1, <1>3 DEF Sane
<1>5. Awaited'
  <2> SUFFICES ASSUME NEW i \in DOMAIN rows, rows[i].seq > watermark
               PROVE  Promised(rows[i].rec.ven)'
    BY <1>1 DEF Awaited
  <2>1. PICK v : v = rows[i].rec.ven
    OBVIOUS
  <2>2. Promised(v)
    BY <1>3, <2>1 DEF Awaited
  <2>3. Promised(v)'
    BY <1>2, <2>2, PromisedStays DEF Gathering
  <2> QED
    BY <1>1, <2>1, <2>3
<1>6. Graphed' /\ Viewed'
  BY <1>1, <1>2, <1>3, CatchingStays, GraphedStays, ViewedStays
<1>7. \A node \in {"source-scraper", "knowledge-builder"} : \A pc : pc # "start" =>
        \A u \in Threads : At(u, node, pc)' =>
          At(u, node, pc) /\ loc'[u] = loc[u] /\ todo'[u] = todo[u]
  BY <1>2, AtElsewhere
<1>8. ASSUME NEW u \in Threads
      PROVE  Gathers(u)' /\ Builds(u)'
  <2>1. \A pc : pc # "start" /\ At(u, "source-scraper", pc)' =>
          At(u, "source-scraper", pc) /\ loc'[u] = loc[u] /\ Ev(u)' = Ev(u)
    BY <1>7 DEF Ev
  <2>2. \A pc : pc # "start" /\ At(u, "knowledge-builder", pc)' =>
          At(u, "knowledge-builder", pc) /\ loc'[u] = loc[u] /\ Ev(u)' = Ev(u)
    BY <1>7 DEF Ev
  <2>3. Gathers(u)'
    BY <1>1, <1>3, <2>1 DEF Gathers
  <2>4. Builds(u)'
    BY <1>1, <1>3, <2>2 DEF Builds, Agree
  <2> QED
    BY <2>3, <2>4
<1> QED
  BY <1>4, <1>5, <1>6, <1>8

\* No step of any thread loses sight of a lead.
LEMMA FollowedStep == IInv /\ Shaped /\ Followed /\ [Next]_vars => Followed'
<1> SUFFICES ASSUME IInv, Shaped, Followed, [Next]_vars
             PROVE  Followed'
  OBVIOUS
<1>1. CASE UNCHANGED vars
  <2>1. UNCHANGED <<todo, loc, dropped, rows, seq, watermark, graph, views, overlapped, strayed>>
    BY <1>1 DEF vars, requestVars, feedVars
  <2>2. /\ \A u, node, pc : At(u, node, pc)' <=> At(u, node, pc)
        /\ \A u : Ev(u)' = Ev(u)
        /\ \A u, v : /\ Gathering(u, v)' <=> Gathering(u, v)
                     /\ Catching(u, v)' <=> Catching(u, v)
    BY <2>1 DEF At, Handling, Ev, Gathering, Catching
  <2>3. /\ (Calm' <=> Calm) /\ (Sane' <=> Sane)
        /\ \A rec : InGraph(rec)' <=> InGraph(rec)
    BY <2>1 DEF Calm, Sane, InGraph
  <2>4. Awaited => Awaited'
    BY <2>1, <2>2 DEF Awaited, Promised, Gone
  <2>5. (Graphed => Graphed') /\ (Viewed => Viewed')
    BY <2>1, <2>2, GraphedStays, ViewedStays
  <2>6. \A u \in Threads : (Gathers(u) => Gathers(u)') /\ (Builds(u) => Builds(u)')
    BY <2>1, <2>2 DEF Gathers, Builds, Agree
  <2> QED
    BY <2>3, <2>4, <2>5, <2>6 DEF Followed
<1>2. ASSUME NEW t \in Threads, Step(t)
      PROVE  Followed'
  <2>1. CASE (Publish(t) \/ Reset(t) \/ Reply(t)) /\ UNCHANGED feedVars
    BY <2>1, FollowedElsewhere
  <2>2. CASE (TrackingStep(t) \/ BillingStep(t)) /\ UNCHANGED feedVars
    <3>1. Works(t)
      BY <2>2, TrackingWorks, BillingWorks
    <3>2. ~Handling(t, "source-scraper") /\ ~Handling(t, "knowledge-builder")
      BY <2>2, NodesOf DEF Handling, Stateless
    <3> QED
      BY <2>2, <3>1, <3>2, FollowedElsewhere
  <2>3. CASE FeedsStep(t)
    <3>1. CASE Infer(t) \/ InferFails(t)
      <4>1. Handling(t, "insight-inferrer") /\ UNCHANGED feedVars
        BY <3>1 DEF Infer, InferFails, At
      <4>2. Works(t) /\ ~Handling(t, "source-scraper") /\ ~Handling(t, "knowledge-builder")
        BY <2>3, <4>1, FeedsWorks DEF Handling
      <4> QED
        BY <4>1, <4>2, FollowedElsewhere
    <3>2. CASE ScrapeStart(t)
      BY <3>2, FollowedStart
    <3>3. CASE Fetch(t)
      BY <3>3, FollowedFetch
    <3>4. CASE FetchFails(t)
      BY <3>4, FollowedFetchFails
    <3>5. CASE Claim(t)
      BY <3>5, FollowedClaim
    <3>6. CASE Store(t)
      BY <3>6, FollowedStore
    <3>7. CASE SourceDone(t)
      BY <3>7, FollowedSourceDone
    <3>8. CASE BuilderRead(t)
      BY <3>8, FollowedRead
    <3>9. CASE BuilderExtract(t)
      BY <3>9, FollowedExtract
    <3>10. CASE BuilderAdvance(t)
      BY <3>10, FollowedAdvance
    <3>11. CASE UpsertEntities(t)
      BY <3>11, FollowedEntities
    <3>12. CASE UpsertEdges(t)
      BY <3>12, FollowedEdges
    <3>13. CASE RollUp(t)
      BY <3>13, FollowedRollUp
    <3>14. CASE Refresh(t)
      BY <3>14, FollowedRefresh
    <3> QED
      BY <2>3, <3>1, <3>2, <3>3, <3>4, <3>5, <3>6, <3>7, <3>8, <3>9, <3>10, <3>11, <3>12,
         <3>13, <3>14 DEF FeedsStep
  <2> QED
    BY <1>2, <2>1, <2>2, <2>3 DEF Step
<1> QED
  BY <1>1, <1>2 DEF Next

-----------------------------------------------------------------------------
\* The way of a company from the views to the founder, but for the step that takes up
\* its event.
LEMMA SentStays ==
  ASSUME IInv, Shaped, NEW t \in Threads, Works(t) \/ Publish(t) \/ Reset(t) \/ Reply(t),
         told \subseteq told', NEW v, NEW c,
         Gone(v) \/ ToldOf(v, c) \/ \E u \in Threads : \E d \in Range(todo[u]) : Telling(d, v, c)
  PROVE  \/ Gone(v)' \/ ToldOf(v, c)'
         \/ \E u \in Threads : \E d \in Range(todo'[u]) : Telling(d, v, c)
         \/ Returns(t) /\ todo[t] # <<>> /\ Telling(Head(todo[t]), v, c)
<1>1. /\ dropped \subseteq dropped'
      /\ \A u \in Threads : \A d \in Range(todo[u]) :
           \/ d \in Range(todo'[u])
           \/ d \in dropped'
           \/ u = t /\ d = Head(todo[t]) /\ Returns(t)
  BY DeliveriesKept
<1>2. CASE Gone(v) \/ ToldOf(v, c)
  BY <1>1, <1>2 DEF Gone, ToldOf
<1>3. ASSUME NEW u \in Threads, NEW d \in Range(todo[u]), Telling(d, v, c)
      PROVE  \/ Gone(v)'
             \/ \E w \in Threads : \E e \in Range(todo'[w]) : Telling(e, v, c)
             \/ Returns(t) /\ todo[t] # <<>> /\ Telling(Head(todo[t]), v, c)
  <2>1. CASE d \in Range(todo'[u])
    BY <1>3, <2>1
  <2>2. CASE d \in dropped'
    BY <1>3, <2>2 DEF Telling, Gone
  <2>3. CASE u = t /\ d = Head(todo[t]) /\ Returns(t)
    <3>1. todo[t] # <<>>
      BY <2>3, Short
    <3> QED
      BY <1>3, <2>3, <3>1
  <2> QED
    BY <1>1, <2>1, <2>2, <2>3
<1> QED
  BY <1>2, <1>3

\* A step that shows no new company, and takes up no event of one.
LEMMA SentQuiet ==
  ASSUME IInv, Shaped, Sent, NEW t \in Threads, Works(t) \/ Publish(t) \/ Reset(t) \/ Reply(t),
         told \subseteq told', views' = views,
         \/ ~Returns(t)
         \/ ~Handling(t, "insight-inferrer") /\ ~Handling(t, "founder-notifier")
  PROVE  Sent'
<1> SUFFICES ASSUME NEW v \in Ventures, NEW c \in Leading(v)
             PROVE  \/ Gone(v)' \/ ToldOf(v, c)'
                    \/ \E u \in Threads : \E d \in Range(todo'[u]) : Telling(d, v, c)
  BY DEF Sent, Leading
<1>1. ~(Returns(t) /\ todo[t] # <<>> /\ Telling(Head(todo[t]), v, c))
  BY DEF Telling, Handling
<1>2. Gone(v) \/ ToldOf(v, c) \/ \E u \in Threads : \E d \in Range(todo[u]) : Telling(d, v, c)
  BY DEF Sent
<1> QED
  BY <1>1, <1>2, SentStays

\* founder-notifier mails what it is sent.
LEMMA SentMails ==
  ASSUME IInv, Shaped, Sent, NEW t \in Threads, NotifierMails(t), views' = views
  PROVE  Sent'
<1>1. /\ Handling(t, "founder-notifier")
      /\ told' = told \cup {[ven |-> Ev(t).ven, type |-> Ev(t).type, about |-> Ev(t).about,
                             says |-> Ev(t).says, via |-> "mail"]}
  BY DEF NotifierMails, At, Handling, Send
<1>2. Works(t)
  BY TrackingWorks DEF TrackingStep
<1> SUFFICES ASSUME NEW v \in Ventures, NEW c \in Leading(v)
             PROVE  \/ Gone(v)' \/ ToldOf(v, c)'
                    \/ \E u \in Threads : \E d \in Range(todo'[u]) : Telling(d, v, c)
  BY DEF Sent, Leading
<1>3. CASE todo[t] # <<>> /\ Telling(Head(todo[t]), v, c)
  <2>1. Ev(t).ven = v /\ Ev(t).type = "signal.verdict" /\ Ev(t).about = c
    BY <1>1, <1>3 DEF Telling, Handling, Ev
  <2>2. PICK m : m = [ven |-> Ev(t).ven, type |-> Ev(t).type, about |-> Ev(t).about,
                      says |-> Ev(t).says, via |-> "mail"]
    OBVIOUS
  <2>3. /\ m \in told' /\ m.ven = v /\ m.type = "signal.verdict"
        /\ m.about = c /\ m.via = "mail"
    BY <1>1, <2>1, <2>2
  <2> QED
    BY <2>3 DEF ToldOf
<1>4. CASE ~(todo[t] # <<>> /\ Telling(Head(todo[t]), v, c))
  <2>1. Gone(v) \/ ToldOf(v, c) \/ \E u \in Threads : \E d \in Range(todo[u]) : Telling(d, v, c)
    BY DEF Sent
  <2> QED
    BY <1>1, <1>2, <1>4, <2>1, SentStays
<1> QED
  BY <1>3, <1>4

\* insight-inferrer sends a verdict on every company of the views.
LEMMA SentInfers ==
  ASSUME IInv, Shaped, Sent, NEW t \in Threads, Infer(t), told' = told
  PROVE  Sent'
<1>1. /\ Handling(t, "insight-inferrer") /\ todo[t] # <<>> /\ views' = views
      /\ FeedsStep(t) /\ Ev(t).ven \in Ventures
  BY AtHand DEF Infer, At, Handling, feedVars, FeedsStep, Welcome
<1>2. Works(t)
  BY <1>1, FeedsWorks
<1> SUFFICES ASSUME NEW v \in Ventures, NEW c \in Leading(v)
             PROVE  \/ Gone(v)' \/ ToldOf(v, c)'
                    \/ \E u \in Threads : \E d \in Range(todo'[u]) : Telling(d, v, c)
  BY <1>1 DEF Sent, Leading
<1>3. CASE Ev(t).ven = v
  <2>1. PICK outs : outs = Insights(v) /\ Finish(t, outs)
    BY <1>3 DEF Infer
  <2>2. /\ IsSeq(outs)
        /\ Range(Verdict(c, "lead_opportunity")) \subseteq Range(outs)
    BY <2>1, InsightsFacts DEF Shaped
  <2>3. PICK x, o : /\ x = Out("market.insight", c, "lead_opportunity")
                    /\ o = [Out("signal.verdict", c, "strong") EXCEPT !.urgent = TRUE]
    OBVIOUS
  <2>4. o.type = "signal.verdict" /\ o.about = c
    BY <2>3 DEF Out
  <2>5. Range(Verdict(c, "lead_opportunity")) = {x, o}
    BY <2>3, Short DEF Verdict
  <2>6. "founder-notifier" \in Range(Roster) /\ o.type \in ReactsTo("founder-notifier")
    BY <2>4, RosterFacts DEF ReactsTo
  <2>7. PICK d \in Range(todo'[t]) : /\ d.node = "founder-notifier" /\ d.ev.ven = Ev(t).ven
                                     /\ d.ev.type = o.type /\ d.ev.about = o.about
    BY <1>1, <2>1, <2>2, <2>5, <2>6, Heard
  <2> QED
    BY <1>3, <2>4, <2>7 DEF Telling
<1>4. CASE Ev(t).ven # v
  <2>1. ~Telling(Head(todo[t]), v, c)
    BY <1>4 DEF Telling, Ev
  <2>2. Gone(v) \/ ToldOf(v, c) \/ \E u \in Threads : \E d \in Range(todo[u]) : Telling(d, v, c)
    BY DEF Sent
  <2> QED
    BY <1>2, <2>1, <2>2, SentStays
<1> QED
  BY <1>3, <1>4

\* When knowledge-builder has refreshed the views insight-inferrer hears of it.
LEMMA SentRefreshes ==
  ASSUME IInv, Shaped, Sent, NEW t \in Threads, Refresh(t), told' = told
  PROVE  Sent'
<1>1. /\ Handling(t, "knowledge-builder") /\ todo[t] # <<>> /\ FeedsStep(t)
      /\ views' = [views EXCEPT ![Ev(t).ven] = loc[t].views]
      /\ DOMAIN views = Ventures
  BY DEF Refresh, At, Handling, FeedsStep, Shaped, Finite
<1>2. Works(t)
  BY <1>1, FeedsWorks
<1> SUFFICES ASSUME NEW v \in Ventures, NEW c, c \in Leading(v)'
             PROVE  \/ Gone(v)' \/ ToldOf(v, c)'
                    \/ \E u \in Threads : \E d \in Range(todo'[u]) : Telling(d, v, c)
  BY DEF Sent
<1>3. CASE Ev(t).ven = v
  <2>1. PICK o, outs : o = Out("knowledge.updated", "", "") /\ outs = <<o>> /\ Finish(t, outs)
    BY DEF Refresh
  <2>2. IsSeq(outs) /\ o \in Range(outs) /\ o.type = "knowledge.updated" /\ Finish(t, outs)
    BY <2>1, Short DEF Out
  <2>3. "insight-inferrer" \in Range(Roster) /\ o.type \in ReactsTo("insight-inferrer")
    BY <2>2, RosterFacts DEF ReactsTo
  <2>4. PICK d \in Range(todo'[t]) : d.node = "insight-inferrer" /\ d.ev.ven = Ev(t).ven
    BY <1>1, <2>2, <2>3, Heard
  <2> QED
    BY <1>3, <2>4 DEF Telling
<1>4. CASE Ev(t).ven # v
  <2>1. c \in Leading(v)
    BY <1>1, <1>4 DEF Leading
  <2>2. ~Telling(Head(todo[t]), v, c)
    BY <1>4 DEF Telling, Ev
  <2>3. Gone(v) \/ ToldOf(v, c) \/ \E u \in Threads : \E d \in Range(todo[u]) : Telling(d, v, c)
    BY <2>1 DEF Sent
  <2> QED
    BY <1>2, <2>2, <2>3, SentStays
<1> QED
  BY <1>3, <1>4

\* No step loses sight of a company in the views.
LEMMA SentStep == IInv /\ Shaped /\ Sent /\ [Next]_vars => Sent'
<1> SUFFICES ASSUME IInv, Shaped, Sent, [Next]_vars
             PROVE  Sent'
  OBVIOUS
<1>1. CASE UNCHANGED vars
  BY <1>1 DEF vars, requestVars, trackingVars, feedVars, Sent, Leading, Gone, ToldOf
<1>2. ASSUME NEW t \in Threads, Step(t)
      PROVE  Sent'
  <2>1. Works(t) \/ Publish(t) \/ Reset(t) \/ Reply(t)
    BY <1>2, TrackingWorks, BillingWorks, FeedsWorks DEF Step
  <2>2. CASE (Publish(t) \/ Reset(t) \/ Reply(t)) /\ UNCHANGED <<trackingVars, feedVars>>
    <3>1. ~Handling(t, "insight-inferrer") /\ ~Handling(t, "founder-notifier")
      BY <2>2, OthersStay DEF Handling
    <3>2. told' = told /\ views' = views
      BY <2>2 DEF trackingVars, feedVars
    <3> QED
      BY <2>1, <3>1, <3>2, SentQuiet
  <2>3. CASE BillingStep(t) /\ UNCHANGED <<trackingVars, feedVars>>
    <3>1. ~Handling(t, "insight-inferrer") /\ ~Handling(t, "founder-notifier")
      BY <2>3, NodesOf DEF Handling
    <3>2. told' = told /\ views' = views
      BY <2>3 DEF trackingVars, feedVars
    <3> QED
      BY <2>1, <3>1, <3>2, SentQuiet
  <2>4. CASE TrackingStep(t) /\ UNCHANGED feedVars
    <3>1. views' = views
      BY <2>4 DEF feedVars
    <3>2. CASE NotifierMails(t)
      BY <3>1, <3>2, SentMails
    <3>3. CASE NotifierPosts(t) \/ NotifierFails(t)
      <4>1. todo[t] # <<>> /\ told \subseteq told'
        BY <3>3 DEF NotifierPosts, NotifierFails, At, Handling, Send, trackingVars
      <4>2. Raise(t) \/ Goto(t, [pc |-> "mail"])
        BY <3>3 DEF NotifierPosts, NotifierFails
      <4>3. ~Returns(t)
        <5>1. PICK there : there = [pc |-> "mail"]
          OBVIOUS
        <5>2. there.pc # "start"
          BY <5>1
        <5> QED
          BY <4>1, <4>2, <5>1, <5>2, NoReturn
      <4> QED
        BY <2>1, <3>1, <4>1, <4>3, SentQuiet
    <3>4. CASE React(t) \/ ReactFails(t) \/ TrackerIgnores(t) \/ TrackerWrites(t)
               \/ TrackerAnnounces(t)
      <4>1. told' = told
        BY <3>4 DEF React, ReactFails, TrackerIgnores, TrackerWrites, TrackerAnnounces,
                    trackingVars
      <4>2. ~Handling(t, "insight-inferrer") /\ ~Handling(t, "founder-notifier")
        BY <3>4 DEF React, ReactFails, TrackerIgnores, TrackerWrites, TrackerAnnounces,
                    At, Handling, Stateless
      <4> QED
        BY <2>1, <3>1, <4>1, <4>2, SentQuiet
    <3> QED
      BY <2>4, <3>2, <3>3, <3>4 DEF TrackingStep
  <2>5. CASE FeedsStep(t) /\ UNCHANGED trackingVars
    <3>1. told' = told
      BY <2>5 DEF trackingVars
    <3>2. CASE Infer(t)
      BY <3>1, <3>2, SentInfers
    <3>3. CASE Refresh(t)
      BY <3>1, <3>3, SentRefreshes
    <3>4. CASE InferFails(t)
      <4>1. todo[t] # <<>> /\ Raise(t) /\ views' = views
        BY <3>4 DEF InferFails, At, Handling, feedVars
      <4>2. ~Returns(t)
        BY <4>1, NoReturn
      <4> QED
        BY <2>1, <3>1, <4>1, <4>2, SentQuiet
    <3>5. CASE ~Infer(t) /\ ~InferFails(t) /\ ~Refresh(t)
      <4>1. /\ views' = views
            /\ ~Handling(t, "insight-inferrer") /\ ~Handling(t, "founder-notifier")
        BY <2>5, <3>5 DEF FeedsStep, ScrapeStart, Fetch, FetchFails, Claim, Store, SourceDone,
             BuilderRead, BuilderExtract, BuilderAdvance, UpsertEntities, UpsertEdges, RollUp,
             At, Handling, knowVars, feedVars
      <4> QED
        BY <2>1, <3>1, <4>1, SentQuiet
    <3> QED
      BY <3>2, <3>3, <3>4, <3>5
  <2> QED
    BY <1>2, <2>2, <2>3, <2>4, <2>5 DEF Step
<1> QED
  BY <1>1, <1>2 DEF Next

\* At first there is nothing to follow and nobody to tell of.
LEMMA FollowedInit == Init => Followed /\ Sent
<1> SUFFICES ASSUME Init
             PROVE  Followed /\ Sent
  OBVIOUS
<1>1. /\ rows = <<>> /\ seq = 0 /\ watermark = 0 /\ views = [v \in Ventures |-> NoViews]
      /\ todo = [t \in Threads |-> <<>>]
  BY DEF Init, RequestsInit, FeedsInit
<1>2. DOMAIN rows = {} /\ \A t \in Threads : \A n : ~Handling(t, n)
  BY <1>1 DEF Handling
<1>3. Sane /\ Awaited /\ Graphed /\ Viewed
  BY <1>1, <1>2 DEF Sane, Awaited, Graphed, Viewed
<1>4. \A t \in Threads : Gathers(t) /\ Builds(t)
  BY <1>2 DEF Gathers, Builds, At
<1>5. \A v \in Ventures : Leading(v) = {}
  <2>1. \A v \in Ventures : DOMAIN views[v].roles = {}
    BY <1>1 DEF NoViews
  <2>2. \A S : S = {} => Found(S) = {}
    BY DEF Found
  <2> QED
    BY <2>1, <2>2 DEF Leading
<1> QED
  BY <1>3, <1>4, <1>5 DEF Followed, Sent

\* At rest the founder was sent a verdict on every company whose job the raw store holds
\* and whose name has no apostrophe, unless a run of the venture raised, two threads were
\* in the ingestion nodes at once, or a builder took the rows of one venture for another
\* (source_scraper.py, knowledge_builder.py, insight_inferrer.py and founder_notifier.py
\* handle, registry.py _companies_after).
THEOREM SafeEveryLeadTold == Spec => []EveryLeadTold
<1>1. IInv /\ Shaped /\ Followed /\ Sent => EveryLeadTold
  <2> SUFFICES ASSUME IInv, Shaped, Followed, Sent, AtRest, Calm, NEW i \in DOMAIN rows
               PROVE  LET rec == rows[i].rec
                      IN \/ Company(rec) \in {"", "(unknown)"}
                         \/ KindOf[rec.source] \in {"review-feed", "reviews", "ratings"}
                         \/ Gone(rec.ven)
                         \/ Company(rec) \in Quoted
                         \/ ToldOf(rec.ven, ReadOff(Company(rec)))
    BY DEF EveryLeadTold, Excused, MailedOn, Calm, Gone, ToldOf
  <2>1. PICK rec, c, v : rec = rows[i].rec /\ c = Company(rec) /\ v = rec.ven
    OBVIOUS
  <2>2. /\ \A t \in Threads : todo[t] = <<>> /\ Range(todo[t]) = {}
        /\ \A t \in Threads : \A n : ~Handling(t, n)
    BY Resting, Short DEF Handling
  <2>3. Sane /\ Awaited /\ Viewed /\ v \in Ventures
    BY <2>1 DEF Followed, Sane
  <2>4. CASE rows[i].seq > watermark
    <3>1. Promised(v)
      BY <2>1, <2>3, <2>4 DEF Awaited
    <3>2. Gone(v)
      BY <2>2, <3>1 DEF Promised, Gathering
    <3> QED
      BY <2>1, <3>2
  <2>5. CASE ~(rows[i].seq > watermark) /\ IsLead(rec) /\ c \notin Quoted
    <3>1. rows[i].seq <= watermark
      BY <2>3, <2>5 DEF Sane, IInv, Typed, Numbered
    <3>2. c \in DOMAIN views[v].roles
      BY <2>1, <2>2, <2>3, <2>5, <3>1 DEF Viewed, Catching, At
    <3>3. PICK read : read = ReadOff(c)
      OBVIOUS
    <3>4. read \notin {"", "(unknown)"}
      BY <2>1, <2>5, <3>3, ReprAssumption DEF ReadOff, IsLead
    <3>5. read \in Leading(v)
      BY <2>5, <3>2, <3>3, <3>4 DEF Leading, Found
    <3>6. Gone(v) \/ ToldOf(v, read)
      BY <2>2, <2>3, <3>5 DEF Sent
    <3> QED
      BY <2>1, <3>3, <3>6
  <2>6. CASE ~IsLead(rec) \/ c \in Quoted
    BY <2>1, <2>6 DEF IsLead
  <2> QED
    BY <2>4, <2>5, <2>6
<1> QED
  BY InvInit, InvStep, ShapedInit, ShapedStep, FollowedInit, FollowedStep, SentStep, <1>1,
     PTL DEF Spec
=============================================================================
