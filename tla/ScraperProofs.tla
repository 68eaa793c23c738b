---------------------------- MODULE ScraperProofs ----------------------------
(***************************************************************************)
(* Proofs about Scraper, for any sources, records, shapes and threads: the *)
(* types, that a cached plan fits the fingerprint beside it, and, for      *)
(* orderly sources, that a saved cursor hides nothing that is not stored.  *)
(***************************************************************************)
EXTENDS Scraper, SequenceTheorems, FiniteSetTheorems, WellFoundedInduction, TLAPS

USE RecordsAssumption, SourcesAssumption, PlansAssumption, BoundsAssumption
-----------------------------------------------------------------------------
(***************************************************************************)
(* Numbers, queues and cursors.                                            *)
(***************************************************************************)
\* A set of numbers with a member has a least one.
LEMMA Least ==
  ASSUME NEW T \in SUBSET Nat, T # {}
  PROVE  \E m \in T : \A k \in T : m <= k
<1>1. IsWellFoundedOn({ss \in Nat \X Nat : ss[1] < ss[2]}, Nat)
  BY NatLessThanWellFounded DEF OpToRel
<1>2. PICK m \in T : \A k \in T : ~ (<<k, m>> \in {ss \in Nat \X Nat : ss[1] < ss[2]})
  BY <1>1, WFMin
<1>3. \A k \in T : ~ (k < m)
  BY <1>2
<1> QED
  BY <1>3

\* Of finitely many things with a number one has the largest.
LEMMA Latest ==
  ASSUME NEW S, IsFiniteSet(S), S # {}, NEW f \in [S -> Nat]
  PROVE  \E x \in S : \A y \in S : f[y] <= f[x]
<1> DEFINE above(x) == {y \in S : f[y] > f[x]}
           size(x) == Cardinality(above(x))
<1>1. \A x \in S : IsFiniteSet(above(x)) /\ size(x) \in Nat
  BY FS_Subset, FS_CardinalityType
<1>2. \A x \in S, y \in S : f[y] > f[x] =>
        above(y) \subseteq above(x) /\ y \in above(x) /\ y \notin above(y)
  OBVIOUS
<1> HIDE DEF above
<1>3. \A x \in S, y \in S : f[y] > f[x] => size(y) < size(x)
  <2> SUFFICES ASSUME NEW x \in S, NEW y \in S, f[y] > f[x]  PROVE size(y) < size(x)
    OBVIOUS
  <2>1. above(y) \in SUBSET above(x) /\ above(y) # above(x)
    BY <1>2
  <2>2. size(y) <= size(x) /\ size(y) # size(x)
    BY <1>1, <2>1, FS_Subset
  <2>3. size(x) \in Nat /\ size(y) \in Nat
    BY <1>1
  <2> HIDE DEF size
  <2> QED
    BY <2>2, <2>3
<1> HIDE DEF size
<1>4. {size(x) : x \in S} \in SUBSET Nat /\ {size(x) : x \in S} # {}
  BY <1>1
<1>5. PICK m \in {size(x) : x \in S} : \A k \in {size(x) : x \in S} : m <= k
  BY <1>4, Least
<1>6. PICK x \in S : m = size(x)
  BY <1>5
<1>7. \A y \in S : ~ (f[y] > f[x])
  <2> SUFFICES ASSUME NEW y \in S, f[y] > f[x]  PROVE FALSE
    OBVIOUS
  <2>1. size(x) <= size(y)
    BY <1>5, <1>6
  <2>2. size(y) < size(x) /\ size(x) \in Nat /\ size(y) \in Nat
    BY <1>1, <1>3
  <2> QED
    BY <2>1, <2>2
<1> QED
  BY <1>7

\* Copies of source rows.
Copies == [src : Sources, row : Rows]

\* The first of a queue, and what is left without it.
LEMMA QueueFacts ==
  ASSUME NEW S, NEW q \in Seq(S), q # <<>>
  PROVE  /\ Head(q) \in S /\ Tail(q) \in Seq(S)
         /\ \E i \in DOMAIN q : q[i] = Head(q)
         /\ \A i \in DOMAIN Tail(q) : \E j \in DOMAIN q : q[j] = Tail(q)[i]
<1>1. Len(q) \in Nat \ {0} /\ DOMAIN q = 1 .. Len(q)
  BY EmptySeq, LenProperties
<1>2. Head(q) \in S /\ Tail(q) \in Seq(S) /\ Len(Tail(q)) = Len(q) - 1
      /\ \A i \in 1 .. Len(Tail(q)) : Tail(q)[i] = q[i + 1]
  BY HeadTailProperties
<1>3. DOMAIN Tail(q) = 1 .. Len(q) - 1
  BY <1>2, LenProperties
<1>4. Head(q) = q[1] /\ 1 \in DOMAIN q
  BY <1>1
<1>5. \A i \in DOMAIN Tail(q) : i + 1 \in DOMAIN q /\ q[i + 1] = Tail(q)[i]
  BY <1>1, <1>2, <1>3
<1> QED
  BY <1>2, <1>4, <1>5

\* A new cursor is the old one, or the latest timestamp found.
LEMMA CursorFacts ==
  ASSUME NEW c \in Cursors, NEW found \in SUBSET Records, NEW format \in Plans,
         at \in [Records -> Nat]
  PROVE  /\ NewCursor(c, found, format) \in Cursors
         /\ \/ NewCursor(c, found, format) = c
            \/ /\ format # "snapshot"
               /\ \E r \in found : /\ NewCursor(c, found, format) = RawTs(r, format)
                                   /\ \A q \in found : RawTs(q, format).n <= RawTs(r, format).n
<1> DEFINE values == {RawTs(r, format) : r \in found}
           top    == CHOOSE v \in values : \A u \in values : u.n <= v.n
<1>1. \A r \in Records : RawTs(r, format) \in Cursors
  BY DEF RawTs, Cursors, Scale
<1>2. CASE format = "snapshot" \/ found = {}
  BY <1>2 DEF NewCursor
<1>3. CASE format # "snapshot" /\ found # {}
  <2> DEFINE f == [r \in found |-> RawTs(r, format).n]
  <2>1. f \in [found -> Nat]
    BY <1>1 DEF Cursors
  <2>2. IsFiniteSet(found)
    BY FS_Subset
  <2>3. PICK r \in found : \A q \in found : f[q] <= f[r]
    BY <1>3, <2>1, <2>2, Latest
  <2>4. \E v \in values : \A u \in values : u.n <= v.n
    BY <2>3
  <2>5. top \in values /\ \A u \in values : u.n <= top.n
    BY <2>4
  <2>6. PICK r1 \in found : top = RawTs(r1, format)
    BY <2>5
  <2>7. \A q \in found : RawTs(q, format).n <= RawTs(r1, format).n
    BY <2>5, <2>6
  <2>8. NewCursor(c, found, format) = c \/ NewCursor(c, found, format) = top
    BY <1>3 DEF NewCursor
  <2> QED
    BY <1>1, <1>3, <2>6, <2>7, <2>8
<1> QED
  BY <1>2, <1>3

\* The sources listed are among those there are.
LEMMA PlacesFacts ==
  ASSUME NEW S, NEW f \in Places(S)
  PROVE  \E n \in Nat : /\ DOMAIN f = 1 .. n
                        /\ \A i \in 1 .. n : Order[f[i]] \in S /\ Order[f[i]] \in Sources
<1> DEFINE places == {i \in DOMAIN Order : Order[i] \in S}
<1>1. DOMAIN Order = 1 .. Len(Order) /\ Len(Order) \in Nat
  BY LenProperties
<1>2. IsFiniteSet(places) /\ Cardinality(places) \in Nat
  <2>1. IsFiniteSet(DOMAIN Order) /\ places \in SUBSET DOMAIN Order
    BY <1>1, FS_Interval
  <2> QED
    BY <2>1, FS_Subset, FS_CardinalityType
<1>3. f \in [1 .. Cardinality(places) -> places]
  BY DEF Places
<1>4. \A i \in 1 .. Cardinality(places) : Order[f[i]] \in S /\ Order[f[i]] \in Sources
  BY <1>3 DEF Sources
<1> QED
  BY <1>2, <1>3, <1>4
-----------------------------------------------------------------------------
(***************************************************************************)
(* Types.                                                                  *)
(***************************************************************************)
WorldOK  == /\ at \in [Records -> Nat] /\ shape \in [Sources -> Shapes]
            /\ known \subseteq Sources /\ row \in [Sources -> Rows] /\ stored \subseteq Records
            /\ asked \subseteq Sources /\ faults \in Nat /\ edits \in Nat
LocalsOK == /\ pc \in [Workers -> PCs]
            /\ queue \in [Workers -> Seq(Copies)]
            /\ plan \in [Workers -> Plans]
            /\ print \in [Workers -> Nat]
            /\ walked \in [Workers -> SUBSET Records]
            /\ pages \in [Workers -> Nat]
            /\ more \in [Workers -> BOOLEAN]
            /\ outbox \in [Workers -> SUBSET Sources]

\* What a worker holds is empty unless it is somewhere that needs it.
Occupied == \A w \in Workers : pc[w] \in {"pages", "save", "enrich"} => queue[w] # <<>>

\* The type invariant in two halves.
LEMMA Halves == TypeOK <=> WorldOK /\ LocalsOK
BY DEF TypeOK, WorldOK, LocalsOK, Copies

\* Going to the next source, or to the end of the run, keeps the locals typed.
LEMMA VisitTyped ==
  ASSUME LocalsOK, Occupied, NEW w \in Workers, NEW q \in Seq(Copies), Visit(w, q),
         outbox' \in [Workers -> SUBSET Sources]
  PROVE  LocalsOK' /\ Occupied'
BY DEF Visit, Goto, Set, LocalsOK, Occupied, PCs, Plans, NoPlan, NoPrint

\* The end of a run keeps the types, and leaves the thread idle with an empty queue.
LEMMA EndRunTyped ==
  ASSUME LocalsOK, Occupied, NEW w \in Workers, EndRun(w)
  PROVE  LocalsOK' /\ Occupied'
<1>1. <<>> \in Seq(Copies)
  BY EmptySeq
<1> QED
  BY <1>1 DEF EndRun, Goto, Set, LocalsOK, Occupied, PCs, Plans, NoPlan, NoPrint

\* The source a worker is at, where it is at one.
LEMMA CurrentFacts ==
  ASSUME LocalsOK, NEW w \in Workers, queue[w] # <<>>
  PROVE  /\ Current(w) \in Copies /\ Current(w).src \in Sources /\ Current(w).row \in Rows
         /\ Current(w).row.hint \in Plans /\ Current(w).row.plan \in Plans
         /\ Current(w).row.print \in Nat /\ Current(w).row.cursor \in Cursors
         /\ Tail(queue[w]) \in Seq(Copies)
<1>1. queue[w] \in Seq(Copies)
  BY DEF LocalsOK
<1>2. Current(w) \in Copies /\ Tail(queue[w]) \in Seq(Copies)
  BY <1>1, QueueFacts DEF Current
<1> QED
  BY <1>2 DEF Copies, Rows

\* A row made of parts.
LEMMA RowTyped ==
  ASSUME NEW hint \in Plans, NEW enabled \in BOOLEAN, NEW cached \in Plans,
         NEW fingerprint \in Nat, NEW cursor \in Cursors
  PROVE  Row(hint, enabled, cached, fingerprint, cursor) \in Rows
BY DEF Row, Rows

\* The initial state has its types.
LEMMA InitTyped == Init => TypeOK /\ Occupied
<1> SUFFICES ASSUME Init PROVE WorldOK /\ LocalsOK /\ Occupied
  BY Halves
<1>1. NoPlan \in Plans /\ NoPrint \in Nat /\ NoCursor \in Cursors /\ <<>> \in Seq(Copies)
  BY EmptySeq DEF Plans, NoPlan, NoPrint, NoCursor, Cursors
<1>2. \A s \in Sources : Row(NoPlan, s \in Registered, NoPlan, NoPrint, NoCursor) \in Rows
  <2> SUFFICES ASSUME NEW s \in Sources
               PROVE  Row(NoPlan, s \in Registered, NoPlan, NoPrint, NoCursor) \in Rows
    OBVIOUS
  <2>1. (s \in Registered) \in BOOLEAN
    OBVIOUS
  <2>2. PICK b \in BOOLEAN : b = (s \in Registered)
    BY <2>1
  <2>3. Row(NoPlan, b, NoPlan, NoPrint, NoCursor) \in Rows
    BY <1>1, RowTyped
  <2> QED
    BY <2>2, <2>3
<1>3. WorldOK
  BY <1>2 DEF Init, WorldOK
<1>4. LocalsOK /\ Occupied
  BY <1>1 DEF Init, LocalsOK, Occupied, PCs
<1> QED
  BY <1>3, <1>4

\* What a fetch or a further page does to the locals.
LEMMA PageTyped ==
  ASSUME LocalsOK, NEW w \in Workers, NEW seen \in SUBSET Records, TakePage(w, seen)
  PROVE  walked' \in [Workers -> SUBSET Records] /\ more' \in [Workers -> BOOLEAN]
<1>1. PICK p \in Page(Current(w).src, seen) :
        /\ walked' = Set(walked, w, seen \cup p)
        /\ more' = Set(more, w, p # Older(Current(w).src, seen))
  BY DEF TakePage
<1>2. p \in SUBSET Records
  BY DEF Page, Older, Listed
<1> QED
  BY <1>1, <1>2 DEF LocalsOK, Set

\* Every step keeps the types.
LEMMA TypeStep == TypeOK /\ Occupied /\ [Next]_vars => TypeOK' /\ Occupied'
<1> SUFFICES ASSUME TypeOK, Occupied, [Next]_vars PROVE TypeOK' /\ Occupied'
  OBVIOUS
<1>0. WorldOK /\ LocalsOK
  BY Halves
<1> USE <1>0
<1>h. (WorldOK /\ LocalsOK)' => TypeOK'
  BY Halves DEF TypeOK, WorldOK, LocalsOK, Copies
<1>e. <<>> \in Seq(Copies)
  BY EmptySeq
<1>n. NoPlan \in Plans /\ NoPrint \in Nat /\ NoCursor \in Cursors
  BY DEF Plans, NoPlan, NoPrint, NoCursor, Cursors
<1>c. \A s \in Sources : Copy(s) \in Copies
  BY DEF Copy, Copies, WorldOK
<1>k. UNCHANGED locals => LocalsOK' /\ Occupied'
  BY DEF LocalsOK, Occupied, locals
<1>w. UNCHANGED <<world, database, counts>> => WorldOK'
  BY DEF WorldOK, world, database, counts
<1>1. ASSUME NEW r \in Records, PublishRecord(r) PROVE TypeOK' /\ Occupied'
  <2>1. WorldOK'
    BY <1>1 DEF PublishRecord, WorldOK, database, counts
  <2> QED
    BY <1>1, <1>h, <1>k, <2>1 DEF PublishRecord
<1>2. ASSUME NEW s \in Sources, Drift(s) PROVE TypeOK' /\ Occupied'
  <2>1. WorldOK'
    BY <1>2 DEF Drift, WorldOK, database, counts
  <2> QED
    BY <1>2, <1>h, <1>k, <2>1 DEF Drift
<1>3. ASSUME NEW w \in Workers, NEW s \in Sources, NEW hint \in Hints \cup {NoPlan},
             NEW enabled \in BOOLEAN, Register(w, s, hint, enabled)
      PROVE  TypeOK' /\ Occupied'
  <2>1. hint \in Plans /\ row[s].plan \in Plans
    BY <1>n DEF Plans, WorldOK, Rows
  <2>2. Row(hint, enabled, row[s].plan, NoPrint, NoCursor) \in Rows
    BY <1>n, <2>1, RowTyped
  <2>3. WorldOK'
    BY <1>3, <2>2 DEF Register, WorldOK, world
  <2>4. LocalsOK' /\ Occupied'
    BY <1>3 DEF Register, Goto, LocalsOK, Occupied, PCs
  <2> QED
    BY <1>h, <2>3, <2>4
<1>4. ASSUME NEW w \in Workers, NEW s \in Sources, EnrichRead(w, s) PROVE TypeOK' /\ Occupied'
  <2>1. WorldOK'
    BY <1>4 DEF EnrichRead, WorldOK, world, database
  <2>2. <<Copy(s)>> \in Seq(Copies) /\ <<Copy(s)>> # <<>>
    BY <1>c
  <2>3. LocalsOK' /\ Occupied'
    BY <1>4, <2>2 DEF EnrichRead, Goto, Set, LocalsOK, Occupied, PCs
  <2> QED
    BY <1>h, <2>1, <2>3
<1>5. ASSUME NEW w \in Workers, NEW s \in Sources, Request(w, s) PROVE TypeOK' /\ Occupied'
  <2>1. <<Copy(s)>> \in Seq(Copies)
    BY <1>c
  <2>2. LocalsOK' /\ Occupied'
    BY <1>5, <2>1, VisitTyped DEF Request, LocalsOK
  <2> QED
    BY <1>5, <1>h, <1>w, <2>2 DEF Request
<1>6. ASSUME NEW w \in Workers, Tick(w) PROVE TypeOK' /\ Occupied'
  <2>1. WorldOK'
    BY <1>6, <1>w DEF Tick
  <2>2. LocalsOK' /\ Occupied'
    BY <1>6 DEF Tick, Goto, LocalsOK, Occupied, PCs
  <2> QED
    BY <1>h, <2>1, <2>2
<1>7. ASSUME NEW w \in Workers, NEW hint \in Hints \cup {NoPlan}, NEW enabled \in BOOLEAN,
             EnrichWrite(w, hint, enabled)
      PROVE  TypeOK' /\ Occupied'
  <2>1. queue[w] # <<>>
    BY <1>7 DEF EnrichWrite, Occupied
  <2> DEFINE s   == Current(w).src
             old == Current(w).row
             hinted == IF hint # NoPlan THEN hint ELSE old.hint
             cached == IF old.plan # NoPlan THEN old.plan ELSE row[s].plan
  <2>2. s \in Sources /\ old.hint \in Plans /\ old.plan \in Plans /\ old.print \in Nat
        /\ old.cursor \in Cursors
    BY <2>1, CurrentFacts
  <2>3. hinted \in Plans /\ cached \in Plans
    BY <1>n, <2>2 DEF Plans, WorldOK, Rows
  <2>4. Row(hinted, enabled, cached, old.print, old.cursor) \in Rows
    BY <2>2, <2>3, RowTyped
  <2>5. row' = [row EXCEPT ![s] = Row(hinted, enabled, cached, old.print, old.cursor)]
    BY <1>7 DEF EnrichWrite
  <2>6. WorldOK'
    <3>1. PICK x \in Rows : row' = [row EXCEPT ![s] = x]
      BY <2>4, <2>5
    <3>2. UNCHANGED <<at, shape, known, stored, asked, faults, edits>>
      BY <1>7 DEF EnrichWrite, world, counts
    <3> QED
      BY <3>1, <3>2 DEF WorldOK
  <2>7. LocalsOK' /\ Occupied'
    BY <1>7, <1>e DEF EnrichWrite, Goto, Set, LocalsOK, Occupied, PCs
  <2> QED
    BY <1>h, <2>6, <2>7
<1>8. ASSUME NEW w \in Workers, ListSources(w) PROVE TypeOK' /\ Occupied'
  <2>1. PICK f \in Places({s \in known : row[s].enabled}) :
          Visit(w, [i \in DOMAIN f |-> Copy(Order[f[i]])])
    BY <1>8 DEF ListSources
  <2>2. PICK n \in Nat : DOMAIN f = 1 .. n /\ \A i \in 1 .. n : Order[f[i]] \in Sources
    BY PlacesFacts
  <2>3. [i \in DOMAIN f |-> Copy(Order[f[i]])] \in [1 .. n -> Copies]
    BY <1>c, <2>2
  <2>4. [i \in DOMAIN f |-> Copy(Order[f[i]])] \in Seq(Copies)
    BY <2>3
  <2>5. outbox' \in [Workers -> SUBSET Sources]
    BY <1>8 DEF ListSources, LocalsOK
  <2>6. LocalsOK' /\ Occupied'
    BY <2>1, <2>4, <2>5, VisitTyped
  <2> QED
    BY <1>8, <1>h, <1>w, <2>6 DEF ListSources
<1>9. ASSUME NEW w \in Workers, Finish(w) \/ FetchRaises(w) PROVE TypeOK' /\ Occupied'
  <2>1. LocalsOK' /\ Occupied'
    BY <1>9, EndRunTyped DEF Finish, FetchRaises
  <2>2. WorldOK'
    <3>1. CASE Finish(w)
      BY <3>1 DEF Finish, WorldOK, LocalsOK, world, database
    <3>2. CASE FetchRaises(w)
      BY <1>w, <3>2 DEF FetchRaises
    <3> QED
      BY <1>9, <3>1, <3>2
  <2> QED
    BY <1>h, <2>1, <2>2
<1>10. ASSUME NEW w \in Workers, Fetch(w) PROVE TypeOK' /\ Occupied'
  <2>1. queue[w] # <<>>
    BY <1>10 DEF Fetch
  <2> DEFINE s   == Current(w).src
             old == Current(w).row
  <2>2. s \in Sources /\ old.hint \in Plans /\ old.plan \in Plans /\ shape[s] \in Shapes
    BY <2>1, CurrentFacts DEF WorldOK
  <2>3. \A p \in PlansFor[shape[s]] : Resolved(old, p) # Unsure => Resolved(old, p) \in Plans
    BY <2>2 DEF Resolved, Plans, Shapes
  <2>4. Resolved(old, old.plan) \in Plans
    BY <2>2 DEF Resolved
  <2>5. plan' \in [Workers -> Plans]
    BY <1>10, <2>3, <2>4 DEF Fetch, Set, LocalsOK
  <2>6. shape[s] \in Nat
    BY <2>2 DEF Shapes
  <2>7. walked' \in [Workers -> SUBSET Records] /\ more' \in [Workers -> BOOLEAN]
    BY <1>10, PageTyped DEF Fetch
  <2>8. LocalsOK' /\ Occupied'
    BY <1>10, <2>5, <2>6, <2>7 DEF Fetch, Goto, Set, LocalsOK, Occupied, PCs
  <2> QED
    BY <1>10, <1>h, <1>w, <2>8 DEF Fetch
<1>11. ASSUME NEW w \in Workers, FetchUnsure(w) PROVE TypeOK' /\ Occupied'
  <2>1. Current(w).src \in Sources /\ Tail(queue[w]) \in Seq(Copies)
    BY <1>11, CurrentFacts DEF FetchUnsure
  <2>2. outbox' \in [Workers -> SUBSET Sources]
    BY <1>11, <2>1 DEF FetchUnsure, Set, LocalsOK
  <2>3. LocalsOK' /\ Occupied'
    BY <1>11, <2>1, <2>2, VisitTyped DEF FetchUnsure
  <2>4. WorldOK'
    BY <1>11, <1>w DEF FetchUnsure
  <2> QED
    BY <1>h, <2>3, <2>4
<1>12. ASSUME NEW w \in Workers, FetchNext(w) PROVE TypeOK' /\ Occupied'
  <2>1. walked' \in [Workers -> SUBSET Records] /\ more' \in [Workers -> BOOLEAN]
    BY <1>12, PageTyped DEF FetchNext, LocalsOK
  <2>2. LocalsOK' /\ Occupied'
    <3>1. /\ pages' = [pages EXCEPT ![w] = pages[w] + 1]
          /\ UNCHANGED <<pc, queue, plan, print, outbox>>
      BY <1>12 DEF FetchNext, Set
    <3>2. pages' \in [Workers -> Nat]
      BY <3>1 DEF LocalsOK
    <3> QED
      BY <2>1, <3>1, <3>2 DEF LocalsOK, Occupied
  <2> QED
    BY <1>12, <1>h, <1>w, <2>2 DEF FetchNext
<1>13. ASSUME NEW w \in Workers, StoreRecords(w) PROVE TypeOK' /\ Occupied'
  <2>1. WorldOK'
    BY <1>13 DEF StoreRecords, WorldOK, Found, LocalsOK, world, counts
  <2>2. LocalsOK' /\ Occupied'
    BY <1>13 DEF StoreRecords, Goto, LocalsOK, Occupied, PCs
  <2> QED
    BY <1>h, <2>1, <2>2
<1>14. ASSUME NEW w \in Workers, SaveState(w) PROVE TypeOK' /\ Occupied'
  <2>1. queue[w] # <<>>
    BY <1>14 DEF SaveState, Occupied
  <2> DEFINE s == Current(w).src
             cursor == NewCursor(Current(w).row.cursor, Found(w), plan[w])
  <2>2. s \in Sources /\ Current(w).row.cursor \in Cursors /\ Tail(queue[w]) \in Seq(Copies)
    BY <2>1, CurrentFacts
  <2>3. Found(w) \in SUBSET Records /\ plan[w] \in Plans /\ print[w] \in Nat
    BY DEF Found, LocalsOK
  <2>4. cursor \in Cursors
    BY <2>2, <2>3, CursorFacts DEF WorldOK
  <2> HIDE DEF cursor
  <2>5. row[s].hint \in Plans /\ row[s].enabled \in BOOLEAN
    BY <2>2 DEF WorldOK, Rows
  <2>6. Row(row[s].hint, row[s].enabled, plan[w], print[w], cursor) \in Rows
    BY <2>3, <2>4, <2>5, RowTyped
  <2>7. row' = [row EXCEPT ![s] = Row(row[s].hint, row[s].enabled, plan[w], print[w], cursor)]
    BY <1>14 DEF SaveState, cursor
  <2>8. WorldOK'
    <3>1. PICK x \in Rows : row' = [row EXCEPT ![s] = x]
      BY <2>6, <2>7
    <3>2. UNCHANGED <<at, shape, known, stored, asked, faults, edits>>
      BY <1>14 DEF SaveState, world, counts
    <3> QED
      BY <3>1, <3>2 DEF WorldOK
  <2>9. LocalsOK' /\ Occupied'
    BY <1>14, <2>2, VisitTyped DEF SaveState, LocalsOK
  <2> QED
    BY <1>h, <2>8, <2>9
<1>15. ASSUME NEW w \in Workers, Fail(w) PROVE TypeOK' /\ Occupied'
  <2>1. LocalsOK' /\ Occupied'
    BY <1>15, EndRunTyped DEF Fail
  <2>2. WorldOK'
    BY <1>15 DEF Fail, WorldOK, world, database
  <2> QED
    BY <1>h, <2>1, <2>2
<1>16. ASSUME Crash PROVE TypeOK' /\ Occupied'
  <2>1. WorldOK'
    BY <1>16 DEF Crash, WorldOK, world, database
  <2>2. LocalsOK' /\ Occupied'
    BY <1>16, <1>e, <1>n DEF Crash, LocalsOK, Occupied, PCs
  <2> QED
    BY <1>h, <2>1, <2>2
<1>17. ASSUME UNCHANGED vars PROVE TypeOK' /\ Occupied'
  BY <1>17, <1>h, <1>k, <1>w DEF vars
<1> QED
  BY <1>1, <1>2, <1>3, <1>4, <1>5, <1>6, <1>7, <1>8, <1>9, <1>10, <1>11, <1>12, <1>13,
     <1>14, <1>15, <1>16, <1>17 DEF Next, Step

\* Type correctness, for any sources, plans and threads.
THEOREM TypeCorrect == Spec => []TypeOK
<1>1. Spec => [](TypeOK /\ Occupied)
  BY InitTyped, TypeStep, PTL DEF Spec
<1> QED
  BY <1>1, PTL
-----------------------------------------------------------------------------
(***************************************************************************)
(* Plans and fingerprints.                                                 *)
(***************************************************************************)
\* The plans a response of shape k may be read with.
PlansOf(k) == (PlansFor[k] \ {Unsure}) \cup Hints

\* What is imposed is a hint, and a plan fits the fingerprint beside it, which is
\* there only together with a plan.
Fits(r) ==
  /\ r.hint \in Hints \cup {NoPlan}
  /\ r.plan # NoPlan => \E k \in Shapes : r.plan \in PlansOf(k)
  /\ r.print # NoPrint => r.print \in Shapes /\ r.plan \in PlansOf(r.print)

\* So it is in the database, in every copy, and with what a worker is about to save.
Fitting ==
  /\ \A s \in Sources : Fits(row[s])
  /\ \A w \in Workers : \A i \in DOMAIN queue[w] : Fits(queue[w][i].row)
  /\ \A w \in Workers : pc[w] \in {"pages", "save"} =>
       print[w] \in Shapes /\ plan[w] \in PlansOf(print[w])

\* A shape is no absent fingerprint, a plan for one no absent plan.
LEMMA PlanFacts ==
  /\ \A k \in Shapes : k \in Nat /\ k # NoPrint
  /\ \A k \in Shapes : NoPlan \notin PlansOf(k) /\ Unsure \notin PlansOf(k)
                       /\ PlansOf(k) \subseteq Formats
<1>1. Shapes = 1 .. Len(PlansFor)
  BY LenProperties DEF Shapes
<1>2. \A k \in Shapes : k \in Nat /\ k # NoPrint
  BY <1>1 DEF NoPrint
<1>3. \A k \in Shapes : PlansFor[k] \subseteq Formats \cup {Unsure}
  BY DEF Shapes
<1>4. NoPlan \notin Formats /\ Unsure \notin Formats
  BY DEF NoPlan, Unsure, Formats
<1>5. \A k \in Shapes : PlansOf(k) \subseteq Formats
  BY <1>3 DEF PlansOf
<1> QED
  BY <1>2, <1>4, <1>5

\* Fitting, when a step writes at most one row and replaces at most one queue.
LEMMA FittingKept ==
  ASSUME Fitting, TypeOK,
         \A s \in Sources : row'[s] = row[s] \/ Fits(row'[s]),
         NEW w \in Workers,
         \A u \in Workers \ {w} : /\ queue'[u] = queue[u] /\ print'[u] = print[u]
                                  /\ plan'[u] = plan[u] /\ pc'[u] = pc[u],
         \A i \in DOMAIN queue'[w] : Fits(queue'[w][i].row),
         pc'[w] \in {"pages", "save"} =>
           print'[w] \in Shapes /\ plan'[w] \in PlansOf(print'[w])
  PROVE  Fitting'
<1>1. \A s \in Sources : Fits(row'[s])
  BY DEF Fitting
<1>2. \A u \in Workers : \A i \in DOMAIN queue'[u] : Fits(queue'[u][i].row)
  BY DEF Fitting
<1>3. \A u \in Workers : pc'[u] \in {"pages", "save"} =>
        print'[u] \in Shapes /\ plan'[u] \in PlansOf(print'[u])
  BY DEF Fitting
<1> QED
  BY <1>1, <1>2, <1>3 DEF Fitting, Fits, PlansOf, Shapes

\* The first copy of a queue fits, and those left without it do.
LEMMA FittingQueue ==
  ASSUME Fitting, TypeOK, NEW w \in Workers, queue[w] # <<>>
  PROVE  /\ Fits(Current(w).row)
         /\ \A i \in DOMAIN Tail(queue[w]) : Fits(Tail(queue[w])[i].row)
<1>1. queue[w] \in Seq([src : Sources, row : Rows])
  BY DEF TypeOK
<1>2. /\ \E i \in DOMAIN queue[w] : queue[w][i] = Head(queue[w])
      /\ \A i \in DOMAIN Tail(queue[w]) : \E j \in DOMAIN queue[w] :
           queue[w][j] = Tail(queue[w])[i]
  BY <1>1, QueueFacts
<1>3. \A i \in DOMAIN queue[w] : Fits(queue[w][i].row)
  BY DEF Fitting
<1> QED
  BY <1>2, <1>3 DEF Current

\* A visit leaves no plan in hand and, of the queue, what it was given.
LEMMA FittingVisit ==
  ASSUME Fitting, TypeOK, NEW w \in Workers, NEW q, Visit(w, q),
         \A i \in DOMAIN q : Fits(q[i].row),
         \A s \in Sources : row'[s] = row[s] \/ Fits(row'[s])
  PROVE  Fitting'
<1>1. /\ \A u \in Workers \ {w} : /\ queue'[u] = queue[u] /\ print'[u] = print[u]
                                  /\ plan'[u] = plan[u] /\ pc'[u] = pc[u]
      /\ queue'[w] = q /\ pc'[w] = "fetch"
  BY DEF Visit, Goto, Set, TypeOK
<1> QED
  BY <1>1, FittingKept

\* So does the end of a run, of nothing.
LEMMA FittingEnd ==
  ASSUME Fitting, TypeOK, NEW w \in Workers, EndRun(w), UNCHANGED row
  PROVE  Fitting'
<1>1. /\ \A u \in Workers \ {w} : /\ queue'[u] = queue[u] /\ print'[u] = print[u]
                                  /\ plan'[u] = plan[u] /\ pc'[u] = pc[u]
      /\ queue'[w] = <<>> /\ pc'[w] = "idle"
  BY DEF EndRun, Goto, Set, TypeOK
<1>2. \A i \in DOMAIN queue'[w] : Fits(queue'[w][i].row)
  BY <1>1
<1> QED
  BY <1>1, <1>2, FittingKept

\* Initially nothing is planned.
LEMMA FittingInit == Init => Fitting
<1> SUFFICES ASSUME Init PROVE Fitting
  OBVIOUS
<1>1. \A s \in Sources : Fits(row[s])
  BY DEF Init, Row, Fits
<1>2. \A w \in Workers : queue[w] = <<>> /\ pc[w] = "idle"
  BY DEF Init
<1> QED
  BY <1>1, <1>2 DEF Fitting

\* Every step keeps plans and fingerprints together.
LEMMA FittingStep == TypeOK /\ Occupied /\ Fitting /\ [Next]_vars => Fitting'
<1> SUFFICES ASSUME TypeOK, Occupied, Fitting, [Next]_vars PROVE Fitting'
  OBVIOUS
<1>0. LocalsOK
  BY Halves
<1>q. UNCHANGED <<row, pc, queue, plan, print>> => Fitting'
  BY DEF Fitting, Fits, PlansOf, Shapes
<1>s. \A s \in Sources : Fits(Copy(s).row)
  BY DEF Copy, Fitting
<1>1. ASSUME NEW r \in Records, PublishRecord(r) PROVE Fitting'
  BY <1>1, <1>q DEF PublishRecord, database, locals
<1>2. ASSUME NEW s \in Sources, Drift(s) PROVE Fitting'
  BY <1>2, <1>q DEF Drift, database, locals
<1>3. ASSUME NEW w \in Workers, NEW s \in Sources, NEW hint \in Hints \cup {NoPlan},
             NEW enabled \in BOOLEAN, Register(w, s, hint, enabled)
      PROVE  Fitting'
  <2>1. Fits(row[s])
    BY DEF Fitting
  <2>2. Fits(Row(hint, enabled, row[s].plan, NoPrint, NoCursor))
    BY <2>1 DEF Fits, Row
  <2>3. \A z \in Sources : row'[z] = row[z] \/ Fits(row'[z])
    BY <1>3, <2>2 DEF Register, TypeOK
  <2>4. /\ \A u \in Workers \ {w} : pc'[u] = pc[u]
        /\ pc'[w] = "list" /\ UNCHANGED <<queue, plan, print>>
    BY <1>3 DEF Register, Goto, TypeOK
  <2>5. \A i \in DOMAIN queue'[w] : Fits(queue'[w][i].row)
    BY <2>4 DEF Fitting
  <2> QED
    BY <2>3, <2>4, <2>5, FittingKept
<1>4. ASSUME NEW w \in Workers, NEW s \in Sources, EnrichRead(w, s) PROVE Fitting'
  <2>1. /\ \A u \in Workers \ {w} : pc'[u] = pc[u] /\ queue'[u] = queue[u]
        /\ pc'[w] = "enrich" /\ queue'[w] = <<Copy(s)>> /\ UNCHANGED <<row, plan, print>>
    BY <1>4 DEF EnrichRead, Goto, Set, TypeOK, database
  <2>2. \A i \in DOMAIN queue'[w] : Fits(queue'[w][i].row)
    BY <1>s, <2>1
  <2> QED
    BY <2>1, <2>2, FittingKept
<1>5. ASSUME NEW w \in Workers, NEW s \in Sources, Request(w, s) PROVE Fitting'
  <2>1. \A i \in DOMAIN <<Copy(s)>> : Fits(<<Copy(s)>>[i].row)
    BY <1>s
  <2>2. UNCHANGED row
    BY <1>5 DEF Request, database
  <2> QED
    BY <1>5, <2>1, <2>2, FittingVisit DEF Request
<1>6. ASSUME NEW w \in Workers, Tick(w) PROVE Fitting'
  <2>1. /\ \A u \in Workers \ {w} : pc'[u] = pc[u]
        /\ pc'[w] = "list" /\ UNCHANGED <<row, queue, plan, print>>
    BY <1>6 DEF Tick, Goto, TypeOK, database
  <2>2. \A i \in DOMAIN queue'[w] : Fits(queue'[w][i].row)
    BY <2>1 DEF Fitting
  <2> QED
    BY <2>1, <2>2, FittingKept
<1>7. ASSUME NEW w \in Workers, NEW hint \in Hints \cup {NoPlan}, NEW enabled \in BOOLEAN,
             EnrichWrite(w, hint, enabled)
      PROVE  Fitting'
  <2>1. queue[w] # <<>>
    BY <1>7 DEF EnrichWrite, Occupied
  <2> DEFINE s   == Current(w).src
             old == Current(w).row
             new == Row(IF hint # NoPlan THEN hint ELSE old.hint, enabled,
                        IF old.plan # NoPlan THEN old.plan ELSE row[s].plan,
                        old.print, old.cursor)
  <2>2. s \in Sources /\ Fits(old)
    BY <1>0, <2>1, CurrentFacts, FittingQueue
  <2>3. Fits(row[s])
    BY <2>2 DEF Fitting
  <2>4. old.print # NoPrint => old.plan # NoPlan
    BY <2>2, PlanFacts DEF Fits
  <2>5. Fits(new)
    BY <2>2, <2>3, <2>4 DEF Fits, Row
  <2>6. row' = [row EXCEPT ![s] = new]
    BY <1>7 DEF EnrichWrite
  <2> HIDE DEF new
  <2>7. \A z \in Sources : row'[z] = row[z] \/ Fits(row'[z])
    BY <2>5, <2>6 DEF TypeOK
  <2>8. /\ \A u \in Workers \ {w} : pc'[u] = pc[u] /\ queue'[u] = queue[u]
        /\ pc'[w] = "list" /\ queue'[w] = <<>> /\ UNCHANGED <<plan, print>>
    BY <1>7 DEF EnrichWrite, Goto, Set, TypeOK
  <2>9. \A i \in DOMAIN queue'[w] : Fits(queue'[w][i].row)
    BY <2>8
  <2> QED
    BY <2>7, <2>8, <2>9, FittingKept
<1>8. ASSUME NEW w \in Workers, ListSources(w) PROVE Fitting'
  <2>1. PICK f \in Places({s \in known : row[s].enabled}) :
          Visit(w, [i \in DOMAIN f |-> Copy(Order[f[i]])])
    BY <1>8 DEF ListSources
  <2>2. \A i \in DOMAIN f : Order[f[i]] \in Sources
    BY PlacesFacts
  <2> DEFINE q == [i \in DOMAIN f |-> Copy(Order[f[i]])]
  <2>3. \A i \in DOMAIN q : Fits(q[i].row)
    BY <1>s, <2>2
  <2>4. Visit(w, q)
    BY <2>1
  <2>5. UNCHANGED row
    BY <1>8 DEF ListSources, database
  <2> HIDE DEF q
  <2> QED
    BY <2>3, <2>4, <2>5, FittingVisit
<1>9. ASSUME NEW w \in Workers, Finish(w) \/ FetchRaises(w) \/ Fail(w) PROVE Fitting'
  BY <1>9, FittingEnd DEF Finish, FetchRaises, Fail, database
<1>10. ASSUME NEW w \in Workers, Fetch(w) PROVE Fitting'
  <2>1. queue[w] # <<>>
    BY <1>10 DEF Fetch
  <2> DEFINE s   == Current(w).src
             old == Current(w).row
  <2>2. s \in Sources /\ shape[s] \in Shapes /\ Fits(old)
    BY <1>0, <2>1, CurrentFacts, FittingQueue DEF TypeOK
  <2>3. shape[s] # NoPrint
    BY <2>2, PlanFacts
  <2>4. old.print = shape[s] => Resolved(old, old.plan) \in PlansOf(shape[s])
    BY <2>2, <2>3 DEF Fits, Resolved, PlansOf
  <2>5. \A p \in PlansFor[shape[s]] : Resolved(old, p) # Unsure =>
          Resolved(old, p) \in PlansOf(shape[s])
    BY <2>2 DEF Fits, Resolved, PlansOf
  <2>6. /\ \A u \in Workers \ {w} : /\ pc'[u] = pc[u] /\ plan'[u] = plan[u]
                                    /\ print'[u] = print[u]
        /\ pc'[w] = "pages" /\ print'[w] = shape[s] /\ UNCHANGED <<row, queue>>
        /\ plan'[w] \in PlansOf(shape[s])
    BY <1>10, <2>4, <2>5 DEF Fetch, Goto, Set, TypeOK, database
  <2>7. \A i \in DOMAIN queue'[w] : Fits(queue'[w][i].row)
    BY <2>6 DEF Fitting
  <2> QED
    BY <2>2, <2>6, <2>7, FittingKept
<1>11. ASSUME NEW w \in Workers, FetchUnsure(w) PROVE Fitting'
  <2>1. \A i \in DOMAIN Tail(queue[w]) : Fits(Tail(queue[w])[i].row)
    BY <1>11, FittingQueue DEF FetchUnsure
  <2>2. UNCHANGED row
    BY <1>11 DEF FetchUnsure, database
  <2> QED
    BY <1>11, <2>1, <2>2, FittingVisit DEF FetchUnsure
<1>12. ASSUME NEW w \in Workers, FetchNext(w) PROVE Fitting'
  BY <1>12, <1>q DEF FetchNext, database
<1>13. ASSUME NEW w \in Workers, StoreRecords(w) PROVE Fitting'
  <2>1. /\ pc[w] = "pages" /\ \A u \in Workers \ {w} : pc'[u] = pc[u]
        /\ UNCHANGED <<row, queue, plan, print>>
    BY <1>13 DEF StoreRecords, Goto, TypeOK
  <2>2. print[w] \in Shapes /\ plan[w] \in PlansOf(print[w])
    BY <2>1 DEF Fitting
  <2>3. \A i \in DOMAIN queue'[w] : Fits(queue'[w][i].row)
    BY <2>1 DEF Fitting
  <2> QED
    BY <2>1, <2>2, <2>3, FittingKept
<1>14. ASSUME NEW w \in Workers, SaveState(w) PROVE Fitting'
  <2>1. queue[w] # <<>> /\ pc[w] = "save"
    BY <1>14 DEF SaveState, Occupied
  <2> DEFINE s   == Current(w).src
             new == Row(row[s].hint, row[s].enabled, plan[w], print[w],
                        NewCursor(Current(w).row.cursor, Found(w), plan[w]))
  <2>2. s \in Sources
    BY <1>0, <2>1, CurrentFacts
  <2>3. Fits(row[s]) /\ print[w] \in Shapes /\ plan[w] \in PlansOf(print[w])
    BY <2>1, <2>2 DEF Fitting
  <2>4. new.hint = row[s].hint /\ new.plan = plan[w] /\ new.print = print[w]
    BY DEF Row
  <2>5. row' = [row EXCEPT ![s] = new]
    BY <1>14 DEF SaveState
  <2> HIDE DEF new
  <2>6. Fits(new)
    BY <2>3, <2>4 DEF Fits
  <2>7. \A z \in Sources : row'[z] = row[z] \/ Fits(row'[z])
    BY <2>5, <2>6 DEF TypeOK
  <2>8. \A i \in DOMAIN Tail(queue[w]) : Fits(Tail(queue[w])[i].row)
    BY <2>1, FittingQueue
  <2> QED
    BY <1>14, <2>7, <2>8, FittingVisit DEF SaveState
<1>15. ASSUME Crash PROVE Fitting'
  <2>1. UNCHANGED row /\ \A w \in Workers : queue'[w] = <<>> /\ pc'[w] = "idle"
    BY <1>15 DEF Crash, database
  <2>2. \A s \in Sources : Fits(row'[s])
    BY <2>1 DEF Fitting
  <2>3. \A w \in Workers : \A i \in DOMAIN queue'[w] : Fits(queue'[w][i].row)
    BY <2>1
  <2> QED
    BY <2>1, <2>2, <2>3 DEF Fitting, Fits, PlansOf, Shapes
<1>16. ASSUME UNCHANGED vars PROVE Fitting'
  BY <1>16, <1>q DEF vars, database, locals
<1> QED
  BY <1>1, <1>2, <1>3, <1>4, <1>5, <1>6, <1>7, <1>8, <1>9, <1>10, <1>11, <1>12, <1>13,
     <1>14, <1>15, <1>16 DEF Next, Step

\* A plan that will be reused was inferred from, or imposed on, the shape whose
\* fingerprint is saved, whatever else is done to the row meanwhile
\* (source_scraper.py _resolve_plan, source_registry.py _enrich, save_state).
THEOREM SafePlanFitsShape == Spec => []PlanFitsShape
<1>1. Fitting /\ TypeOK => PlanFitsShape
  BY DEF Fitting, Fits, PlansOf, PlanFitsShape, TypeOK
<1> QED
  BY <1>1, InitTyped, TypeStep, FittingInit, FittingStep, PTL DEF Spec
-----------------------------------------------------------------------------
(***************************************************************************)
(* Cursors of orderly sources: records appear in the order of their        *)
(* timestamps, dates are written in UTC, counts in one unit, and a walk is *)
(* never cut short by the limit of pages.                                  *)
(***************************************************************************)
AllPlans == UNION {PlansOf(k) : k \in Shapes}
Of(s)    == {r \in Records : SourceOf[r] = s}

Orderly ==
  /\ InOrder
  /\ \A r \in Records : Zone[r] = 0
  /\ ~ {"epoch_s", "epoch_ms"} \subseteq AllPlans
  /\ \A s \in Sources : Cardinality(Of(s)) <= MaxPages * PageSize

\* A cursor is absent or the timestamp of a published record, and what is not later
\* than that record is stored.
Covered(c, s) ==
  \/ c = NoCursor
  \/ \E r \in Listed(s) :
       /\ \E p \in AllPlans \ {"snapshot"} : c = RawTs(r, p)
       /\ \A q \in Listed(s) : at[q] <= at[r] => q \in stored

\* What was not seen of a source is later than all that was, or not later.
Contiguous(s, seen) ==
  /\ seen \subseteq Listed(s)
  /\ \A q \in Listed(s) \ seen : \/ \A x \in seen : at[q] > at[x]
                                 \/ \A x \in seen : at[q] <= at[x]

\* Only with a next page is some of it not later.
Whole(s, seen, next) ==
  /\ Contiguous(s, seen)
  /\ ~ next => \A q \in Listed(s) \ seen : \A x \in seen : at[q] > at[x]
  /\ next => Listed(s) # seen

Walk(w) ==
  pc[w] \in {"pages", "save"} =>
    /\ Whole(Current(w).src, walked[w], more[w])
    /\ more[w] => pages[w] * PageSize <= Cardinality(walked[w])
    /\ pc[w] = "save" => ~ more[w] /\ Found(w) \subseteq stored

Covering ==
  /\ \A s \in Sources : Covered(row[s].cursor, s)
  /\ \A w \in Workers : \A i \in DOMAIN queue[w] :
       Covered(queue[w][i].row.cursor, queue[w][i].src)
  /\ \A w \in Workers : Walk(w)

\* What a covered cursor hides is stored.
LEMMA CoveredHides ==
  ASSUME TypeOK, Orderly, NEW s \in Sources, NEW c, Covered(c, s),
         NEW q \in Listed(s), NEW p \in AllPlans, Skips(c, q, p)
  PROVE  q \in stored
<1>1. c # NoCursor /\ p # "snapshot" /\ c.text = (p = "iso8601") /\ UtcTs(q, p).n <= c.n
  BY DEF Skips
<1>2. PICK r \in Listed(s) : /\ \E p0 \in AllPlans \ {"snapshot"} : c = RawTs(r, p0)
                             /\ \A z \in Listed(s) : at[z] <= at[r] => z \in stored
  BY <1>1 DEF Covered
<1>3. PICK p0 \in AllPlans \ {"snapshot"} : c = RawTs(r, p0)
  BY <1>2
<1>4. /\ r \in Records /\ q \in Records /\ at[r] \in Nat /\ at[q] \in Nat
      /\ Zone[r] = 0 /\ Zone[q] = 0
  BY DEF Listed, TypeOK, Orderly
<1>5. p \in Formats /\ p0 \in Formats
  BY PlanFacts DEF AllPlans
<1>6. (p0 = "iso8601") <=> (p = "iso8601")
  BY <1>1, <1>3 DEF RawTs
<1>7. p = p0
  BY <1>1, <1>3, <1>5, <1>6 DEF Formats, Orderly
<1>8. CASE p = "iso8601"
  <2>1. UtcTs(q, p).n = at[q] /\ c.n = at[r]
    BY <1>3, <1>4, <1>7, <1>8 DEF UtcTs, RawTs
  <2> QED
    BY <1>1, <1>2, <2>1
<1>9. CASE p = "epoch_s"
  <2>1. UtcTs(q, p).n = at[q] /\ c.n = at[r]
    BY <1>3, <1>4, <1>7, <1>9 DEF UtcTs, RawTs
  <2> QED
    BY <1>1, <1>2, <2>1
<1>10. CASE p = "epoch_ms"
  <2>1. UtcTs(q, p).n = at[q] * Scale /\ c.n = at[r] * Scale
    BY <1>3, <1>4, <1>7, <1>10 DEF UtcTs, RawTs
  <2>2. Scale \in Nat \ {0}
    BY DEF Scale
  <2>3. \A a, b \in Nat, k \in Nat \ {0} : a * k <= b * k => a <= b
    OBVIOUS
  <2>4. at[q] <= at[r]
    BY <1>1, <1>4, <2>1, <2>2, <2>3
  <2> QED
    BY <1>2, <2>4
<1> QED
  BY <1>1, <1>5, <1>8, <1>9, <1>10 DEF Formats

\* A step publishes a record, later than those of its source, or none.
Growing ==
  /\ stored \subseteq stored'
  /\ at' \in [Records -> Nat]
  /\ \/ UNCHANGED at
     \/ \E r \in Records :
          /\ at[r] = 0
          /\ \A q \in Records \ {r} : at'[q] = at[q]
          /\ \A q \in Listed(SourceOf[r]) : at[q] < at'[r]

\* What that does to the records of a source.
LEMMA Listing ==
  ASSUME TypeOK, Growing, NEW s \in Sources
  PROVE  /\ Listed(s) \subseteq Listed(s)'
         /\ \A q \in Listed(s) : at'[q] = at[q]
         /\ \A q \in Listed(s)' : q \notin Listed(s) => \A x \in Listed(s) : at'[q] > at[x]
<1>1. CASE UNCHANGED at
  BY <1>1 DEF Listed
<1>2. CASE \E r \in Records :
             /\ at[r] = 0
             /\ \A q \in Records \ {r} : at'[q] = at[q]
             /\ \A q \in Listed(SourceOf[r]) : at[q] < at'[r]
  BY <1>2 DEF Listed, TypeOK
<1> QED
  BY <1>1, <1>2 DEF Growing

\* A covered cursor stays covered.
LEMMA CoveredStays ==
  ASSUME TypeOK, Growing, NEW s \in Sources, NEW c, Covered(c, s)
  PROVE  Covered(c, s)'
<1>1. CASE c = NoCursor
  BY <1>1 DEF Covered
<1>2. CASE \E r \in Listed(s) :
             /\ \E p \in AllPlans \ {"snapshot"} : c = RawTs(r, p)
             /\ \A q \in Listed(s) : at[q] <= at[r] => q \in stored
  <2>1. PICK r \in Listed(s) :
             /\ \E p \in AllPlans \ {"snapshot"} : c = RawTs(r, p)
             /\ \A q \in Listed(s) : at[q] <= at[r] => q \in stored
    BY <1>2
  <2>2. PICK p \in AllPlans \ {"snapshot"} : c = RawTs(r, p)
    BY <2>1
  <2>3. r \in Listed(s)' /\ at'[r] = at[r]
    BY Listing
  <2>4. c = RawTs(r, p)'
    BY <2>2, <2>3 DEF RawTs
  <2>5. \A q \in Listed(s)' : at'[q] <= at'[r] => q \in stored'
    <3> SUFFICES ASSUME NEW q \in Listed(s)', at'[q] <= at'[r]  PROVE q \in stored'
      OBVIOUS
    <3>1. at[r] \in Nat /\ at'[q] \in Nat
      BY DEF Listed, TypeOK, Growing
    <3>2. q \in Listed(s)
      BY <2>3, <3>1, Listing
    <3> QED
      BY <2>1, <2>3, <3>2, Listing DEF Growing
  <2>6. AllPlans' = AllPlans
    BY DEF AllPlans, PlansOf, Shapes
  <2> QED
    BY <2>2, <2>3, <2>4, <2>5, <2>6 DEF Covered
<1> QED
  BY <1>1, <1>2 DEF Covered

\* So does what was seen of a source stay whole.
LEMMA WholeStays ==
  ASSUME TypeOK, Growing, NEW s \in Sources, NEW seen, NEW next \in BOOLEAN, Whole(s, seen, next)
  PROVE  Whole(s, seen, next)'
<1>1. seen \subseteq Listed(s)' /\ \A x \in seen : x \in Listed(s) /\ at'[x] = at[x]
  BY Listing DEF Whole, Contiguous
<1>2. \A q \in Listed(s)' \ seen :
        IF q \in Listed(s) THEN at'[q] = at[q] ELSE \A x \in seen : at'[q] > at'[x]
  BY <1>1, Listing
<1>3. Contiguous(s, seen)'
  BY <1>1, <1>2 DEF Whole, Contiguous
<1>4. ~ next => \A q \in Listed(s)' \ seen : \A x \in seen : at'[q] > at'[x]
  BY <1>1, <1>2 DEF Whole
<1>5. next => Listed(s)' # seen
  BY Listing DEF Whole, Contiguous
<1> QED
  BY <1>3, <1>4, <1>5 DEF Whole

\* The next page of what is contiguous.
LEMMA WholePage ==
  ASSUME TypeOK, NEW s \in Sources, NEW seen, Contiguous(s, seen), NEW p \in Page(s, seen)
  PROVE  Whole(s, seen \cup p, p # Older(s, seen))
<1>1. /\ p \subseteq Older(s, seen) /\ Older(s, seen) \subseteq Listed(s) \ seen
      /\ \A r \in p, q \in Older(s, seen) \ p : at[q] <= at[r]
      /\ \A q \in Older(s, seen) : \A x \in seen : at[q] <= at[x]
  BY DEF Page, Older
<1>2. \A q \in Listed(s) : at[q] \in Nat
  BY DEF Listed, TypeOK
<1>3. seen \subseteq Listed(s)
  BY DEF Contiguous
<1>4. ASSUME NEW q \in Listed(s) \ (seen \cup p), q \notin Older(s, seen)
      PROVE  \A x \in seen \cup p : at[q] > at[x]
  <2>1. PICK x0 \in seen : ~ (at[q] <= at[x0])
    BY <1>4 DEF Older
  <2>2. \A x \in seen : at[q] > at[x]
    BY <2>1 DEF Contiguous
  <2>3. \A x \in p : at[x] <= at[x0]
    BY <1>1
  <2>4. \A x \in p : at[q] > at[x]
    BY <1>1, <1>2, <1>3, <2>2, <2>3
  <2> QED
    BY <2>2, <2>4
<1>5. ASSUME NEW q \in Older(s, seen), q \notin p
      PROVE  \A x \in seen \cup p : at[q] <= at[x]
  BY <1>1, <1>5
<1>6. Contiguous(s, seen \cup p)
  BY <1>1, <1>3, <1>4, <1>5 DEF Contiguous
<1>7. p = Older(s, seen) =>
        \A q \in Listed(s) \ (seen \cup p) : \A x \in seen \cup p : at[q] > at[x]
  BY <1>4
<1>8. p # Older(s, seen) => Listed(s) # seen \cup p
  BY <1>1
<1> QED
  BY <1>6, <1>7, <1>8 DEF Whole

\* A full page more.
LEMMA FullPage ==
  ASSUME NEW s \in Sources, NEW seen \in SUBSET Records, NEW p \in Page(s, seen),
         p # Older(s, seen), NEW n \in Nat, n * PageSize <= Cardinality(seen)
  PROVE  (n + 1) * PageSize <= Cardinality(seen \cup p)
<1>1. p \in SUBSET Records /\ Cardinality(p) = PageSize /\ seen \cap p = {}
  BY DEF Page, Older, Listed
<1>2. /\ IsFiniteSet(seen) /\ IsFiniteSet(p)
      /\ Cardinality(seen) \in Nat /\ Cardinality(p) \in Nat
  BY <1>1, FS_Subset, FS_CardinalityType
<1>3. Cardinality(seen \cap p) = 0
  BY <1>1, FS_EmptySet
<1>4. Cardinality(seen \cup p) = Cardinality(seen) + Cardinality(p)
  <2>1. Cardinality(seen \cup p) = Cardinality(seen) + Cardinality(p) - Cardinality(seen \cap p)
    BY <1>2, FS_Union
  <2> QED
    BY <1>2, <1>3, <2>1
<1>5. (n + 1) * PageSize = n * PageSize + PageSize
  OBVIOUS
<1> QED
  BY <1>1, <1>2, <1>4, <1>5

\* A walk the limit of pages ends has seen everything.
LEMMA WalkEnds ==
  ASSUME TypeOK, Occupied, Orderly, NEW w \in Workers, Walk(w), pc[w] = "pages",
         pages[w] = MaxPages \/ ~ more[w]
  PROVE  ~ more[w]
<1> SUFFICES ASSUME more[w], pages[w] = MaxPages PROVE FALSE
  OBVIOUS
<1> DEFINE s == Current(w).src
<1>1. LocalsOK
  BY Halves
<1>2. s \in Sources
  BY <1>1, CurrentFacts DEF Occupied
<1>3. /\ walked[w] \subseteq Listed(s) /\ Listed(s) # walked[w]
      /\ MaxPages * PageSize <= Cardinality(walked[w])
  BY DEF Walk, Whole, Contiguous
<1>4. Cardinality(Of(s)) <= MaxPages * PageSize
  BY <1>2 DEF Orderly
<1> HIDE DEF s
<1>5. Of(s) \in SUBSET Records /\ Listed(s) \subseteq Of(s) /\ walked[w] \in SUBSET Of(s)
  BY <1>3 DEF Of, Listed
<1>6. IsFiniteSet(Of(s))
  BY <1>5, FS_Subset
<1>7. /\ Cardinality(walked[w]) <= Cardinality(Of(s))
      /\ Cardinality(Of(s)) = Cardinality(walked[w]) => Of(s) = walked[w]
      /\ IsFiniteSet(walked[w])
  BY <1>5, <1>6, FS_Subset
<1>8. Cardinality(walked[w]) \in Nat /\ Cardinality(Of(s)) \in Nat /\ MaxPages * PageSize \in Nat
  BY <1>6, <1>7, FS_CardinalityType
<1>9. Of(s) = walked[w]
  BY <1>3, <1>4, <1>7, <1>8
<1> QED
  BY <1>3, <1>5, <1>9

\* The cursor that is saved after a whole walk is covered.
LEMMA SavedCovered ==
  ASSUME TypeOK, Occupied, Orderly, Fitting, NEW w \in Workers, Walk(w), pc[w] = "save",
         Covered(Current(w).row.cursor, Current(w).src)
  PROVE  Covered(NewCursor(Current(w).row.cursor, Found(w), plan[w]), Current(w).src)
<1> DEFINE s == Current(w).src
           c == Current(w).row.cursor
           new == NewCursor(c, Found(w), plan[w])
<1>1. LocalsOK
  BY Halves
<1>2. s \in Sources /\ c \in Cursors
  BY <1>1, CurrentFacts DEF Occupied
<1>3. plan[w] \in AllPlans /\ plan[w] \in Plans
  BY DEF Fitting, AllPlans, TypeOK
<1>4. /\ walked[w] \subseteq Listed(s) /\ Found(w) \subseteq stored
      /\ \A q \in Listed(s) \ walked[w] : \A x \in walked[w] : at[q] > at[x]
  BY DEF Walk, Whole, Contiguous
<1>5. /\ Found(w) \subseteq walked[w] /\ Found(w) \in SUBSET Records
      /\ \A q \in walked[w] \ Found(w) : Skips(c, q, plan[w])
  BY DEF Found, TypeOK
<1>6. Covered(c, s)
  OBVIOUS
<1>7. \/ new = c
      \/ plan[w] # "snapshot" /\ \E r \in Found(w) : new = RawTs(r, plan[w])
  <2> HIDE DEF c
  <2>1. PICK found \in SUBSET Records : found = Found(w)
    BY <1>5
  <2>2. PICK format \in Plans : format = plan[w]
    BY <1>3
  <2>3. \/ NewCursor(c, found, format) = c
        \/ format # "snapshot" /\ \E r \in found : NewCursor(c, found, format) = RawTs(r, format)
    <3>1. at \in [Records -> Nat] /\ c \in Cursors
      BY <1>2 DEF TypeOK
    <3>2. \/ NewCursor(c, found, format) = c
          \/ /\ format # "snapshot"
             /\ \E r \in found : /\ NewCursor(c, found, format) = RawTs(r, format)
                                 /\ \A q \in found : RawTs(q, format).n <= RawTs(r, format).n
      BY <3>1, CursorFacts, Zenon
    <3> QED
      BY <3>2, Zenon
  <2> QED
    BY <2>1, <2>2, <2>3
<1> HIDE DEF s, c, new
<1>8. \A q \in walked[w] : q \in stored
  <2> SUFFICES ASSUME NEW q \in walked[w], q \notin Found(w)  PROVE q \in stored
    BY <1>4
  <2>1. q \in Listed(s) /\ Skips(c, q, plan[w])
    BY <1>4, <1>5
  <2> QED
    BY <1>2, <1>3, <1>6, <2>1, CoveredHides
<1>9. ASSUME NEW r \in Found(w), new = RawTs(r, plan[w]), plan[w] # "snapshot"
      PROVE  Covered(new, s)
  <2>1. r \in Listed(s) /\ r \in walked[w]
    BY <1>4, <1>5
  <2>2. \A q \in Listed(s) : at[q] \in Nat
    BY DEF Listed, TypeOK
  <2>3. \A q \in Listed(s) : at[q] <= at[r] => q \in stored
    BY <1>4, <1>8, <2>1, <2>2
  <2> QED
    BY <1>3, <1>9, <2>1, <2>3 DEF Covered
<1>10. Covered(new, s)
  BY <1>6, <1>7, <1>9
<1> QED
  BY <1>10 DEF new, s, c

\* A walk goes on when its worker is left alone.
LEMMA WalkStays ==
  ASSUME TypeOK, Occupied, Growing, NEW w \in Workers, Walk(w),
         pc'[w] = pc[w], queue'[w] = queue[w], walked'[w] = walked[w], more'[w] = more[w],
         pages'[w] = pages[w], plan'[w] = plan[w]
  PROVE  Walk(w)'
<1> SUFFICES ASSUME pc'[w] \in {"pages", "save"}
    PROVE  /\ Whole(Current(w).src, walked[w], more[w])'
           /\ more'[w] => pages'[w] * PageSize <= Cardinality(walked'[w])
           /\ pc'[w] = "save" => ~ more'[w] /\ Found(w)' \subseteq stored'
  BY DEF Walk
<1> DEFINE s == Current(w).src
<1>1. LocalsOK
  BY Halves
<1>2. s \in Sources /\ Current(w)' = Current(w)
  BY <1>1, CurrentFacts DEF Occupied, Current
<1>3. Whole(s, walked[w], more[w]) /\ more[w] \in BOOLEAN
  BY DEF Walk, TypeOK
<1>4. \A seen : \A next \in BOOLEAN : Whole(s, seen, next) => Whole(s, seen, next)'
  <2>1. PICK z \in Sources : z = s
    BY <1>2
  <2>2. \A seen : \A next \in BOOLEAN : Whole(z, seen, next) => Whole(z, seen, next)'
    BY WholeStays
  <2>3. s' = s
    BY <1>2
  <2> HIDE DEF s
  <2> QED
    BY <2>1, <2>2, <2>3
<1>5. Whole(Current(w).src, walked[w], more[w])'
  <2>1. s' = s
    BY <1>2
  <2> HIDE DEF s
  <2>2. PICK z : z = s
    OBVIOUS
  <2>3. PICK seen : seen = walked[w]
    OBVIOUS
  <2>4. PICK next \in BOOLEAN : next = more[w]
    BY <1>3
  <2>5. Whole(z, seen, next)'
    BY <1>2, <1>3, <2>2, <2>3, <2>4, WholeStays
  <2> QED
    BY <2>1, <2>2, <2>3, <2>4, <2>5 DEF s, Whole, Contiguous
<1>6. Found(w)' = Found(w) \/ pc[w] # "save"
  <2>1. \A q \in walked[w] : pc[w] = "save" => at'[q] = at[q]
    BY <1>2, <1>3, Listing DEF Whole, Contiguous
  <2>2. \A c, p : \A q \in walked[w] : pc[w] = "save" => (Skips(c, q, p)' <=> Skips(c, q, p))
    BY <2>1 DEF Skips, UtcTs, RawTs
  <2> QED
    BY <1>2, <2>2 DEF Found
<1>7. pc[w] = "save" => Found(w) \subseteq stored'
  BY DEF Walk, Growing
<1> QED
  BY <1>5, <1>6, <1>7 DEF Walk

\* Covering, when a step writes at most one row and moves at most one worker.
LEMMA CoveringKept ==
  ASSUME TypeOK, Occupied, Covering, Growing,
         \A s \in Sources : row'[s].cursor = row[s].cursor \/ Covered(row'[s].cursor, s),
         NEW w \in Workers,
         \A u \in Workers \ {w} :
           /\ pc'[u] = pc[u] /\ queue'[u] = queue[u] /\ walked'[u] = walked[u]
           /\ more'[u] = more[u] /\ pages'[u] = pages[u] /\ plan'[u] = plan[u],
         \A i \in DOMAIN queue'[w] : /\ queue'[w][i].src \in Sources
                                     /\ Covered(queue'[w][i].row.cursor, queue'[w][i].src),
         Walk(w)'
  PROVE  Covering'
<1>1. \A s \in Sources : \A c : Covered(c, s) => Covered(c, s)'
  BY CoveredStays
<1>2. \A s \in Sources : Covered(row[s].cursor, s)' 
  <2> SUFFICES ASSUME NEW s \in Sources PROVE Covered(row[s].cursor, s)'
    OBVIOUS
  <2>1. Covered(row'[s].cursor, s)
    BY DEF Covering
  <2>2. PICK c : c = row'[s].cursor
    OBVIOUS
  <2>3. Covered(c, s)'
    BY <1>1, <2>1, <2>2
  <2> QED
    BY <2>2, <2>3 DEF Covered
<1>3. \A u \in Workers : \A i \in DOMAIN queue'[u] :
        queue'[u][i].src \in Sources /\ Covered(queue'[u][i].row.cursor, queue'[u][i].src)
  <2>1. \A u \in Workers : \A i \in DOMAIN queue[u] :
        queue[u][i].src \in Sources /\ Covered(queue[u][i].row.cursor, queue[u][i].src)
    <3>1. \A u \in Workers : queue[u] \in Seq([src : Sources, row : Rows])
      BY DEF TypeOK
    <3>2. \A u \in Workers : \A i \in DOMAIN queue[u] : queue[u][i] \in [src : Sources, row : Rows]
      <4> SUFFICES ASSUME NEW u \in Workers, NEW i \in DOMAIN queue[u]
                   PROVE  queue[u][i] \in [src : Sources, row : Rows]
        OBVIOUS
      <4> DEFINE q == queue[u]
      <4>1. q \in Seq([src : Sources, row : Rows]) /\ i \in DOMAIN q
        BY <3>1
      <4> HIDE DEF q
      <4>2. i \in 1 .. Len(q)
        BY <4>1, LenProperties
      <4>3. q[i] \in [src : Sources, row : Rows]
        BY <4>1, <4>2, ElementOfSeq
      <4> QED
        BY <4>3 DEF q
    <3> QED
      BY <3>2 DEF Covering
  <2> QED
    BY <2>1
<1>4. \A u \in Workers : \A i \in DOMAIN queue'[u] :
        Covered(queue[u][i].row.cursor, queue[u][i].src)'
  <2> SUFFICES ASSUME NEW u \in Workers, NEW i \in DOMAIN queue'[u]
               PROVE  Covered(queue[u][i].row.cursor, queue[u][i].src)'
    OBVIOUS
  <2>1. PICK c : c = queue'[u][i].row.cursor
    OBVIOUS
  <2>2. PICK s \in Sources : s = queue'[u][i].src
    BY <1>3
  <2>3. Covered(c, s)'
    BY <1>1, <1>3, <2>1, <2>2
  <2> QED
    BY <2>1, <2>2, <2>3 DEF Covered
<1>5. \A u \in Workers : Walk(u)'
  <2> SUFFICES ASSUME NEW u \in Workers \ {w} PROVE Walk(u)'
    OBVIOUS
  <2> QED
    BY WalkStays DEF Covering
<1> QED
  BY <1>2, <1>4, <1>5 DEF Covering

\* A visit to another source, or the end of a run, leaves no walk behind.
LEMMA CoveringVisit ==
  ASSUME TypeOK, Occupied, Covering, Growing, NEW w \in Workers, NEW q,
         Visit(w, q) \/ (EndRun(w) /\ q = <<>>),
         \A i \in DOMAIN q : q[i].src \in Sources /\ Covered(q[i].row.cursor, q[i].src),
         \A s \in Sources : row'[s].cursor = row[s].cursor \/ Covered(row'[s].cursor, s)
  PROVE  Covering'
<1>1. /\ \A u \in Workers \ {w} :
           /\ pc'[u] = pc[u] /\ queue'[u] = queue[u] /\ walked'[u] = walked[u]
           /\ more'[u] = more[u] /\ pages'[u] = pages[u] /\ plan'[u] = plan[u]
      /\ queue'[w] = q /\ pc'[w] \in {"fetch", "idle"}
  BY DEF Visit, EndRun, Goto, Set, TypeOK
<1>2. Walk(w)'
  BY <1>1 DEF Walk
<1> QED
  BY <1>1, <1>2, CoveringKept

\* The first copy of a queue is covered, and so are those left without it.
LEMMA CoveredQueue ==
  ASSUME TypeOK, Covering, NEW w \in Workers, queue[w] # <<>>
  PROVE  /\ Covered(Current(w).row.cursor, Current(w).src)
         /\ \A i \in DOMAIN Tail(queue[w]) :
              /\ Tail(queue[w])[i].src \in Sources
              /\ Covered(Tail(queue[w])[i].row.cursor, Tail(queue[w])[i].src)
<1>1. queue[w] \in Seq([src : Sources, row : Rows])
  BY DEF TypeOK
<1>2. /\ \E i \in DOMAIN queue[w] : queue[w][i] = Head(queue[w])
      /\ \A i \in DOMAIN Tail(queue[w]) : \E j \in DOMAIN queue[w] :
           queue[w][j] = Tail(queue[w])[i]
      /\ Tail(queue[w]) \in Seq([src : Sources, row : Rows])
  BY <1>1, QueueFacts
<1>3. \A i \in DOMAIN queue[w] : Covered(queue[w][i].row.cursor, queue[w][i].src)
  BY DEF Covering
<1>4. \A i \in DOMAIN Tail(queue[w]) : Tail(queue[w])[i].src \in Sources
  <2> SUFFICES ASSUME NEW i \in DOMAIN Tail(queue[w]) PROVE Tail(queue[w])[i].src \in Sources
    OBVIOUS
  <2> DEFINE q == Tail(queue[w])
  <2>1. q \in Seq([src : Sources, row : Rows]) /\ i \in DOMAIN q
    BY <1>2
  <2> HIDE DEF q
  <2>2. i \in 1 .. Len(q)
    BY <2>1, LenProperties
  <2>3. q[i] \in [src : Sources, row : Rows]
    BY <2>1, <2>2, ElementOfSeq
  <2> QED
    BY <2>3 DEF q
<1> QED
  BY <1>2, <1>3, <1>4 DEF Current

\* Initially there are neither cursors nor walks.
LEMMA CoveringInit == Init => Covering
<1> SUFFICES ASSUME Init PROVE Covering
  OBVIOUS
<1>1. \A s \in Sources : Covered(row[s].cursor, s)
  BY DEF Init, Row, Covered
<1>2. \A w \in Workers : queue[w] = <<>> /\ pc[w] = "idle"
  BY DEF Init
<1> QED
  BY <1>1, <1>2 DEF Covering, Walk

\* No step takes a record out of the store, or publishes one out of order.
LEMMA Grows == TypeOK /\ TypeOK' /\ Orderly /\ [Next]_vars => Growing
<1> SUFFICES ASSUME TypeOK, TypeOK', Orderly, [Next]_vars PROVE Growing
  OBVIOUS
<1>0. at' \in [Records -> Nat]
  BY DEF TypeOK
<1>1. ASSUME NEW r \in Records, PublishRecord(r) PROVE Growing
  <2>1. PICK t \in 1 .. MaxClock : /\ InOrder => \A q \in Listed(SourceOf[r]) : at[q] < t
                                   /\ at' = [at EXCEPT ![r] = t]
    BY <1>1 DEF PublishRecord
  <2>2. at[r] = 0 /\ UNCHANGED stored
    BY <1>1 DEF PublishRecord, database
  <2>3. at'[r] = t /\ \A q \in Records \ {r} : at'[q] = at[q]
    BY <2>1 DEF TypeOK
  <2>4. \A q \in Listed(SourceOf[r]) : at[q] < at'[r]
    BY <2>1, <2>3 DEF Orderly
  <2> QED
    BY <1>0, <2>2, <2>3, <2>4 DEF Growing
<1>2. ASSUME NEW w \in Workers, StoreRecords(w) PROVE Growing
  BY <1>0, <1>2 DEF StoreRecords, world, Growing
<1>3. CASE UNCHANGED <<at, stored>>
  BY <1>0, <1>3 DEF Growing
<1>4. ASSUME NEW s \in Sources, Drift(s) PROVE UNCHANGED <<at, stored>>
  BY <1>4 DEF Drift, database
<1>5. ASSUME NEW w \in Workers, NEW s \in Sources, NEW hint, NEW enabled,
             Register(w, s, hint, enabled) \/ EnrichRead(w, s) \/ Request(w, s)
      PROVE  UNCHANGED <<at, stored>>
  BY <1>5 DEF Register, EnrichRead, Request, world, database
<1>6. ASSUME NEW w \in Workers, NEW hint, NEW enabled,
             \/ EnrichWrite(w, hint, enabled) \/ ListSources(w) \/ Finish(w) \/ Fetch(w)
             \/ FetchUnsure(w) \/ FetchNext(w) \/ SaveState(w) \/ FetchRaises(w)
      PROVE  UNCHANGED <<at, stored>>
  BY <1>6 DEF EnrichWrite, ListSources, Finish, Fetch, FetchUnsure, FetchNext, SaveState,
              FetchRaises, world, database
<1>7. ASSUME Crash PROVE UNCHANGED <<at, stored>>
  BY <1>7 DEF Crash, world, database
<1>8. ASSUME UNCHANGED vars PROVE UNCHANGED <<at, stored>>
  BY <1>8 DEF vars, world, database
<1>9. CASE \E r \in Records : PublishRecord(r)
  BY <1>1, <1>9
<1>10. CASE \E w \in Workers : StoreRecords(w)
  BY <1>2, <1>10
<1>11. CASE ~ (\E r \in Records : PublishRecord(r)) /\ ~ (\E w \in Workers : StoreRecords(w))
  <2>1. CASE \E s \in Sources : Drift(s)
    BY <1>3, <1>4, <2>1
  <2>2. CASE \/ \E w \in Workers, s \in Sources, hint \in Hints \cup {NoPlan},
                  enabled \in BOOLEAN : Register(w, s, hint, enabled)
             \/ \E w \in Workers, s \in Sources : EnrichRead(w, s)
             \/ \E w \in Workers, s \in Sources : Request(w, s)
    <3>1. \A w \in Workers, s \in Sources : \A hint, enabled :
            Register(w, s, hint, enabled) \/ EnrichRead(w, s) \/ Request(w, s)
              => UNCHANGED <<at, stored>>
      BY <1>5
    <3> QED
      BY <1>3, <2>2, <3>1
  <2>3. CASE \E w \in Workers : Tick(w)
    <3>1. \A w \in Workers : Tick(w) => UNCHANGED <<at, stored>>
      BY DEF Tick, world, database
    <3> QED
      BY <1>3, <2>3, <3>1
  <2>4. CASE \E w \in Workers : Step(w)
    BY <1>3, <1>6, <1>11, <2>4 DEF Step
  <2>5. CASE \E w \in Workers : Fail(w)
    <3>1. \A w \in Workers : Fail(w) => UNCHANGED <<at, stored>>
      BY DEF Fail, world, database
    <3> QED
      BY <1>3, <2>5, <3>1
  <2> QED
    BY <1>3, <1>7, <1>8, <1>11, <2>1, <2>2, <2>3, <2>4, <2>5 DEF Next
<1> QED
  BY <1>9, <1>10, <1>11

\* A fetch begins a walk and a further page goes on with it.
LEMMA WalkOn ==
  ASSUME TypeOK, TypeOK', Occupied, Growing, UNCHANGED <<at, queue>>,
         NEW w \in Workers, queue[w] # <<>>, NEW seen \in SUBSET Records,
         Contiguous(Current(w).src, seen), TakePage(w, seen), pc'[w] = "pages",
         NEW n \in Nat, n * PageSize <= Cardinality(seen), pages'[w] = n + 1
  PROVE  Walk(w)'
<1>1. LocalsOK
  BY Halves
<1>2. Current(w).src \in Sources /\ Current(w)' = Current(w)
  BY <1>1, CurrentFacts DEF Current
<1>3. PICK p \in Page(Current(w).src, seen) :
        /\ walked' = Set(walked, w, seen \cup p)
        /\ more' = Set(more, w, p # Older(Current(w).src, seen))
  BY DEF TakePage
<1>4. walked'[w] = seen \cup p /\ (more'[w] <=> p # Older(Current(w).src, seen))
  BY <1>3 DEF TypeOK, Set
<1>5. Whole(Current(w).src, seen \cup p, p # Older(Current(w).src, seen))
  BY <1>2, WholePage
<1>6. more'[w] => pages'[w] * PageSize <= Cardinality(walked'[w])
  BY <1>2, <1>4, FullPage
<1>7. Whole(Current(w).src, walked[w], more[w])'
  BY <1>2, <1>4, <1>5 DEF Whole, Contiguous, Listed
<1> QED
  BY <1>6, <1>7 DEF Walk

\* Every step keeps cursors covered, for orderly sources.
LEMMA CoveringStep ==
  TypeOK /\ TypeOK' /\ Occupied /\ Fitting /\ Orderly /\ Covering /\ [Next]_vars => Covering'
<1> SUFFICES ASSUME TypeOK, TypeOK', Occupied, Fitting, Orderly, Covering, [Next]_vars
             PROVE  Covering'
  OBVIOUS
<1>0. LocalsOK /\ Growing
  BY Halves, Grows
<1>n. \A s \in Sources : Covered(NoCursor, s)
  BY DEF Covered
<1>s. \A s \in Sources : Copy(s).src = s /\ Covered(Copy(s).row.cursor, s)
  BY DEF Copy, Covering
<1>q. \A w \in Workers : \A i \in DOMAIN queue[w] :
        /\ queue[w][i].src \in Sources
        /\ Covered(queue[w][i].row.cursor, queue[w][i].src)
  <2> SUFFICES ASSUME NEW w \in Workers, NEW i \in DOMAIN queue[w]
               PROVE  queue[w][i].src \in Sources
    BY DEF Covering
  <2> DEFINE q == queue[w]
  <2>1. q \in Seq([src : Sources, row : Rows]) /\ i \in DOMAIN q
    BY DEF TypeOK
  <2> HIDE DEF q
  <2>2. i \in 1 .. Len(q)
    BY <2>1, LenProperties
  <2>3. q[i] \in [src : Sources, row : Rows]
    BY <2>1, <2>2, ElementOfSeq
  <2> QED
    BY <2>3 DEF q
<1>u. UNCHANGED <<row, locals>> => Covering'
  <2> SUFFICES ASSUME UNCHANGED <<row, locals>> PROVE Covering'
    OBVIOUS
  <2>1. UNCHANGED <<pc, queue, plan, walked, pages, more>>
    BY DEF locals
  <2>2. CASE Workers = {}
    <3>1. \A s \in Sources : \A c : Covered(c, s) => Covered(c, s)'
      BY <1>0, CoveredStays
    <3>2. \A s \in Sources : Covered(row[s].cursor, s)'
      <4> SUFFICES ASSUME NEW s \in Sources PROVE Covered(row[s].cursor, s)'
        OBVIOUS
      <4>1. PICK c : c = row[s].cursor
        OBVIOUS
      <4>2. Covered(c, s)'
        BY <3>1, <4>1 DEF Covering
      <4> QED
        BY <4>1, <4>2 DEF Covered
    <3> QED
      BY <2>2, <3>2 DEF Covering
  <2>3. CASE Workers # {}
    <3>1. PICK w \in Workers : TRUE
      BY <2>3
    <3>2. Walk(w)'
      BY <1>0, <2>1, WalkStays DEF Covering
    <3>3. \A i \in DOMAIN queue'[w] : /\ queue'[w][i].src \in Sources
                                      /\ Covered(queue'[w][i].row.cursor, queue'[w][i].src)
      BY <1>q, <2>1
    <3> QED
      BY <1>0, <2>1, <3>2, <3>3, CoveringKept
  <2> QED
    BY <2>2, <2>3
<1>1. ASSUME NEW r \in Records, PublishRecord(r) PROVE Covering'
  BY <1>1, <1>u DEF PublishRecord, database
<1>2. ASSUME NEW s \in Sources, Drift(s) PROVE Covering'
  BY <1>2, <1>u DEF Drift, database
<1>3. ASSUME NEW w \in Workers, NEW s \in Sources, NEW hint \in Hints \cup {NoPlan},
             NEW enabled \in BOOLEAN, Register(w, s, hint, enabled)
      PROVE  Covering'
  <2>1. \A z \in Sources : row'[z].cursor = row[z].cursor \/ Covered(row'[z].cursor, z)
    BY <1>3, <1>n DEF Register, Row, TypeOK
  <2>2. /\ \A u \in Workers \ {w} : pc'[u] = pc[u]
        /\ pc'[w] = "list" /\ UNCHANGED <<queue, plan, walked, more, pages>>
    BY <1>3 DEF Register, Goto, TypeOK
  <2>3. Walk(w)'
    BY <2>2 DEF Walk
  <2>4. \A i \in DOMAIN queue'[w] : /\ queue'[w][i].src \in Sources
                                    /\ Covered(queue'[w][i].row.cursor, queue'[w][i].src)
    BY <1>q, <2>2
  <2> QED
    BY <1>0, <2>1, <2>2, <2>3, <2>4, CoveringKept
<1>4. ASSUME NEW w \in Workers, NEW s \in Sources, EnrichRead(w, s) PROVE Covering'
  <2>1. /\ \A u \in Workers \ {w} : pc'[u] = pc[u] /\ queue'[u] = queue[u]
        /\ pc'[w] = "enrich" /\ queue'[w] = <<Copy(s)>>
        /\ UNCHANGED <<row, plan, walked, more, pages>>
    BY <1>4 DEF EnrichRead, Goto, Set, TypeOK, database
  <2>2. Walk(w)'
    BY <2>1 DEF Walk
  <2>3. \A i \in DOMAIN queue'[w] : /\ queue'[w][i].src \in Sources
                                    /\ Covered(queue'[w][i].row.cursor, queue'[w][i].src)
    BY <1>s, <2>1
  <2> QED
    BY <1>0, <2>1, <2>2, <2>3, CoveringKept
<1>5. ASSUME NEW w \in Workers, NEW s \in Sources, Request(w, s) PROVE Covering'
  <2>1. \A i \in DOMAIN <<Copy(s)>> : /\ <<Copy(s)>>[i].src \in Sources
                                      /\ Covered(<<Copy(s)>>[i].row.cursor, <<Copy(s)>>[i].src)
    BY <1>s
  <2>2. UNCHANGED row /\ Visit(w, <<Copy(s)>>)
    BY <1>5 DEF Request, database
  <2> QED
    BY <1>0, <2>1, <2>2, CoveringVisit
<1>6. ASSUME NEW w \in Workers, Tick(w) PROVE Covering'
  <2>1. /\ \A u \in Workers \ {w} : pc'[u] = pc[u]
        /\ pc'[w] = "list" /\ UNCHANGED <<row, queue, plan, walked, more, pages>>
    BY <1>6 DEF Tick, Goto, TypeOK, database
  <2>2. Walk(w)'
    BY <2>1 DEF Walk
  <2>3. \A i \in DOMAIN queue'[w] : /\ queue'[w][i].src \in Sources
                                    /\ Covered(queue'[w][i].row.cursor, queue'[w][i].src)
    BY <1>q, <2>1
  <2> QED
    BY <1>0, <2>1, <2>2, <2>3, CoveringKept
<1>7. ASSUME NEW w \in Workers, NEW hint \in Hints \cup {NoPlan}, NEW enabled \in BOOLEAN,
             EnrichWrite(w, hint, enabled)
      PROVE  Covering'
  <2>1. queue[w] # <<>>
    BY <1>7 DEF EnrichWrite, Occupied
  <2> DEFINE s   == Current(w).src
             old == Current(w).row
             new == Row(IF hint # NoPlan THEN hint ELSE old.hint, enabled,
                        IF old.plan # NoPlan THEN old.plan ELSE row[s].plan,
                        old.print, old.cursor)
  <2>2. s \in Sources /\ Covered(old.cursor, s)
    BY <1>0, <2>1, CurrentFacts, CoveredQueue
  <2>3. new.cursor = old.cursor
    BY DEF Row
  <2>4. row' = [row EXCEPT ![s] = new]
    BY <1>7 DEF EnrichWrite
  <2> HIDE DEF new
  <2>5. \A z \in Sources : row'[z].cursor = row[z].cursor \/ Covered(row'[z].cursor, z)
    BY <2>2, <2>3, <2>4 DEF TypeOK
  <2>6. /\ \A u \in Workers \ {w} : pc'[u] = pc[u] /\ queue'[u] = queue[u]
        /\ pc'[w] = "list" /\ queue'[w] = <<>> /\ UNCHANGED <<plan, walked, more, pages>>
    BY <1>7 DEF EnrichWrite, Goto, Set, TypeOK
  <2>7. Walk(w)'
    BY <2>6 DEF Walk
  <2>8. \A i \in DOMAIN queue'[w] : /\ queue'[w][i].src \in Sources
                                    /\ Covered(queue'[w][i].row.cursor, queue'[w][i].src)
    BY <2>6
  <2> QED
    BY <1>0, <2>5, <2>6, <2>7, <2>8, CoveringKept
<1>8. ASSUME NEW w \in Workers, ListSources(w) PROVE Covering'
  <2>1. PICK f \in Places({s \in known : row[s].enabled}) :
          Visit(w, [i \in DOMAIN f |-> Copy(Order[f[i]])])
    BY <1>8 DEF ListSources
  <2>2. \A i \in DOMAIN f : Order[f[i]] \in Sources
    BY PlacesFacts
  <2> DEFINE q == [i \in DOMAIN f |-> Copy(Order[f[i]])]
  <2>3. \A i \in DOMAIN q : q[i].src \in Sources /\ Covered(q[i].row.cursor, q[i].src)
    BY <1>s, <2>2
  <2>4. Visit(w, q) /\ UNCHANGED row
    BY <1>8, <2>1 DEF ListSources, database
  <2> HIDE DEF q
  <2> QED
    BY <1>0, <2>3, <2>4, CoveringVisit
<1>9. ASSUME NEW w \in Workers, Finish(w) \/ FetchRaises(w) \/ Fail(w) PROVE Covering'
  <2>1. EndRun(w) /\ UNCHANGED row
    BY <1>9 DEF Finish, FetchRaises, Fail, database
  <2>2. PICK q : q = <<>>
    OBVIOUS
  <2>3. \A i \in DOMAIN q : q[i].src \in Sources /\ Covered(q[i].row.cursor, q[i].src)
    BY <2>2
  <2> QED
    BY <1>0, <2>1, <2>2, <2>3, CoveringVisit
<1>10. ASSUME NEW w \in Workers, Fetch(w) PROVE Covering'
  <2>1. /\ queue[w] # <<>> /\ TakePage(w, {})
        /\ UNCHANGED <<at, row, queue>> /\ pages'[w] = 1 /\ pc'[w] = "pages"
        /\ \A u \in Workers \ {w} :
             /\ pc'[u] = pc[u] /\ pages'[u] = pages[u] /\ plan'[u] = plan[u]
    BY <1>10 DEF Fetch, Goto, Set, TypeOK, world, database
  <2>2. \A u \in Workers \ {w} : walked'[u] = walked[u] /\ more'[u] = more[u]
    BY <2>1 DEF TakePage, Set, TypeOK
  <2>3. PICK seen \in SUBSET Records, n \in Nat : seen = {} /\ n = 0
    OBVIOUS
  <2>4. Walk(w)'
    <3>1. Contiguous(Current(w).src, seen) /\ n * PageSize <= Cardinality(seen)
      BY <2>3, FS_EmptySet DEF Contiguous
    <3>2. TakePage(w, seen) /\ pages'[w] = n + 1
      BY <2>1, <2>3
    <3> QED
      BY <1>0, <2>1, <3>1, <3>2, WalkOn
  <2>5. \A i \in DOMAIN queue'[w] : /\ queue'[w][i].src \in Sources
                                    /\ Covered(queue'[w][i].row.cursor, queue'[w][i].src)
    BY <1>q, <2>1
  <2> QED
    BY <1>0, <2>1, <2>2, <2>4, <2>5, CoveringKept
<1>11. ASSUME NEW w \in Workers, FetchUnsure(w) PROVE Covering'
  <2>1. queue[w] # <<>> /\ Visit(w, Tail(queue[w])) /\ UNCHANGED row
    BY <1>11 DEF FetchUnsure, database
  <2>2. \A i \in DOMAIN Tail(queue[w]) :
          /\ Tail(queue[w])[i].src \in Sources
          /\ Covered(Tail(queue[w])[i].row.cursor, Tail(queue[w])[i].src)
    BY <2>1, CoveredQueue
  <2> QED
    BY <1>0, <2>1, <2>2, CoveringVisit
<1>12. ASSUME NEW w \in Workers, FetchNext(w) PROVE Covering'
  <2>1. /\ pc[w] = "pages" /\ more[w] /\ TakePage(w, walked[w])
        /\ UNCHANGED <<at, row, queue, pc, plan>> /\ pages'[w] = pages[w] + 1
        /\ \A u \in Workers \ {w} : pages'[u] = pages[u]
    BY <1>12 DEF FetchNext, Set, TypeOK, world, database
  <2>2. \A u \in Workers \ {w} : walked'[u] = walked[u] /\ more'[u] = more[u]
    BY <2>1 DEF TakePage, Set, TypeOK
  <2>3. /\ queue[w] # <<>> /\ walked[w] \in SUBSET Records /\ pages[w] \in Nat
        /\ Contiguous(Current(w).src, walked[w])
        /\ pages[w] * PageSize <= Cardinality(walked[w])
    BY <2>1 DEF Occupied, TypeOK, Covering, Walk, Whole
  <2>4. Walk(w)'
    BY <1>0, <2>1, <2>3, WalkOn
  <2>5. \A i \in DOMAIN queue'[w] : /\ queue'[w][i].src \in Sources
                                    /\ Covered(queue'[w][i].row.cursor, queue'[w][i].src)
    BY <1>q, <2>1
  <2> QED
    BY <1>0, <2>1, <2>2, <2>4, <2>5, CoveringKept
<1>13. ASSUME NEW w \in Workers, StoreRecords(w) PROVE Covering'
  <2>1. /\ stored' = stored \cup Found(w)
        /\ \A u \in Workers \ {w} : pc'[u] = pc[u]
        /\ pc'[w] = "save" /\ UNCHANGED <<at, row, queue, plan, walked, more, pages>>
    BY <1>13 DEF StoreRecords, Goto, TypeOK, world
  <2>2. pc[w] = "pages" /\ (pages[w] = MaxPages \/ ~ more[w])
    BY <1>13 DEF StoreRecords
  <2>3. Walk(w) /\ ~ more[w]
    BY <2>2, WalkEnds DEF Covering
  <2>4. Found(w)' = Found(w)
    BY <2>1 DEF Found, Current, Skips, UtcTs, RawTs
  <2>5. Whole(Current(w).src, walked[w], more[w])' <=> Whole(Current(w).src, walked[w], more[w])
    BY <2>1 DEF Whole, Contiguous, Listed, Current
  <2>6. Walk(w)'
    BY <2>1, <2>2, <2>3, <2>4, <2>5 DEF Walk
  <2>7. \A i \in DOMAIN queue'[w] : /\ queue'[w][i].src \in Sources
                                    /\ Covered(queue'[w][i].row.cursor, queue'[w][i].src)
    BY <1>q, <2>1
  <2> QED
    BY <1>0, <2>1, <2>6, <2>7, CoveringKept
<1>14. ASSUME NEW w \in Workers, SaveState(w) PROVE Covering'
  <2>1. queue[w] # <<>> /\ pc[w] = "save"
    BY <1>14 DEF SaveState, Occupied
  <2> DEFINE s   == Current(w).src
             cursor == NewCursor(Current(w).row.cursor, Found(w), plan[w])
             new == Row(row[s].hint, row[s].enabled, plan[w], print[w], cursor)
  <2>2. s \in Sources /\ Covered(Current(w).row.cursor, s)
    BY <1>0, <2>1, CurrentFacts, CoveredQueue
  <2>3. Covered(cursor, s)
    BY <2>1, <2>2, SavedCovered DEF Covering
  <2> HIDE DEF cursor
  <2>4. new.cursor = cursor
    BY DEF Row
  <2>5. row' = [row EXCEPT ![s] = new] /\ Visit(w, Tail(queue[w]))
    BY <1>14 DEF SaveState, cursor
  <2> HIDE DEF new
  <2>6. \A z \in Sources : row'[z].cursor = row[z].cursor \/ Covered(row'[z].cursor, z)
    BY <2>2, <2>3, <2>4, <2>5 DEF TypeOK
  <2>7. \A i \in DOMAIN Tail(queue[w]) :
          /\ Tail(queue[w])[i].src \in Sources
          /\ Covered(Tail(queue[w])[i].row.cursor, Tail(queue[w])[i].src)
    BY <2>1, CoveredQueue
  <2> QED
    BY <1>0, <2>5, <2>6, <2>7, CoveringVisit
<1>15. ASSUME Crash PROVE Covering'
  <2>1. /\ UNCHANGED <<row, at, stored>>
        /\ \A w \in Workers : queue'[w] = <<>> /\ pc'[w] = "idle"
    BY <1>15 DEF Crash, database, world
  <2>2. \A s \in Sources : Covered(row[s].cursor, s)'
    <3> SUFFICES ASSUME NEW s \in Sources PROVE Covered(row[s].cursor, s)'
      OBVIOUS
    <3>1. PICK c : c = row[s].cursor
      OBVIOUS
    <3>2. Covered(c, s)'
      BY <1>0, <3>1, CoveredStays DEF Covering
    <3> QED
      BY <2>1, <3>1, <3>2 DEF Covered
  <2>3. \A w \in Workers : Walk(w)'
    BY <2>1 DEF Walk
  <2>4. \A w \in Workers : \A i \in DOMAIN queue'[w] : FALSE
    BY <2>1
  <2> QED
    BY <2>2, <2>3, <2>4 DEF Covering
<1>16. ASSUME UNCHANGED vars PROVE Covering'
  BY <1>16, <1>u DEF vars, database
<1> QED
  BY <1>1, <1>2, <1>3, <1>4, <1>5, <1>6, <1>7, <1>8, <1>9, <1>10, <1>11, <1>12, <1>13,
     <1>14, <1>15, <1>16 DEF Next, Step

\* What a plan of now would skip, a plan there is would skip.
LEMMA CoveringCovers == TypeOK /\ Fitting /\ Orderly /\ Covering => CursorCovers
<1> SUFFICES ASSUME TypeOK, Fitting, Orderly, Covering,
                    NEW s \in known, NEW r \in Listed(s), NEW p \in PlansNow(s),
                    Skips(row[s].cursor, r, p)
             PROVE  r \in stored
  BY DEF CursorCovers
<1>1. s \in Sources /\ shape[s] \in Shapes
  BY DEF TypeOK
<1>2. Fits(row[s]) /\ Covered(row[s].cursor, s)
  BY <1>1 DEF Fitting, Covering
<1>3. p \in AllPlans
  BY <1>1, <1>2 DEF PlansNow, Fits, AllPlans, PlansOf
<1> QED
  BY <1>1, <1>2, <1>3, CoveredHides

\* Whatever threads, edits, failures and restarts come in between, the cursor saved
\* for an orderly source hides no record that is not stored
\* (source_scraper.py _scrape_one, _collect_records; sql_stores.py save_state).
THEOREM SafeCursorCovers == ASSUME Orderly PROVE Spec => []CursorCovers
<1>1. Init => Covering
  BY CoveringInit
<1>2. Init => TypeOK /\ Occupied /\ Fitting
  BY InitTyped, FittingInit
<1>3. (TypeOK /\ Occupied /\ Fitting /\ Covering) /\ [Next]_vars =>
        (TypeOK /\ Occupied /\ Fitting /\ Covering)'
  BY TypeStep, FittingStep, CoveringStep
<1>4. TypeOK /\ Occupied /\ Fitting /\ Covering => CursorCovers
  BY CoveringCovers
<1> QED
  BY <1>1, <1>2, <1>3, <1>4, PTL DEF Spec
=============================================================================
