----------------------------- MODULE LeadsProofs -----------------------------
(***************************************************************************)
(* For any number of threads, any roster and boards, any limit and any     *)
(* number of faults: a scan that runs alone keeps nothing that was         *)
(* reported and nothing twice, and answers for its own errors; and whoever *)
(* runs beside whom, what the store hides was reported, is held or was     *)
(* lost to a raise.                                                        *)
(***************************************************************************)
EXTENDS Leads, SequenceTheorems, TLAPS

\* A sequence, whatever its elements.
IsSeq(s) == s \in Seq(Items(s))

Kept(t) == Keyed \cap Items(out[t])

Typed ==
  /\ DOMAIN pc = Threads /\ DOMAIN todo = Threads /\ DOMAIN out = Threads
  /\ DOMAIN own = Threads /\ DOMAIN alone = Threads
  /\ \A t \in Threads : IsSeq(out[t])

\* An idle thread holds nothing.
Rested == \A t \in Threads : ~Active(t) => out[t] = <<>> /\ own[t] = {}

\* The store has every keyed posting that was kept or reported, and no other kind.
Stored ==
  /\ seen \subseteq Keyed
  /\ reported \subseteq seen
  /\ \A t \in Threads : Kept(t) \subseteq seen

\* A scan that is alone is: nobody else is active, what it is about to keep is
\* not in the store, and the errors are its own.
Alone ==
  \A t \in Threads : (Active(t) /\ alone[t]) =>
    /\ \A u \in Threads \ {t} : ~Active(u)
    /\ pc[t] = "mark" => Head(todo[t]) \notin Keyed \cap seen
    /\ errors = own[t]

IInv == Typed /\ Rested /\ Stored /\ Alone /\ NeverAgain /\ NothingHidden
-----------------------------------------------------------------------------
\* What a sequence holds after an append.
LEMMA Appending ==
  ASSUME NEW s, IsSeq(s), NEW e
  PROVE  /\ IsSeq(Append(s, e))
         /\ Len(s) \in Nat
         /\ DOMAIN s = 1 .. Len(s)
         /\ DOMAIN Append(s, e) = 1 .. Len(s) + 1
         /\ \A i \in DOMAIN s : Append(s, e)[i] = s[i]
         /\ Append(s, e)[Len(s) + 1] = e
         /\ Items(Append(s, e)) = Items(s) \cup {e}
<1> DEFINE S == Items(s) \cup {e}
<1>1. s \in Seq(S) /\ e \in S
  BY SeqDef DEF IsSeq
<1>2. /\ Append(s, e) \in Seq(S)
      /\ Len(s) \in Nat
      /\ DOMAIN s = 1 .. Len(s)
      /\ DOMAIN Append(s, e) = 1 .. Len(s) + 1
      /\ \A i \in DOMAIN s : Append(s, e)[i] = s[i]
      /\ Append(s, e)[Len(s) + 1] = e
  BY <1>1
<1>3. Items(Append(s, e)) = S
  <2>1. \A i \in DOMAIN Append(s, e) : i \in DOMAIN s \/ i = Len(s) + 1
    BY <1>2
  <2>2. \A i \in DOMAIN s : i \in DOMAIN Append(s, e)
    BY <1>2
  <2>3. Len(s) + 1 \in DOMAIN Append(s, e)
    BY <1>2
  <2> QED
    BY <1>2, <2>1, <2>2, <2>3 DEF Items
<1>4. IsSeq(Append(s, e))
  BY <1>2, <1>3 DEF IsSeq
<1> QED
  BY <1>2, <1>3, <1>4

\* The empty sequence holds nothing.
LEMMA Empty == IsSeq(<<>>) /\ DOMAIN <<>> = {} /\ Items(<<>>) = {}
BY DEF IsSeq, Items

\* The invariant holds at first.
LEMMA InvInit == Init => IInv
<1> SUFFICES ASSUME Init
             PROVE  IInv
  OBVIOUS
<1>1. Typed /\ Rested
  BY Empty DEF Init, Typed, Rested, Active
<1>2. \A t \in Threads : ~Active(t) /\ Items(out[t]) = {}
  BY Empty DEF Init, Active
<1>3. seen = {} /\ reported = {}
  BY DEF Init
<1> QED
  BY <1>1, <1>2, <1>3 DEF IInv, Stored, Kept, Alone, NeverAgain, NothingHidden

\* A step that takes t to a place and changes what only t still looks at.
Moves(t, to) ==
  /\ DOMAIN pc' = Threads /\ DOMAIN todo' = Threads
  /\ pc'[t] = to
  /\ \A u \in Threads \ {t} : pc'[u] = pc[u] /\ todo'[u] = todo[u]

\* A step that moves one thread on without keeping, reporting or ending anything.
LEMMA Onwards ==
  ASSUME IInv, NEW t \in Threads, Active(t), NEW to \in PCs \ {"idle"}, Moves(t, to),
         to = "mark" => Head(todo'[t]) \notin Keyed \cap seen,
         UNCHANGED <<seen, errors, out, own, alone, reported, lost>>
  PROVE  IInv'
<1>1. /\ seen' = seen /\ errors' = errors /\ out' = out /\ own' = own
      /\ alone' = alone /\ reported' = reported /\ lost' = lost
  OBVIOUS
<1>2. /\ DOMAIN pc' = Threads /\ DOMAIN todo' = Threads
      /\ pc'[t] = to
      /\ \A u \in Threads \ {t} : pc'[u] = pc[u] /\ todo'[u] = todo[u]
  BY DEF Moves
<1>3. \A u \in Threads : Active(u)' <=> Active(u)
  BY <1>2 DEF Active
<1>4. Typed'
  BY <1>1, <1>2 DEF IInv, Typed, IsSeq, Items
<1>5. Rested'
  BY <1>1, <1>3 DEF IInv, Rested
<1>6. Stored'
  BY <1>1 DEF IInv, Stored, Kept, Items
<1>7. Alone'
  BY <1>1, <1>2, <1>3 DEF IInv, Alone
<1>8. NeverAgain'
  BY <1>1, <1>3 DEF IInv, NeverAgain, Items
<1>9. NothingHidden'
  BY <1>1 DEF IInv, NothingHidden, Items
<1> QED
  BY <1>4, <1>5, <1>6, <1>7, <1>8, <1>9 DEF IInv

\* A scan begins.
LEMMA SearchStep ==
  ASSUME IInv, NEW t \in Threads, Search(t)
  PROVE  IInv'
<1>1. /\ seen' = seen /\ errors' = {} /\ out' = out /\ own' = own /\ todo' = todo
      /\ reported' = reported /\ lost' = lost
      /\ alone' = [u \in Threads |-> u = t /\ \A x \in Threads \ {t} : pc[x] = "idle"]
  BY DEF Search
<1>2. /\ DOMAIN pc' = Threads
      /\ pc'[t] = "board"
      /\ \A u \in Threads \ {t} : pc'[u] = pc[u]
      /\ out[t] = <<>> /\ own[t] = {}
  BY DEF Search, Goto, Set, IInv, Typed, Rested, Active
<1>3. \A u \in Threads : alone'[u] => u = t /\ \A x \in Threads \ {t} : ~Active(x)'
  BY <1>1, <1>2 DEF Active
<1>4. Typed'
  BY <1>1, <1>2 DEF IInv, Typed, IsSeq, Items
<1>5. Rested'
  BY <1>1, <1>2 DEF IInv, Rested, Active
<1>6. Stored'
  BY <1>1 DEF IInv, Stored, Kept, Items
<1>7. Alone'
  BY <1>1, <1>2, <1>3 DEF Alone
<1>8. NeverAgain'
  BY <1>1, <1>2, <1>3, Empty DEF NeverAgain, Items
<1>9. NothingHidden'
  BY <1>1 DEF IInv, NothingHidden, Items
<1> QED
  BY <1>4, <1>5, <1>6, <1>7, <1>8, <1>9 DEF IInv

\* A board fails: on the one list of errors, and in the scan that was at it.
LEMMA SkipStep ==
  ASSUME IInv, NEW t \in Threads, Active(t), SkipBoard(t)
  PROVE  IInv'
<1>1. /\ seen' = seen /\ out' = out /\ pc' = pc /\ todo' = todo
      /\ alone' = alone /\ reported' = reported /\ lost' = lost
      /\ errors' = errors \cup {Roster[at[t]]}
      /\ own' = [own EXCEPT ![t] = own[t] \cup {Roster[at[t]]}]
  BY DEF SkipBoard, Set
<1>2. Typed'
  BY <1>1 DEF IInv, Typed, IsSeq, Items
<1>3. Rested'
  BY <1>1 DEF IInv, Typed, Rested, Active
<1>4. Stored'
  BY <1>1 DEF IInv, Stored, Kept, Items
<1>5. Alone'
  <2> SUFFICES ASSUME NEW u \in Threads, Active(u), alone[u]
               PROVE  /\ \A x \in Threads \ {u} : ~Active(x)
                      /\ pc[u] = "mark" => Head(todo[u]) \notin Keyed \cap seen
                      /\ errors' = own'[u]
    BY <1>1 DEF Alone, Active
  <2>1. u = t
    BY DEF IInv, Alone
  <2> QED
    BY <1>1, <2>1 DEF IInv, Alone, Typed
<1>6. NeverAgain'
  BY <1>1 DEF IInv, NeverAgain, Active, Items
<1>7. NothingHidden'
  BY <1>1 DEF IInv, NothingHidden, Items
<1> QED
  BY <1>2, <1>3, <1>4, <1>5, <1>6, <1>7 DEF IInv

\* A posting is marked and kept: the store did not have it, if the scan is alone.
LEMMA MarkStep ==
  ASSUME IInv, NEW t \in Threads, Mark(t)
  PROVE  IInv'
<1> DEFINE p == Head(todo[t])
<1>1. /\ errors' = errors /\ own' = own /\ alone' = alone /\ reported' = reported /\ lost' = lost
      /\ pc[t] = "mark" /\ Active(t)
      /\ seen' = seen \cup (Keyed \cap {p})
      /\ out' = [out EXCEPT ![t] = Append(out[t], p)]
  BY DEF Mark, Set, Active
<1>2. /\ DOMAIN pc' = Threads /\ DOMAIN todo' = Threads /\ DOMAIN out' = Threads
      /\ pc'[t] = "posting" /\ out'[t] = Append(out[t], p)
      /\ \A u \in Threads \ {t} : pc'[u] = pc[u] /\ todo'[u] = todo[u] /\ out'[u] = out[u]
  BY <1>1 DEF Mark, Goto, Set, IInv, Typed
<1>3. \A u \in Threads : Active(u)' <=> Active(u)
  BY <1>1, <1>2 DEF Active
<1>4. /\ IsSeq(Append(out[t], p))
      /\ Len(out[t]) \in Nat
      /\ DOMAIN out[t] = 1 .. Len(out[t])
      /\ DOMAIN Append(out[t], p) = 1 .. Len(out[t]) + 1
      /\ \A i \in DOMAIN out[t] : Append(out[t], p)[i] = out[t][i]
      /\ Append(out[t], p)[Len(out[t]) + 1] = p
      /\ Items(Append(out[t], p)) = Items(out[t]) \cup {p}
  BY Appending DEF IInv, Typed
<1> HIDE DEF p
<1>5. \A u \in Threads : Items(out[u])' = IF u = t THEN Items(out[t]) \cup {p} ELSE Items(out[u])
  BY <1>2, <1>4 DEF Items
<1>6. Typed'
  <2>1. \A u \in Threads : IsSeq(out'[u])
    BY <1>2, <1>4 DEF IInv, Typed
  <2> QED
    BY <1>1, <1>2, <2>1 DEF IInv, Typed
<1>7. Rested'
  BY <1>1, <1>2, <1>3 DEF IInv, Rested
<1>8. Stored'
  BY <1>1, <1>5 DEF IInv, Stored, Kept
<1>9. Alone'
  BY <1>1, <1>2, <1>3 DEF IInv, Alone
<1>10. NeverAgain'
  <2> SUFFICES ASSUME NEW u \in Threads, Active(u), alone[u]
               PROVE  /\ Keyed \cap Items(out[u])' \cap reported = {}
                      /\ \A m, n \in DOMAIN out'[u] :
                           (out'[u][m] \in Keyed /\ out'[u][m] = out'[u][n]) => m = n
    BY <1>1, <1>3 DEF NeverAgain
  <2>1. u = t
    BY <1>1 DEF IInv, Alone
  <2>2. p \notin Keyed \cap seen
    BY <1>1, <2>1 DEF IInv, Alone, p
  <2>3. Keyed \cap Items(out[t]) \cap reported = {}
    BY <2>1 DEF IInv, NeverAgain
  <2>4. Keyed \cap Items(out[u])' \cap reported = {}
    BY <1>5, <2>1, <2>2, <2>3 DEF IInv, Stored
  <2>5. \A m, n \in DOMAIN out[t] :
          (out[t][m] \in Keyed /\ out[t][m] = out[t][n]) => m = n
    BY <2>1 DEF IInv, NeverAgain
  <2>6. \A n \in DOMAIN out[t] : out[t][n] \in Keyed => out[t][n] # p
    BY <2>2 DEF IInv, Stored, Kept, Items
  <2>7. \A m \in DOMAIN out'[t] : \/ m \in DOMAIN out[t] /\ out'[t][m] = out[t][m]
                                  \/ m = Len(out[t]) + 1 /\ out'[t][m] = p
    BY <1>2, <1>4
  <2> QED
    BY <2>1, <2>4, <2>5, <2>6, <2>7
<1>11. NothingHidden'
  BY <1>1, <1>5 DEF IInv, NothingHidden
<1> QED
  BY <1>6, <1>7, <1>8, <1>9, <1>10, <1>11 DEF IInv

\* A scan ends: what it kept was reported, or is lost to the raise that ended it.
LEMMA EndStep ==
  ASSUME IInv, NEW t \in Threads, Active(t), EndScan(t),
         UNCHANGED <<seen, errors, alone>>,
         \/ reported' = reported \cup Kept(t) /\ lost' = lost
         \/ reported' = reported /\ lost' = lost \cup Kept(t)
  PROVE  IInv'
<1>1. seen' = seen /\ errors' = errors /\ alone' = alone
  OBVIOUS
<1>2. /\ DOMAIN pc' = Threads /\ DOMAIN todo' = Threads /\ DOMAIN out' = Threads
      /\ DOMAIN own' = Threads
      /\ pc'[t] = "idle" /\ out'[t] = <<>> /\ own'[t] = {}
      /\ \A u \in Threads \ {t} :
           pc'[u] = pc[u] /\ todo'[u] = todo[u] /\ out'[u] = out[u] /\ own'[u] = own[u]
  BY DEF EndScan, Goto, Set, IInv, Typed
<1>3. \A u \in Threads : Active(u)' => u # t /\ Active(u)
  BY <1>2 DEF Active
<1>4. \A u \in Threads : Items(out[u])' = IF u = t THEN {} ELSE Items(out[u])
  BY <1>2, Empty DEF Items
<1>5. reported \subseteq reported' /\ lost \subseteq lost' /\ Kept(t) \subseteq reported' \cup lost'
  OBVIOUS
<1>6. Typed'
  <2>1. \A u \in Threads : IsSeq(out'[u])
    BY <1>2, Empty DEF IInv, Typed
  <2> QED
    BY <1>1, <1>2, <2>1 DEF IInv, Typed
<1>7. Rested'
  BY <1>2 DEF IInv, Rested, Active
<1>8. Stored'
  BY <1>1, <1>4 DEF IInv, Stored, Kept
<1>9. \A u \in Threads : ~(Active(u)' /\ alone[u])
  BY <1>3 DEF IInv, Alone
<1>10. Alone' /\ NeverAgain'
  BY <1>1, <1>9 DEF Alone, NeverAgain
<1>11. NothingHidden'
  <2> SUFFICES ASSUME NEW x \in seen
               PROVE  x \in reported' \cup lost' \cup UNION {Items(out[u])' : u \in Threads}
    BY <1>1 DEF NothingHidden
  <2>1. CASE x \in reported \cup lost
    BY <1>5, <2>1
  <2>2. ASSUME NEW u \in Threads, x \in Items(out[u])
        PROVE  x \in reported' \cup lost' \cup UNION {Items(out[v])' : v \in Threads}
    <3>1. CASE u = t
      BY <1>5, <2>2, <3>1 DEF Kept, IInv, Stored
    <3>2. CASE u # t
      BY <1>4, <2>2, <3>2
    <3> QED
      BY <3>1, <3>2
  <2> QED
    BY <2>1, <2>2 DEF IInv, NothingHidden
<1> QED
  BY <1>6, <1>7, <1>8, <1>10, <1>11 DEF IInv

\* Every step keeps the invariant.
LEMMA InvStep == IInv /\ [Next]_vars => IInv'
<1> SUFFICES ASSUME IInv, [Next]_vars
             PROVE  IInv'
  OBVIOUS
<1>1. ASSUME UNCHANGED <<seen, errors, locals, alone, reported, lost>>
      PROVE  IInv'
  BY <1>1 DEF locals, IInv, Typed, Rested, Stored, Alone, NeverAgain, NothingHidden, Kept, Items,
              IsSeq, Active
<1>2. CASE UNCHANGED vars
  BY <1>1, <1>2 DEF vars
<1>3. ASSUME NEW p \in Postings, List(p)
      PROVE  IInv'
  BY <1>1, <1>3 DEF List
<1>4. CASE Restart
  <2>1. /\ seen' = {} /\ reported' = {} /\ alone' = alone
        /\ DOMAIN pc' = Threads /\ DOMAIN todo' = Threads /\ DOMAIN out' = Threads
        /\ DOMAIN own' = Threads
        /\ \A t \in Threads : pc'[t] = "idle" /\ out'[t] = <<>> /\ own'[t] = {}
    BY <1>4 DEF Restart
  <2>2. Typed'
    BY <2>1, Empty DEF IInv, Typed
  <2>3. \A t \in Threads : ~Active(t)' /\ Items(out[t])' = {}
    BY <2>1, Empty DEF Active, Items
  <2> QED
    BY <2>1, <2>2, <2>3 DEF IInv, Rested, Stored, Kept, Alone, NeverAgain, NothingHidden
<1>5. ASSUME NEW t \in Threads, Work(t)
      PROVE  IInv'
  <2>0. /\ DOMAIN pc = Threads /\ DOMAIN todo = Threads
    BY DEF IInv, Typed
  <2>1. CASE FetchBoard(t)
    <3>1. Moves(t, "posting")
      BY <2>0, <2>1 DEF FetchBoard, Goto, Set, Moves
    <3> QED
      BY <2>1, <3>1, Onwards DEF FetchBoard, AtBoard, Active, PCs
  <2>2. CASE UnknownAts(t) \/ FetchRaises(t)
    BY <2>2, SkipStep DEF UnknownAts, FetchRaises, AtBoard, Active
  <2>3. CASE NormalizeRaises(t)
    BY <2>3, EndStep DEF NormalizeRaises, AtBoard, Active, Kept
  <2>4. CASE Pass(t)
    <3>1. Moves(t, "posting")
      BY <2>0, <2>4 DEF Pass, Set, Moves
    <3> QED
      BY <2>4, <3>1, Onwards DEF Pass, Active, PCs
  <2>5. CASE New(t)
    <3>1. Moves(t, "mark") /\ todo' = todo
      BY <2>0, <2>5 DEF New, Goto, Set, Moves
    <3> QED
      BY <2>5, <3>1, Onwards DEF New, Active, PCs
  <2>6. CASE Mark(t)
    BY <2>6, MarkStep
  <2>7. CASE NextBoard(t)
    <3>1. Moves(t, "board")
      BY <2>0, <2>7 DEF NextBoard, Goto, Set, Moves
    <3> QED
      BY <2>7, <3>1, Onwards DEF NextBoard, Active, PCs
  <2>8. CASE SearchDone(t)
    <3>1. Moves(t, "enrich")
      BY <2>0, <2>8 DEF SearchDone, Goto, Set, Moves
    <3> QED
      BY <2>8, <3>1, Onwards DEF SearchDone, Active, PCs
  <2>9. CASE Report(t)
    BY <2>9, EndStep DEF Report, Active, Kept
  <2> QED
    BY <1>5, <2>1, <2>2, <2>3, <2>4, <2>5, <2>6, <2>7, <2>8, <2>9 DEF Work
<1> QED
  BY <1>2, <1>3, <1>4, <1>5, SearchStep DEF Next

-----------------------------------------------------------------------------
\* A scan beside which no other ran keeps no posting that was reported since the
\* process started and none twice, however many threads, boards and faults
\* (lead_sourcer.py handle, lead_store.py, job_board_client.py search_postings).
THEOREM SafeNeverAgain == Spec => []NeverAgain
<1>1. IInv => NeverAgain
  BY DEF IInv
<1> QED
  BY InvInit, InvStep, <1>1, PTL DEF Spec

\* Whatever the store hides from later scans was reported, is held by a scan that
\* is under way, or was lost to one that raised (lead_sourcer.py handle).
THEOREM SafeNothingHidden == Spec => []NothingHidden
<1>1. IInv => NothingHidden
  BY DEF IInv
<1> QED
  BY InvInit, InvStep, <1>1, PTL DEF Spec

\* A scan beside which no other ran answers for the boards that failed in it and
\* for no others (job_board_client.py last_errors).
THEOREM SafeOwnErrors == Spec => []OwnErrors
<1>1. IInv => OwnErrors
  BY DEF IInv, Alone, OwnErrors
<1> QED
  BY InvInit, InvStep, <1>1, PTL DEF Spec
=============================================================================
