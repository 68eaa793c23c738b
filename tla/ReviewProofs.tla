---------------------------- MODULE ReviewProofs ----------------------------
(***************************************************************************)
(* Review is type correct, posts every item at most once, with the text    *)
(* and the correlation id of its approval, and implements Gate, for every  *)
(* number of threads and items, every fault included.                      *)
(***************************************************************************)
EXTENDS Review, TLAPS

\* A batch has the elements of its head and its tail, and keeps its type.
LEMMA Split ==
  ASSUME NEW s \in Seq(Items), s # <<>>
  PROVE  /\ Head(s) \in Items /\ Tail(s) \in Seq(Items)
         /\ Elements(s) = {Head(s)} \cup Elements(Tail(s))
         /\ Len(Tail(s)) = Len(s) - 1
         /\ \A n \in 1 .. Len(s) - 1 : Tail(s)[n] = s[n + 1]
<1>1. /\ Head(s) \in Items /\ Tail(s) \in Seq(Items) /\ Head(s) = s[1]
      /\ Len(s) \in Nat \ {0} /\ DOMAIN s = 1 .. Len(s)
      /\ Len(Tail(s)) = Len(s) - 1 /\ DOMAIN Tail(s) = 1 .. Len(s) - 1
  OBVIOUS
<1>2. \A n \in 1 .. Len(s) - 1 : Tail(s)[n] = s[n + 1]
  BY <1>1
<1>3. ASSUME NEW n \in 1 .. Len(s), n # 1  PROVE s[n] \in Elements(Tail(s))
  <2>1. n - 1 \in 1 .. Len(s) - 1 /\ Tail(s)[n - 1] = s[n]
    BY <1>1, <1>2, <1>3
  <2> QED BY <2>1, <1>1 DEF Elements
<1>4. ASSUME NEW n \in 1 .. Len(s) - 1  PROVE Tail(s)[n] \in Elements(s)
  <2>1. n + 1 \in DOMAIN s /\ s[n + 1] = Tail(s)[n]
    BY <1>1, <1>2
  <2> QED BY <2>1 DEF Elements
<1>5. Elements(s) = {s[1]} \cup Elements(Tail(s))
  BY <1>1, <1>3, <1>4 DEF Elements
<1> QED BY <1>1, <1>2, <1>5

\* No element occurs twice.
Distinct(s) == \A m, n \in DOMAIN s : s[m] = s[n] => m = n

\* The tail of a batch without repetitions does not contain its head.
LEMMA HeadApart ==
  ASSUME NEW s \in Seq(Items), s # <<>>, Distinct(s)
  PROVE  Head(s) \notin Elements(Tail(s)) /\ Distinct(Tail(s))
<1>1. /\ Head(s) = s[1] /\ Len(s) \in Nat \ {0} /\ DOMAIN s = 1 .. Len(s)
      /\ DOMAIN Tail(s) = 1 .. Len(s) - 1
  OBVIOUS
<1>2. \A n \in 1 .. Len(s) - 1 : Tail(s)[n] = s[n + 1]
  BY Split
<1>3. ASSUME NEW n \in DOMAIN Tail(s)  PROVE Tail(s)[n] # Head(s)
  BY <1>1, <1>2 DEF Distinct
<1>4. ASSUME NEW m \in DOMAIN Tail(s), NEW n \in DOMAIN Tail(s), Tail(s)[m] = Tail(s)[n]
      PROVE  m = n
  <2>1. m + 1 \in DOMAIN s /\ n + 1 \in DOMAIN s /\ s[m + 1] = s[n + 1]
    BY <1>1, <1>2, <1>4
  <2> QED BY <2>1, <1>1 DEF Distinct
<1> QED BY <1>3, <1>4 DEF Elements, Distinct

-----------------------------------------------------------------------------
\* A thread that notifies is at an event, one that resumes is at an item, and no
\* run delivers an event twice.
Clean ==
  \A t \in Threads :
    /\ Distinct(work[t])
    /\ pc[t] = "notify" => work[t] # <<>>
    /\ pc[t] \in {"look", "found", "resume", "schedule"} => job[t].item \in Items

\* What a run still holds are items.
LEMMA HandsAreItems ==
  ASSUME TypeOK, Clean
  PROVE  \A t \in Threads : InHands(t) \subseteq Items
<1> SUFFICES ASSUME NEW t \in Threads PROVE InHands(t) \subseteq Items
  OBVIOUS
<1>1. \A s \in Seq(Items) : Elements(s) \subseteq Items
  BY DEF Elements
<1>2. work[t] \in Seq(Items)
  BY DEF TypeOK
<1>3. CASE pc[t] = "park"
  BY <1>1, <1>2, <1>3 DEF InHands
<1>4. CASE pc[t] = "notify"
  <2>1. Tail(work[t]) \in Seq(Items)
    BY <1>2, <1>4, Split DEF Clean
  <2> QED BY <1>1, <1>4, <2>1 DEF InHands
<1>5. CASE pc[t] = "schedule"
  BY <1>5 DEF InHands, Clean
<1>6. CASE pc[t] \notin {"park", "notify", "schedule"}
  BY <1>6 DEF InHands
<1> QED BY <1>3, <1>4, <1>5, <1>6

\* The locals of a thread that ends its run, the others untouched.
LEMMA EndRunTypes ==
  ASSUME TypeOK, NEW t \in Threads, EndRun(t)
  PROVE  /\ pc' \in [Threads -> PCs] /\ work' \in [Threads -> Seq(Items)]
         /\ job' \in [Threads -> Jobs] /\ seen' \in [Threads -> SUBSET Items]
<1>1. NoJob \in Jobs /\ "idle" \in PCs
  BY DEF NoJob, Job, Jobs, Fresh, PCs
<1>2. <<>> \in Seq(Items)
  OBVIOUS
<1> QED BY <1>1, <1>2 DEF TypeOK, EndRun, Goto

\* A step keeps every variable's type.
LEMMA TypeStep == TypeOK /\ Clean /\ [Next]_vars => TypeOK'
<1> SUFFICES ASSUME TypeOK, Clean, [Next]_vars PROVE TypeOK'
  OBVIOUS
<1> USE DEF TypeOK, shared, locals
<1>1. ASSUME NEW t \in Threads, NEW b \in Batches, Draft(t, b)  PROVE TypeOK'
  <2>1. b \in Seq(Items) /\ Elements(b) \subseteq Items
    BY BatchesAssumption DEF Elements
  <2> QED BY <1>1, <2>1 DEF Draft, Goto, PCs
<1>2. ASSUME NEW t \in Threads, Park(t)  PROVE TypeOK'
  BY <1>2, Split DEF Park, Goto, PCs
<1>3. ASSUME NEW t \in Threads, Notify(t) \/ Unheard(t)  PROVE TypeOK'
  <2>1. Tail(work[t]) \in Seq(Items)
    BY <1>3, Split DEF Notify, Unheard, Clean
  <2> QED BY <1>3, <2>1 DEF Notify, Unheard, Goto, PCs
<1>4. ASSUME NEW t \in Threads, DraftDone(t) \/ LookRaises(t) \/ ResumeNothing(t)
      PROVE  TypeOK'
  BY <1>4, EndRunTypes DEF DraftDone, LookRaises, ResumeNothing
<1>5. ASSUME NEW t \in Threads, NEW i \in Items, NEW x \in Texts \cup {NoText},
             Approve(t, i, x) \/ ApproveDirectly(t, i, x)
      PROVE  TypeOK'
  <2>1. \A e \in BOOLEAN : Job(i, x, Fresh, e) \in Jobs
    BY DEF Job, Jobs, Fresh
  <2>2. CASE Approve(t, i, x)
    <3>1. (i \in pending) \in BOOLEAN
      OBVIOUS
    <3> QED BY <2>1, <2>2, <3>1 DEF Approve, Goto, PCs
  <2>3. CASE ApproveDirectly(t, i, x)
    BY <2>1, <2>3 DEF ApproveDirectly, Goto, PCs
  <2> QED BY <1>5, <2>2, <2>3
<1>6. ASSUME NEW t \in Threads, Look(t)  PROVE TypeOK'
  BY <1>6 DEF Look, Goto, PCs
<1>7. ASSUME NEW t \in Threads, Found(t)  PROVE TypeOK'
  <2>1. job[t].item \in Items \cup {NoItem} /\ Fresh \in Items \cup {NoItem}
    BY DEF Jobs, Fresh
  <2>2. PICK view \in {seen[t], pending} :
          job' = [job EXCEPT ![t].corr = IF job[t].item \in view THEN job[t].item ELSE Fresh]
    BY <1>7 DEF Found
  <2>3. \A c \in Items \cup {NoItem} : [job[t] EXCEPT !.corr = c] \in Jobs
    BY DEF Jobs
  <2>4. \A c \in Items \cup {NoItem} : [job EXCEPT ![t].corr = c] \in [Threads -> Jobs]
    BY <2>3
  <2>5. job' \in [Threads -> Jobs]
    BY <2>1, <2>2, <2>4
  <2> QED BY <1>7, <2>5 DEF Found, Goto, PCs
<1>8. ASSUME NEW t \in Threads, Resume(t)  PROVE TypeOK'
  BY <1>8, EndRunTypes DEF Resume, Goto, PCs
<1>9. ASSUME NEW t \in Threads, Publish(t) \/ PublishUnanswered(t)  PROVE TypeOK'
  <2>1. Post(job[t]) \in Jobs
    BY DEF Post, Jobs
  <2>2. Append(posts, Post(job[t])) \in Seq(Jobs)
    BY <2>1
  <2>3. posts' = Append(posts, Post(job[t])) /\ (faults' = faults \/ faults' = faults + 1)
    BY <1>9 DEF Publish, PublishUnanswered
  <2>4. EndRun(t) /\ UNCHANGED <<drafted, pending, released, approvals, lost>>
    BY <1>9 DEF Publish, PublishUnanswered
  <2> QED BY <2>2, <2>3, <2>4, EndRunTypes
<1>10. ASSUME NEW t \in Threads, Fail(t)  PROVE TypeOK'
  BY <1>10, HandsAreItems, EndRunTypes, FaultsAssumption DEF Fail, Clean
<1>11. ASSUME Crash  PROVE TypeOK'
  <2>1. UNION {InHands(t) : t \in Threads} \subseteq Items
    BY HandsAreItems
  <2>2. NoJob \in Jobs /\ <<>> \in Seq(Items)
    BY DEF NoJob, Job, Jobs, Fresh
  <2> QED BY <1>11, <2>1, <2>2, FaultsAssumption DEF Crash, PCs
<1>12. CASE UNCHANGED vars
  BY <1>12 DEF vars
<1> QED
  BY <1>1, <1>2, <1>3, <1>4, <1>5, <1>6, <1>7, <1>8, <1>9, <1>10, <1>11, <1>12
     DEF Next, Step

\* A step keeps Clean.
LEMMA CleanStep == TypeOK /\ Clean /\ [Next]_vars => Clean'
<1> SUFFICES ASSUME TypeOK, Clean, [Next]_vars PROVE Clean'
  OBVIOUS
<1>0. Distinct(<<>>)
  BY DEF Distinct
<1>1. ASSUME NEW t \in Threads, NEW b \in Batches, Draft(t, b)  PROVE Clean'
  <2>1. Distinct(b)
    BY BatchesAssumption DEF Distinct
  <2> QED BY <1>1, <2>1 DEF Draft, Goto, Clean, TypeOK
<1>2. ASSUME NEW t \in Threads, Park(t)  PROVE Clean'
  BY <1>2 DEF Park, Goto, Clean, TypeOK
<1>3. ASSUME NEW t \in Threads, Notify(t) \/ Unheard(t)  PROVE Clean'
  <2>1. work[t] \in Seq(Items) /\ work[t] # <<>> /\ Distinct(work[t])
    BY <1>3 DEF Notify, Unheard, Clean, TypeOK
  <2>2. Distinct(Tail(work[t]))
    BY <2>1, HeadApart
  <2> QED BY <1>3, <2>2 DEF Notify, Unheard, Goto, Clean, TypeOK
<1>4. ASSUME NEW t \in Threads, EndRun(t)  PROVE Clean'
  BY <1>0, <1>4 DEF EndRun, Goto, Clean, TypeOK
<1>5. ASSUME NEW t \in Threads, NEW i \in Items, NEW x \in Texts \cup {NoText},
             Approve(t, i, x) \/ ApproveDirectly(t, i, x)
      PROVE  Clean'
  <2>1. \/ job' = [job EXCEPT ![t] = Job(i, x, Fresh, i \in pending)]
        \/ job' = [job EXCEPT ![t] = Job(i, x, Fresh, FALSE)]
    BY <1>5 DEF Approve, ApproveDirectly
  <2>2. work' = work /\ \A u \in Threads \ {t} : pc'[u] = pc[u] /\ job'[u] = job[u]
    BY <1>5 DEF Approve, ApproveDirectly, Goto, TypeOK
  <2>3. pc'[t] # "notify" /\ job'[t].item = i
    BY <1>5, <2>1 DEF Approve, ApproveDirectly, Goto, TypeOK, Job
  <2> QED BY <2>2, <2>3 DEF Clean
<1>6. ASSUME NEW t \in Threads, Look(t)  PROVE Clean'
  BY <1>6 DEF Look, Goto, Clean, TypeOK
<1>7. ASSUME NEW t \in Threads, Found(t)  PROVE Clean'
  BY <1>7 DEF Found, Goto, Clean, TypeOK, Jobs
<1>8. ASSUME NEW t \in Threads, Resume(t)  PROVE Clean'
  BY <1>4, <1>8 DEF Resume, Goto, Clean, TypeOK
<1>9. ASSUME Crash  PROVE Clean'
  BY <1>0, <1>9 DEF Crash, Clean
<1>10. CASE UNCHANGED vars
  BY <1>10 DEF vars, locals, Clean
<1> QED
  BY <1>1, <1>2, <1>3, <1>4, <1>5, <1>6, <1>7, <1>8, <1>9, <1>10
     DEF Next, Step, DraftDone, LookRaises, ResumeNothing, Publish, PublishUnanswered, Fail

\* The initial state is clean and has its types.
LEMMA Start == Init => TypeOK /\ Clean
<1> SUFFICES ASSUME Init PROVE TypeOK /\ Clean
  OBVIOUS
<1>1. NoJob \in Jobs /\ <<>> \in Seq(Items) /\ <<>> \in Seq(Jobs) /\ Distinct(<<>>)
  BY DEF NoJob, Job, Jobs, Fresh, Distinct
<1> QED BY <1>1, FaultsAssumption DEF Init, TypeOK, Clean, PCs

\* Every variable of the review flow keeps its type.
THEOREM TypeCorrect == Spec => []TypeOK
<1>1. Init => TypeOK /\ Clean
  BY Start
<1>2. (TypeOK /\ Clean) /\ [Next]_vars => (TypeOK /\ Clean)'
  BY TypeStep, CleanStep
<1> QED BY <1>1, <1>2, PTL DEF Spec

-----------------------------------------------------------------------------
\* Only thread t moves.
Only(t) ==
  \A u \in Threads \ {t} : pc'[u] = pc[u] /\ work'[u] = work[u] /\ job'[u] = job[u]

\* What the other threads hold stays in their hands.
LEMMA OthersHold ==
  ASSUME NEW t \in Threads, Only(t)
  PROVE  \A u \in Threads \ {t} : InHands(u)' = InHands(u)
BY DEF Only, InHands

\* A thread that ends its run holds nothing.
LEMMA EndRunHands ==
  ASSUME TypeOK, NEW t \in Threads, EndRun(t)
  PROVE  Only(t) /\ InHands(t)' = {} /\ pc'[t] = "idle" /\ job'[t] = NoJob
<1>1. Only(t) /\ pc'[t] = "idle" /\ job'[t] = NoJob
  BY DEF EndRun, Goto, Only, TypeOK
<1> QED BY <1>1 DEF InHands

\* An approval that is not yet carried out holds nothing.
LEMMA ApprovalHands ==
  ASSUME TypeOK, NEW t \in Threads,
         \/ \E i \in Items, x \in Texts \cup {NoText} : Approve(t, i, x) \/ ApproveDirectly(t, i, x)
         \/ Look(t)
         \/ Found(t)
  PROVE  /\ Only(t)
         /\ InHands(t) = {} /\ InHands(t)' = {} /\ pc'[t] \in {"look", "found", "resume"}
         /\ shared' = shared /\ lost' = lost
<1>1. CASE \E i \in Items, x \in Texts \cup {NoText} : Approve(t, i, x) \/ ApproveDirectly(t, i, x)
  <2>1. PICK i \in Items, x \in Texts \cup {NoText} : Approve(t, i, x) \/ ApproveDirectly(t, i, x)
    BY <1>1
  <2>2. Only(t) /\ pc[t] = "idle" /\ pc'[t] \in {"look", "resume"} /\ shared' = shared /\ lost' = lost
    BY <2>1 DEF Approve, ApproveDirectly, Goto, Only, TypeOK, shared
  <2> QED BY <2>2 DEF InHands
<1>2. CASE Look(t) \/ Found(t)
  <2>1. Only(t) /\ pc[t] \in {"look", "found"} /\ pc'[t] \in {"found", "resume"}
        /\ shared' = shared /\ lost' = lost
    BY <1>2 DEF Look, Found, Goto, Only, TypeOK, shared
  <2> QED BY <2>1 DEF InHands
<1> QED BY <1>1, <1>2

\* A run that drafts holds its batch; parking moves the head of it elsewhere.
LEMMA DraftHands ==
  ASSUME TypeOK, NEW t \in Threads, NEW b \in Batches, Draft(t, b)
  PROVE  Only(t) /\ InHands(t) = {} /\ InHands(t)' = Elements(b) /\ pc'[t] = "park"
<1>1. Only(t) /\ pc[t] = "idle" /\ pc'[t] = "park" /\ work'[t] = b
  BY BatchesAssumption DEF Draft, Goto, Only, TypeOK
<1> QED BY <1>1 DEF InHands

\* Parking takes the head of the batch out of the run's hands.
LEMMA ParkHands ==
  ASSUME TypeOK, Clean, NEW t \in Threads, Park(t)
  PROVE  /\ Only(t) /\ pc[t] = "park" /\ pc'[t] = "notify"
         /\ InHands(t) = {Head(work[t])} \cup InHands(t)'
         /\ Head(work[t]) \notin InHands(t)'
<1>1. /\ Only(t) /\ pc[t] = "park" /\ pc'[t] = "notify"
      /\ work' = work /\ work[t] # <<>> /\ work[t] \in Seq(Items)
  BY DEF Park, Goto, Only, TypeOK
<1>2. InHands(t) = Elements(work[t]) /\ InHands(t)' = Elements(Tail(work[t]))
  BY <1>1 DEF InHands
<1>3. Distinct(work[t])
  BY DEF Clean
<1>4. Elements(work[t]) = {Head(work[t])} \cup Elements(Tail(work[t]))
  BY <1>1, Split
<1>5. Head(work[t]) \notin Elements(Tail(work[t]))
  BY <1>1, <1>3, HeadApart
<1> QED BY <1>1, <1>2, <1>4, <1>5

\* Notifying drops the head of the batch only if the queue never parks it.
LEMMA NotifyHands ==
  ASSUME TypeOK, Clean, NEW t \in Threads, Notify(t) \/ Unheard(t)
  PROVE  /\ Only(t) /\ pc[t] \in {"park", "notify"} /\ pc'[t] = "park"
         /\ InHands(t)' \subseteq InHands(t)
         /\ InHands(t) \cap Parkable \subseteq InHands(t)'
<1>1. /\ Only(t) /\ pc'[t] = "park"
      /\ work'[t] = Tail(work[t]) /\ work[t] \in Seq(Items) /\ work[t] # <<>>
  BY DEF Notify, Unheard, Goto, Only, TypeOK, Clean
<1>2. InHands(t)' = Elements(Tail(work[t]))
  BY <1>1 DEF InHands
<1>3. CASE Notify(t)
  BY <1>1, <1>2, <1>3 DEF Notify, InHands
<1>4. CASE Unheard(t)
  <2>1. InHands(t) = Elements(work[t]) /\ pc[t] = "park"
    BY <1>4 DEF Unheard, InHands
  <2>2. Elements(work[t]) = {Head(work[t])} \cup Elements(Tail(work[t]))
    BY <1>1, Split
  <2>3. Head(work[t]) \notin Parkable
    BY <1>4 DEF Unheard
  <2> QED BY <1>1, <1>2, <2>1, <2>2, <2>3
<1> QED BY <1>3, <1>4

\* An approval that found its item holds it until a post of it is published.
LEMMA ResumeHands ==
  ASSUME TypeOK, Clean, NEW t \in Threads, Resume(t)
  PROVE  /\ Only(t) /\ pc[t] = "resume" /\ InHands(t) = {} /\ job[t].item \in Items
         /\ \/ pc'[t] = "idle" /\ InHands(t)' = {} /\ job'[t] = NoJob
            \/ /\ pc'[t] = "schedule" /\ InHands(t)' = {job[t].item} /\ job' = job
               /\ Type[job[t].item] = "post.drafted"
<1>1. pc[t] = "resume" /\ InHands(t) = {} /\ job[t].item \in Items
  BY DEF Resume, InHands, Clean
<1>2. CASE Type[job[t].item] = "post.drafted"
  <2>1. Only(t) /\ pc'[t] = "schedule" /\ job' = job
    BY <1>2 DEF Resume, Goto, Only, TypeOK
  <2>2. InHands(t)' = {job[t].item}
    BY <2>1 DEF InHands
  <2> QED BY <1>1, <1>2, <2>1, <2>2
<1>3. CASE Type[job[t].item] # "post.drafted"
  BY <1>1, <1>3, EndRunHands DEF Resume
<1> QED BY <1>2, <1>3

-----------------------------------------------------------------------------
(***************************************************************************)
(* OnePlace and PostedOnce are inductive together with what is known of    *)
(* the hands: before the queue a run holds nothing released, and what      *)
(* post-scheduler has been given was released.                             *)
(***************************************************************************)
Place ==
  /\ released \subseteq drafted /\ lost \subseteq drafted
  /\ \A t \in Threads :
       /\ pc[t] \in {"park", "notify"} => InHands(t) \cap released = {}
       /\ pc[t] = "schedule" => InHands(t) \subseteq released
  /\ OnePlace
  /\ PostedOnce

\* No thread is any other way than before or holds more than before, and the
\* variables all threads share do not change: Place stays.
LEMMA QuietPlace ==
  ASSUME TypeOK, Clean, Place, NEW t \in Threads, Only(t),
         InHands(t)' \subseteq InHands(t),
         pc'[t] \in {"park", "notify"} => pc[t] \in {"park", "notify"},
         pc'[t] = "schedule" => pc[t] = "schedule",
         UNCHANGED <<drafted, pending, released, posts, lost>>
  PROVE  Place'
<1>1. \A u \in Threads : InHands(u)' \subseteq InHands(u)
  BY OthersHold
<1>2. Posted' = Posted
  BY DEF Posted
<1>3. \A u \in Threads : (pc'[u] \in {"park", "notify"} => pc[u] \in {"park", "notify"})
                        /\ (pc'[u] = "schedule" => pc[u] = "schedule")
  BY DEF Only
<1>4. OnePlace'
  BY <1>1, <1>2, HandsAreItems DEF OnePlace, Place
<1>5. PostedOnce'
  BY DEF PostedOnce, Place
<1> QED BY <1>1, <1>3, <1>4, <1>5 DEF Place

\* A new batch: none of it was anywhere before.
LEMMA DraftPlace ==
  ASSUME TypeOK, Clean, Place, NEW t \in Threads, NEW b \in Batches, Draft(t, b)
  PROVE  Place'
<1>1. /\ Only(t) /\ InHands(t)' = Elements(b) /\ pc'[t] = "park"
      /\ Elements(b) \cap drafted = {} /\ drafted' = drafted \cup Elements(b)
      /\ UNCHANGED <<pending, released, posts, lost>>
  BY DraftHands DEF Draft
<1>2. \A u \in Threads \ {t} : InHands(u)' = InHands(u) /\ pc'[u] = pc[u]
  BY <1>1, OthersHold DEF Only
<1>3. Posted' = Posted
  BY <1>1 DEF Posted
<1>4. \A u \in Threads : InHands(u) \subseteq Items \cap drafted
  BY HandsAreItems DEF Place, OnePlace
<1>5. Elements(b) \subseteq Items
  BY BatchesAssumption DEF Elements
<1>6. OnePlace'
  <2> SUFFICES ASSUME NEW i \in Items
               PROVE  /\ \A u, v \in Threads : i \in InHands(u)' \cap InHands(v)' => u = v
                      /\ i \in pending => i \in drafted' \ (released \cup lost)
                      /\ i \in pending => \A u \in Threads : i \notin InHands(u)'
                      /\ \A u \in Threads : i \in InHands(u)' => i \in drafted' \ (lost \cup Posted)
                      /\ i \in Posted => i \in released \ lost
    BY <1>1, <1>3 DEF OnePlace
  <2>1. CASE i \in Elements(b)
    <3>1. i \notin drafted /\ i \notin pending /\ i \notin released /\ i \notin lost /\ i \notin Posted
      BY <1>1, <2>1 DEF Place, OnePlace
    <3>2. \A u \in Threads \ {t} : i \notin InHands(u)'
      BY <1>2, <1>4, <3>1
    <3> QED BY <1>1, <2>1, <3>1, <3>2
  <2>2. CASE i \notin Elements(b)
    <3>1. \A u \in Threads : i \in InHands(u)' => i \in InHands(u)
      BY <1>1, <1>2, <2>2
    <3> QED BY <1>1, <3>1 DEF Place, OnePlace
  <2> QED BY <2>1, <2>2
<1>7. PostedOnce'
  BY <1>1 DEF PostedOnce, Place
<1>8. Elements(b) \cap released = {}
  BY <1>1 DEF Place
<1> QED BY <1>1, <1>2, <1>6, <1>7, <1>8 DEF Place

\* Parking moves one item from a run's hands to the queue.
LEMMA ParkPlace ==
  ASSUME TypeOK, Clean, Place, NEW t \in Threads, Park(t)
  PROVE  Place'
<1> DEFINE h == Head(work[t])
<1>1. /\ Only(t) /\ pc[t] = "park" /\ pc'[t] = "notify"
      /\ InHands(t) = {h} \cup InHands(t)' /\ h \notin InHands(t)'
  BY ParkHands
<1>2. pending' = pending \cup {h} /\ UNCHANGED <<drafted, released, posts, lost>>
  BY DEF Park
<1> HIDE DEF h
<1>3. \A u \in Threads \ {t} : InHands(u)' = InHands(u) /\ pc'[u] = pc[u]
  BY <1>1, OthersHold DEF Only
<1>4. Posted' = Posted
  BY <1>2 DEF Posted
<1>5. h \in Items /\ h \in drafted \ (lost \cup Posted \cup released)
  BY <1>1, HandsAreItems DEF Place, OnePlace
<1>6. \A u \in Threads : h \notin InHands(u)'
  BY <1>1, <1>3, <1>5 DEF Place, OnePlace
<1>7. OnePlace'
  BY <1>1, <1>2, <1>3, <1>4, <1>5, <1>6 DEF Place, OnePlace
<1>8. PostedOnce'
  BY <1>2 DEF PostedOnce, Place
<1> QED BY <1>1, <1>2, <1>3, <1>7, <1>8 DEF Place

\* Resuming moves one item from the queue to the hands of one run.
LEMMA ResumePlace ==
  ASSUME TypeOK, Clean, Place, NEW t \in Threads, Resume(t)
  PROVE  Place'
<1> DEFINE i == job[t].item
<1>1. /\ Only(t) /\ InHands(t) = {} /\ i \in Items
      /\ pc'[t] \in {"idle", "schedule"}
      /\ InHands(t)' \subseteq {i}
  BY ResumeHands
<1>2. /\ i \in pending /\ pending' = pending \ {i} /\ released' = released \cup {i}
      /\ UNCHANGED <<drafted, posts, lost>>
  BY DEF Resume
<1> HIDE DEF i
<1>3. \A u \in Threads \ {t} : InHands(u)' = InHands(u) /\ pc'[u] = pc[u]
  BY <1>1, OthersHold DEF Only
<1>4. Posted' = Posted
  BY <1>2 DEF Posted
<1>5. i \in drafted \ (released \cup lost) /\ \A u \in Threads : i \notin InHands(u)
  BY <1>1, <1>2 DEF Place, OnePlace
<1>6. i \notin Posted
  BY <1>1, <1>5 DEF Place, OnePlace
<1>7. OnePlace'
  BY <1>1, <1>2, <1>3, <1>4, <1>5, <1>6 DEF Place, OnePlace
<1>8. PostedOnce'
  BY <1>2 DEF PostedOnce, Place
<1>9. \A u \in Threads \ {t} : InHands(u)' \cap {i} = {}
  BY <1>3, <1>5
<1> QED BY <1>1, <1>2, <1>3, <1>5, <1>7, <1>8, <1>9 DEF Place

\* Publishing moves one item from the hands of one run to LinkedIn.
LEMMA PublishPlace ==
  ASSUME TypeOK, Clean, Place, NEW t \in Threads, Publish(t) \/ PublishUnanswered(t)
  PROVE  Place'
<1> DEFINE i == job[t].item
<1>1. /\ pc[t] = "schedule" /\ EndRun(t) /\ posts' = Append(posts, Post(job[t]))
      /\ UNCHANGED <<drafted, pending, released, lost>>
  BY DEF Publish, PublishUnanswered
<1>2. InHands(t) = {i} /\ Only(t) /\ InHands(t)' = {} /\ pc'[t] = "idle"
  BY <1>1, EndRunHands DEF InHands
<1>3. Post(job[t]).item = i /\ Post(job[t]) \in Jobs /\ i \in Items
  BY <1>1 DEF Post, TypeOK, Jobs, Clean
<1> HIDE DEF i
<1>4. i \in released /\ i \notin lost /\ i \notin Posted
  BY <1>1, <1>2, <1>3 DEF Place, OnePlace
<1>5. /\ DOMAIN posts' = DOMAIN posts \cup {Len(posts) + 1}
      /\ posts'[Len(posts) + 1] = Post(job[t])
      /\ \A n \in DOMAIN posts : posts'[n] = posts[n]
  BY <1>1, <1>3 DEF TypeOK
<1>6. Posted' = Posted \cup {i}
  BY <1>3, <1>5 DEF Posted
<1>7. PostedOnce'
  <2>1. \A n \in DOMAIN posts : posts[n].item # i
    BY <1>4 DEF Posted
  <2> QED BY <1>3, <1>5, <2>1 DEF PostedOnce, Place
<1>8. \A u \in Threads \ {t} : InHands(u)' = InHands(u) /\ pc'[u] = pc[u] /\ i \notin InHands(u)
  BY <1>2, <1>3, OthersHold DEF Only, Place, OnePlace
<1>9. OnePlace'
  BY <1>1, <1>2, <1>4, <1>6, <1>8 DEF Place, OnePlace
<1> QED BY <1>1, <1>2, <1>7, <1>8, <1>9 DEF Place

\* A failing run drops what only it held.
LEMMA FailPlace ==
  ASSUME TypeOK, Clean, Place, NEW t \in Threads, Fail(t)
  PROVE  Place'
<1>1. /\ Only(t) /\ InHands(t)' = {} /\ pc'[t] = "idle"
      /\ lost' = lost \cup InHands(t) /\ UNCHANGED <<drafted, pending, released, posts>>
  BY EndRunHands DEF Fail, shared
<1>2. \A u \in Threads \ {t} : InHands(u)' = InHands(u) /\ pc'[u] = pc[u]
  BY <1>1, OthersHold DEF Only
<1>3. Posted' = Posted
  BY <1>1 DEF Posted
<1>4. InHands(t) \subseteq Items \cap drafted
  BY HandsAreItems DEF Place, OnePlace
<1>5. OnePlace'
  BY <1>1, <1>2, <1>3, <1>4 DEF Place, OnePlace
<1>6. PostedOnce'
  BY <1>1 DEF PostedOnce, Place
<1> QED BY <1>1, <1>2, <1>4, <1>5, <1>6 DEF Place

\* A restart drops what the queue and the runs held.
LEMMA CrashPlace ==
  ASSUME TypeOK, Clean, Place, Crash
  PROVE  Place'
<1> DEFINE held == UNION {InHands(t) : t \in Threads}
<1>1. /\ lost' = lost \cup pending \cup held /\ pending' = {}
      /\ UNCHANGED <<drafted, released, posts>>
  BY DEF Crash
<1>2. \A t \in Threads : InHands(t)' = {} /\ pc'[t] = "idle"
  BY DEF Crash, InHands
<1>3. held \subseteq Items \cap drafted
  BY HandsAreItems DEF Place, OnePlace
<1>4. held \cap Posted = {}
  BY HandsAreItems DEF Place, OnePlace
<1>5. pending \subseteq Items \cap drafted /\ pending \cap released = {}
  BY DEF Place, OnePlace, TypeOK
<1>6. Posted' = Posted
  BY <1>1 DEF Posted
<1> HIDE DEF held
<1>7. OnePlace'
  BY <1>1, <1>2, <1>3, <1>4, <1>5, <1>6 DEF Place, OnePlace
<1>8. PostedOnce'
  BY <1>1 DEF PostedOnce, Place
<1> QED BY <1>1, <1>2, <1>3, <1>5, <1>7, <1>8 DEF Place

\* A step keeps Place.
LEMMA PlaceStep == TypeOK /\ Clean /\ Place /\ [Next]_vars => Place'
<1> SUFFICES ASSUME TypeOK, Clean, Place, [Next]_vars PROVE Place'
  OBVIOUS
<1>1. ASSUME NEW t \in Threads,
             \/ \E i \in Items, x \in Texts \cup {NoText} : Approve(t, i, x) \/ ApproveDirectly(t, i, x)
             \/ Look(t)
             \/ Found(t)
      PROVE  Place'
  <2>1. /\ Only(t) /\ InHands(t)' = {} /\ pc'[t] \in {"look", "found", "resume"}
        /\ shared' = shared /\ lost' = lost
    BY <1>1, ApprovalHands
  <2> QED BY <2>1, QuietPlace DEF shared
<1>2. ASSUME NEW t \in Threads, DraftDone(t) \/ LookRaises(t) \/ ResumeNothing(t)
      PROVE  Place'
  <2>1. EndRun(t) /\ UNCHANGED shared /\ lost' = lost
    BY <1>2 DEF DraftDone, LookRaises, ResumeNothing
  <2>2. Only(t) /\ InHands(t)' = {} /\ pc'[t] = "idle"
    BY <2>1, EndRunHands
  <2> QED BY <2>1, <2>2, QuietPlace DEF shared
<1>3. ASSUME NEW t \in Threads, Notify(t) \/ Unheard(t)  PROVE Place'
  <2>1. UNCHANGED shared /\ lost' = lost
    BY <1>3 DEF Notify, Unheard
  <2>2. /\ Only(t) /\ pc[t] \in {"park", "notify"} /\ pc'[t] = "park"
        /\ InHands(t)' \subseteq InHands(t)
    BY <1>3, NotifyHands
  <2> QED BY <2>1, <2>2, QuietPlace DEF shared
<1>4. CASE UNCHANGED vars
  <2>1. /\ UNCHANGED <<drafted, pending, released, posts, lost, pc>>
        /\ \A t \in Threads : InHands(t)' = InHands(t)
    BY <1>4 DEF vars, shared, locals, InHands
  <2> QED BY <2>1 DEF Place, OnePlace, PostedOnce, Posted
<1> QED
  BY <1>1, <1>2, <1>3, <1>4, DraftPlace, ParkPlace, ResumePlace, PublishPlace, FailPlace, CrashPlace
     DEF Next, Step

\* What the queue's invariant is made of holds when the process starts.
LEMMA StartPlace == Init => Place
<1> SUFFICES ASSUME Init PROVE Place
  OBVIOUS
<1>1. \A t \in Threads : InHands(t) = {} /\ pc[t] = "idle"
  BY DEF Init, InHands
<1>2. posts = <<>> /\ Posted = {}
  BY DEF Init, Posted
<1>3. PostedOnce
  BY <1>2 DEF PostedOnce
<1> QED BY <1>1, <1>2, <1>3 DEF Init, Place, OnePlace

\* TypeOK, Clean and Place hold in every state.
LEMMA PlaceAlways == Spec => [](TypeOK /\ Clean /\ Place)
<1>1. Init => TypeOK /\ Clean /\ Place
  BY Start, StartPlace
<1>2. (TypeOK /\ Clean /\ Place) /\ [Next]_vars => (TypeOK /\ Clean /\ Place)'
  BY TypeStep, CleanStep, PlaceStep
<1> QED BY <1>1, <1>2, PTL DEF Spec

\* An item that needs a person is in one place at a time, whatever the threads
\* of the dev server do with the shared dictionary.
THEOREM HeldInOnePlace == Spec => []OnePlace
<1>1. TypeOK /\ Clean /\ Place => OnePlace
  BY DEF Place
<1> QED BY <1>1, PlaceAlways, PTL

\* An item is posted at most once, however often it is approved.
THEOREM NeverPostedTwice == Spec => []PostedOnce
<1>1. TypeOK /\ Clean /\ Place => PostedOnce
  BY DEF Place
<1> QED BY <1>1, PlaceAlways, PTL

-----------------------------------------------------------------------------
(***************************************************************************)
(* Where an approval that arrived for a parked item stands: as long as the *)
(* item is still in the queue, the endpoint finds its correlation id.      *)
(***************************************************************************)
Gone == released \cup lost

Jobwise(t) ==
  /\ pc[t] \in {"look", "found", "resume", "schedule"} => <<job[t].item, job[t].text>> \in approvals
  /\ job[t].parked =>
       /\ pc[t] = "look" => job[t].item \in pending \cup Gone
       /\ pc[t] = "found" => /\ job[t].item \in pending \cup Gone
                             /\ job[t].item \in seen[t] \cup Gone
       /\ pc[t] = "resume" => job[t].corr = job[t].item \/ job[t].item \in Gone
       /\ pc[t] = "schedule" => job[t].corr = job[t].item

Chained ==
  /\ \A t \in Threads : Jobwise(t)
  /\ PostedAsApproved
  /\ Threaded

\* An item in the queue leaves it only to be gone, and what is gone stays gone.
LEMMA GoneStays ==
  ASSUME TypeOK, Clean, Place, [Next]_vars
  PROVE  Gone \subseteq Gone' /\ pending \subseteq pending' \cup Gone'
<1> USE DEF Gone, shared
<1>1. ASSUME NEW t \in Threads, Step(t)
      PROVE  Gone \subseteq Gone' /\ pending \subseteq pending' \cup Gone'
  BY <1>1 DEF Step, Park, Notify, Unheard, DraftDone, Look, Found, LookRaises, Resume,
              ResumeNothing, Publish, PublishUnanswered, Fail
<1>2. ASSUME NEW t \in Threads, NEW b \in Batches, Draft(t, b)
      PROVE  Gone \subseteq Gone' /\ pending \subseteq pending' \cup Gone'
  BY <1>2 DEF Draft
<1>3. ASSUME NEW t \in Threads, NEW i \in Items, NEW x \in Texts \cup {NoText},
             Approve(t, i, x) \/ ApproveDirectly(t, i, x)
      PROVE  Gone \subseteq Gone' /\ pending \subseteq pending' \cup Gone'
  BY <1>3 DEF Approve, ApproveDirectly
<1>4. CASE Crash
  BY <1>4 DEF Crash
<1>5. CASE UNCHANGED vars
  BY <1>5 DEF vars
<1> QED BY <1>1, <1>2, <1>3, <1>4, <1>5 DEF Next

\* What is known of an approval stays known while other threads move.
LEMMA OthersJobwise ==
  ASSUME TypeOK, Clean, Place, [Next]_vars, approvals \subseteq approvals',
         NEW t \in Threads, Jobwise(t),
         pc'[t] = pc[t], job'[t] = job[t], seen'[t] = seen[t]
  PROVE  Jobwise(t)'
BY GoneStays DEF Jobwise

\* A thread that is not at an approval has nothing to know.
LEMMA IdleJobwise ==
  ASSUME NEW t \in Threads, pc'[t] \in {"idle", "park", "notify"}
  PROVE  Jobwise(t)'
BY DEF Jobwise

\* As long as LinkedIn is not called, what was posted stays as it was.
LEMMA NothingPosted ==
  ASSUME Chained, UNCHANGED posts, approvals \subseteq approvals'
  PROVE  PostedAsApproved' /\ Threaded'
BY DEF Chained, PostedAsApproved, Threaded

\* A step keeps Chained.
LEMMA ChainedStep == TypeOK /\ Clean /\ Place /\ Chained /\ [Next]_vars => Chained'
<1> SUFFICES ASSUME TypeOK, Clean, Place, Chained, [Next]_vars PROVE Chained'
  OBVIOUS
<1> USE DEF shared, locals
\* It is enough to look at the thread that moves.
<1>0. ASSUME NEW t \in Threads, Only(t), approvals \subseteq approvals', UNCHANGED posts,
             \A u \in Threads \ {t} : seen'[u] = seen[u],
             Jobwise(t)'
      PROVE  Chained'
  <2>1. \A u \in Threads \ {t} : Jobwise(u)'
    BY <1>0, OthersJobwise DEF Only, Chained
  <2> QED BY <1>0, <2>1, NothingPosted DEF Chained
<1>1. ASSUME NEW t \in Threads, NEW b \in Batches, Draft(t, b)  PROVE Chained'
  <2>1. pc'[t] = "park" /\ Only(t)
    BY <1>1, DraftHands
  <2>2. UNCHANGED <<posts, approvals, seen>>
    BY <1>1 DEF Draft
  <2> QED BY <1>0, <2>1, <2>2, IdleJobwise
<1>2. ASSUME NEW t \in Threads, Park(t) \/ Notify(t) \/ Unheard(t)  PROVE Chained'
  <2>1. pc'[t] \in {"park", "notify"} /\ Only(t)
    BY <1>2, ParkHands, NotifyHands
  <2>2. UNCHANGED <<posts, approvals, seen>>
    BY <1>2 DEF Park, Notify, Unheard
  <2> QED BY <1>0, <2>1, <2>2, IdleJobwise
<1>3. ASSUME NEW t \in Threads, EndRun(t), UNCHANGED <<posts, approvals>>  PROVE Chained'
  <2>1. pc'[t] = "idle" /\ Only(t)
    BY <1>3, EndRunHands
  <2>2. \A u \in Threads \ {t} : seen'[u] = seen[u]
    BY <1>3 DEF EndRun, TypeOK
  <2> QED BY <1>0, <1>3, <2>1, <2>2, IdleJobwise
<1>4. ASSUME NEW t \in Threads, DraftDone(t) \/ LookRaises(t) \/ ResumeNothing(t) \/ Fail(t)
      PROVE  Chained'
  BY <1>3, <1>4 DEF DraftDone, LookRaises, ResumeNothing, Fail
<1>5. ASSUME NEW t \in Threads, NEW i \in Items, NEW x \in Texts \cup {NoText},
             Approve(t, i, x) \/ ApproveDirectly(t, i, x)
      PROVE  Chained'
  <2>1. Only(t)
    BY <1>5, ApprovalHands
  <2>2. UNCHANGED <<posts, pending, seen>> /\ approvals' = approvals \cup {<<i, x>>}
    BY <1>5 DEF Approve, ApproveDirectly
  <2>3. CASE Approve(t, i, x)
    <3>1. pc'[t] = "look" /\ job'[t] = Job(i, x, Fresh, i \in pending)
      BY <2>3 DEF Approve, Goto, TypeOK
    <3>2. /\ job'[t].item = i /\ job'[t].text = x
          /\ job'[t].parked => i \in pending'
      <4>1. job'[t].item = i /\ job'[t].text = x
        BY <3>1 DEF Job
      <4>2. CASE i \in pending
        BY <2>2, <4>1, <4>2
      <4>3. CASE i \notin pending
        <5>1. (i \in pending) = FALSE
          BY <4>3
        <5>2. job'[t] = Job(i, x, Fresh, FALSE)
          BY <3>1, <5>1
        <5>3. job'[t].parked = FALSE
          BY <5>2 DEF Job
        <5> QED BY <4>1, <5>3
      <4> QED BY <4>2, <4>3
    <3>3. Jobwise(t)'
      BY <2>2, <3>1, <3>2 DEF Jobwise
    <3> QED BY <1>0, <2>1, <2>2, <3>3
  <2>4. CASE ApproveDirectly(t, i, x)
    <3>1. pc'[t] = "resume" /\ job'[t] = Job(i, x, Fresh, FALSE)
      BY <2>4 DEF ApproveDirectly, Goto, TypeOK
    <3>2. Jobwise(t)'
      BY <2>2, <3>1 DEF Jobwise, Job
    <3> QED BY <1>0, <2>1, <2>2, <3>2
  <2> QED BY <1>5, <2>3, <2>4
<1>6. ASSUME NEW t \in Threads, Look(t)  PROVE Chained'
  <2>1. Only(t)
    BY <1>6, ApprovalHands
  <2>2. /\ pc[t] = "look" /\ pc'[t] = "found" /\ job' = job /\ seen'[t] = pending
        /\ UNCHANGED <<shared, approvals, lost>>
        /\ \A u \in Threads \ {t} : seen'[u] = seen[u]
    BY <1>6 DEF Look, Goto, TypeOK
  <2>3. Jobwise(t)
    BY DEF Chained
  <2>4. Jobwise(t)'
    BY <2>2, <2>3 DEF Jobwise, Gone
  <2> QED BY <1>0, <2>1, <2>2, <2>4
<1>7. ASSUME NEW t \in Threads, Found(t)  PROVE Chained'
  <2>1. Only(t)
    BY <1>7, ApprovalHands
  <2>2. /\ pc[t] = "found" /\ pc'[t] = "resume"
        /\ UNCHANGED <<shared, approvals, lost>>
        /\ \A u \in Threads \ {t} : seen'[u] = seen[u]
    BY <1>7 DEF Found, Goto, TypeOK
  <2>3. PICK view \in {seen[t], pending} :
          job' = [job EXCEPT ![t].corr = IF job[t].item \in view THEN job[t].item ELSE Fresh]
    BY <1>7 DEF Found
  <2>4. /\ job'[t].item = job[t].item /\ job'[t].text = job[t].text
        /\ job'[t].parked = job[t].parked
        /\ job[t].item \in view => job'[t].corr = job[t].item
    BY <2>3 DEF TypeOK, Jobs
  <2>5. Jobwise(t)
    BY DEF Chained
  <2>6. <<job'[t].item, job'[t].text>> \in approvals'
    BY <2>2, <2>4, <2>5 DEF Jobwise
  <2>7. job[t].parked => job[t].item \in view \cup Gone
    BY <2>2, <2>5 DEF Jobwise
  <2>8. Gone' = Gone
    BY <2>2 DEF Gone
  <2>9. Jobwise(t)'
    BY <2>2, <2>4, <2>6, <2>7, <2>8 DEF Jobwise
  <2> QED BY <1>0, <2>1, <2>2, <2>9
<1>8. ASSUME NEW t \in Threads, Resume(t)  PROVE Chained'
  <2>1. CASE pc'[t] = "idle"
    <3>1. Only(t) /\ UNCHANGED <<posts, approvals>>
      BY <1>8, ResumeHands DEF Resume
    <3>2. \A u \in Threads \ {t} : seen'[u] = seen[u]
      BY <1>8 DEF Resume, EndRun, TypeOK
    <3> QED BY <1>0, <2>1, <3>1, <3>2, IdleJobwise
  <2>2. CASE pc'[t] # "idle"
    <3>1. /\ Only(t) /\ pc[t] = "resume" /\ pc'[t] = "schedule" /\ job' = job
          /\ Type[job[t].item] = "post.drafted" /\ job[t].item \in Items
      BY <1>8, <2>2, ResumeHands
    <3>2. job[t].item \in pending /\ UNCHANGED <<posts, approvals, seen>>
      BY <1>8, <3>1 DEF Resume
    <3>3. job[t].item \notin Gone
      BY <3>1, <3>2 DEF Place, OnePlace, Gone
    <3>4. Jobwise(t)
      BY DEF Chained
    <3>5. Jobwise(t)'
      BY <3>1, <3>2, <3>3, <3>4 DEF Jobwise
    <3> QED BY <1>0, <3>1, <3>2, <3>5
  <2> QED BY <2>1, <2>2
<1>9. ASSUME NEW t \in Threads, Publish(t) \/ PublishUnanswered(t)  PROVE Chained'
  <2>1. /\ pc[t] = "schedule" /\ EndRun(t) /\ posts' = Append(posts, Post(job[t]))
        /\ UNCHANGED approvals
    BY <1>9 DEF Publish, PublishUnanswered
  <2>2. Jobwise(t) /\ Post(job[t]) \in Jobs
    BY DEF Chained, Post, TypeOK, Jobs
  <2>3. /\ DOMAIN posts' = DOMAIN posts \cup {Len(posts) + 1}
        /\ posts'[Len(posts) + 1] = Post(job[t])
        /\ \A n \in DOMAIN posts : posts'[n] = posts[n]
    BY <2>1, <2>2 DEF TypeOK
  <2>4. /\ <<Post(job[t]).item, Post(job[t]).text>> \in approvals
        /\ Post(job[t]).parked => Post(job[t]).corr = Post(job[t]).item
    BY <2>1, <2>2 DEF Jobwise, Post
  <2>5. PostedAsApproved' /\ Threaded'
    BY <2>1, <2>3, <2>4 DEF Chained, PostedAsApproved, Threaded
  <2>6. pc'[t] = "idle" /\ Only(t) /\ \A u \in Threads \ {t} : seen'[u] = seen[u]
    BY <2>1, EndRunHands DEF EndRun, TypeOK
  <2>7. \A u \in Threads : Jobwise(u)'
    BY <2>1, <2>6, OthersJobwise, IdleJobwise DEF Only, Chained
  <2> QED BY <2>5, <2>7 DEF Chained
<1>10. CASE Crash
  <2>1. UNCHANGED <<posts, approvals>> /\ \A t \in Threads : pc'[t] = "idle"
    BY <1>10 DEF Crash
  <2> QED BY <2>1, NothingPosted, IdleJobwise DEF Chained
<1>11. CASE UNCHANGED vars
  <2>1. UNCHANGED <<posts, approvals, pc, job, seen>>
    BY <1>11 DEF vars
  <2> QED BY <2>1, NothingPosted, OthersJobwise DEF Chained
<1> QED
  BY <1>1, <1>2, <1>4, <1>5, <1>6, <1>7, <1>8, <1>9, <1>10, <1>11 DEF Next, Step

\* Chained holds in every state.
LEMMA ChainedAlways == Spec => []Chained
<1>1. Init => Chained
  BY DEF Init, Chained, Jobwise, PostedAsApproved, Threaded, NoJob, Job
<1>2. (TypeOK /\ Clean /\ Place /\ Chained) /\ [Next]_vars => Chained'
  BY ChainedStep
<1> QED BY <1>1, <1>2, PlaceAlways, PTL DEF Spec

\* Every post is what some approval of that item asked for.
THEOREM OnlyApprovedPosts == Spec => []PostedAsApproved
<1>1. Chained => PostedAsApproved
  BY DEF Chained
<1> QED BY <1>1, ChainedAlways, PTL

\* A post that the endpoint resumed carries the correlation id of its draft,
\* whatever other threads do between the lookup and the pop.
THEOREM ResumesThread == Spec => []Threaded
<1>1. Chained => Threaded
  BY DEF Chained
<1> QED BY <1>1, ChainedAlways, PTL

-----------------------------------------------------------------------------
\* What a run held when it ended without a fault or after publishing was nothing,
\* or is released.
LEMMA EndsEmpty ==
  ASSUME TypeOK, Clean, Place, NEW t \in Threads,
         \/ DraftDone(t) \/ LookRaises(t) \/ ResumeNothing(t)
         \/ Publish(t) \/ PublishUnanswered(t)
  PROVE  InHands(t) \subseteq released
<1>1. CASE DraftDone(t)
  <2>1. InHands(t) = Elements(<<>>)
    BY <1>1 DEF DraftDone, InHands
  <2>2. Elements(<<>>) = {}
    BY DEF Elements
  <2> QED BY <2>1, <2>2
<1>2. CASE LookRaises(t) \/ ResumeNothing(t)
  BY <1>2 DEF LookRaises, ResumeNothing, InHands
<1>3. CASE Publish(t) \/ PublishUnanswered(t)
  BY <1>3 DEF Publish, PublishUnanswered, Place
<1> QED BY <1>1, <1>2, <1>3

\* A step forgets no event that is to be parked.
LEMMA NoneForgottenStep ==
  ASSUME TypeOK, Clean, Place, NoneForgotten, [Next]_vars
  PROVE  NoneForgotten'
<1> DEFINE held == {i \in Items : \E t \in Threads : i \in InHands(t)}
<1> USE DEF shared
<1>0. Parkable \subseteq Items
  BY TypesAssumption DEF Parkable
\* It is enough that the moving thread keeps, parks, releases or loses what it held.
<1>1. ASSUME NEW t \in Threads, Only(t), drafted' = drafted,
             pending \subseteq pending' \cup released' \cup lost',
             released \subseteq released', lost \subseteq lost',
             InHands(t) \cap Parkable \subseteq InHands(t)' \cup pending' \cup released' \cup lost'
      PROVE  NoneForgotten'
  <2>1. \A u \in Threads \ {t} : InHands(u)' = InHands(u)
    BY <1>1, OthersHold
  <2> SUFFICES ASSUME NEW i \in drafted \cap Parkable
               PROVE  \/ i \in pending' \cup released' \cup lost'
                      \/ \E u \in Threads : i \in InHands(u)'
    BY <1>1 DEF NoneForgotten
  <2>2. CASE i \in pending \cup released \cup lost
    BY <1>1, <2>2
  <2>3. ASSUME NEW u \in Threads, i \in InHands(u)
        PROVE  \/ i \in pending' \cup released' \cup lost'
               \/ \E v \in Threads : i \in InHands(v)'
    BY <1>0, <1>1, <2>1, <2>3
  <2> QED BY <2>2, <2>3 DEF NoneForgotten
<1>2. ASSUME NEW t \in Threads, NEW b \in Batches, Draft(t, b)  PROVE NoneForgotten'
  <2>1. Only(t) /\ InHands(t) = {} /\ InHands(t)' = Elements(b)
    BY <1>2, DraftHands
  <2>2. drafted' = drafted \cup Elements(b) /\ UNCHANGED <<pending, released, lost>>
    BY <1>2 DEF Draft
  <2>3. \A u \in Threads \ {t} : InHands(u)' = InHands(u)
    BY <2>1, OthersHold
  <2> QED BY <2>1, <2>2, <2>3 DEF NoneForgotten
<1>3. ASSUME NEW t \in Threads, Park(t)  PROVE NoneForgotten'
  <2>1. Only(t) /\ InHands(t) = {Head(work[t])} \cup InHands(t)'
    BY <1>3, ParkHands
  <2>2. pending' = pending \cup {Head(work[t])} /\ UNCHANGED <<drafted, released, lost>>
    BY <1>3 DEF Park
  <2> QED BY <1>1, <2>1, <2>2
<1>4. ASSUME NEW t \in Threads, Notify(t) \/ Unheard(t)  PROVE NoneForgotten'
  <2>1. Only(t) /\ InHands(t) \cap Parkable \subseteq InHands(t)'
    BY <1>4, NotifyHands
  <2>2. UNCHANGED <<drafted, pending, released, lost>>
    BY <1>4 DEF Notify, Unheard
  <2> QED BY <1>1, <2>1, <2>2
<1>5. ASSUME NEW t \in Threads,
             \/ DraftDone(t) \/ LookRaises(t) \/ ResumeNothing(t)
             \/ Publish(t) \/ PublishUnanswered(t)
      PROVE  NoneForgotten'
  <2>1. EndRun(t) /\ UNCHANGED <<drafted, pending, released, lost>>
    BY <1>5 DEF DraftDone, LookRaises, ResumeNothing, Publish, PublishUnanswered
  <2> QED BY <1>1, <1>5, <2>1, EndRunHands, EndsEmpty
<1>6. ASSUME NEW t \in Threads,
             \/ \E i \in Items, x \in Texts \cup {NoText} : Approve(t, i, x) \/ ApproveDirectly(t, i, x)
             \/ Look(t)
             \/ Found(t)
      PROVE  NoneForgotten'
  <2>1. Only(t) /\ InHands(t) = {} /\ shared' = shared /\ lost' = lost
    BY <1>6, ApprovalHands
  <2> QED BY <1>1, <2>1
<1>7. ASSUME NEW t \in Threads, Resume(t)  PROVE NoneForgotten'
  <2>1. Only(t) /\ InHands(t) = {}
    BY <1>7, ResumeHands
  <2>2. /\ pending' = pending \ {job[t].item} /\ released' = released \cup {job[t].item}
        /\ UNCHANGED <<drafted, lost>>
    BY <1>7 DEF Resume
  <2> QED BY <1>1, <2>1, <2>2
<1>8. ASSUME NEW t \in Threads, Fail(t)  PROVE NoneForgotten'
  <2>1. EndRun(t) /\ lost' = lost \cup InHands(t) /\ UNCHANGED <<drafted, pending, released>>
    BY <1>8 DEF Fail
  <2> QED BY <1>1, <2>1, EndRunHands
<1>9. CASE Crash
  <2>1. /\ lost' = lost \cup pending \cup UNION {InHands(t) : t \in Threads}
        /\ UNCHANGED <<drafted, released>>
    BY <1>9 DEF Crash
  <2> QED BY <2>1 DEF NoneForgotten
<1>10. CASE UNCHANGED vars
  <2>1. UNCHANGED <<drafted, pending, released, lost>> /\ \A t \in Threads : InHands(t)' = InHands(t)
    BY <1>10 DEF vars, locals, InHands
  <2> QED BY <2>1 DEF NoneForgotten
<1> QED
  BY <1>2, <1>3, <1>4, <1>5, <1>6, <1>7, <1>8, <1>9, <1>10 DEF Next, Step

\* Nothing that is tagged requires_human and of a type the queue subscribes to
\* disappears without a fault.
THEOREM TaggedNotForgotten == Spec => []NoneForgotten
<1>1. Init => NoneForgotten
  BY DEF Init, NoneForgotten
<1>2. (TypeOK /\ Clean /\ Place /\ NoneForgotten) /\ [Next]_vars => NoneForgotten'
  BY NoneForgottenStep
<1> QED BY <1>1, <1>2, PlaceAlways, PTL DEF Spec

-----------------------------------------------------------------------------
\* What Stage depends on has not changed.
Still == UNCHANGED <<drafted, pending, released, posts, lost>>

\* Then no item is any further.
LEMMA StillStage == Still => UNCHANGED [i \in Items |-> Stage(i)]
BY DEF Still, Stage, Posted

\* A step of the review flow is a step of Gate or leaves every stage.
LEMMA StageStep ==
  ASSUME TypeOK, Clean, Place, Place', [Next]_vars
  PROVE  ReviewGate!Next \/ UNCHANGED [i \in Items |-> Stage(i)]
<1> USE DEF shared
<1> DEFINE Moved(batch, from, to) ==
             /\ batch # {} /\ batch \subseteq Items
             /\ \A i \in batch : Stage(i) \in from /\ Stage(i)' = to
             /\ \A i \in Items \ batch : Stage(i)' = Stage(i)
<1>0. ASSUME NEW batch, NEW from, NEW to, Moved(batch, from, to)
      PROVE  ReviewGate!Move(batch, from, to)
  BY <1>0 DEF ReviewGate!Move
<1> HIDE DEF Moved
<1> DEFINE Moves == ReviewGate!Next
<1>1. ASSUME NEW t \in Threads, NEW b \in Batches, Draft(t, b)  PROVE Moves
  <2>1. /\ Elements(b) \cap drafted = {} /\ drafted' = drafted \cup Elements(b) /\ b # <<>>
        /\ UNCHANGED <<pending, released, posts, lost>>
    BY <1>1 DEF Draft
  <2>2. Elements(b) \subseteq Items /\ Elements(b) # {}
    <3>1. b \in Seq(Items) /\ 1 \in DOMAIN b
      BY BatchesAssumption, <2>1
    <3> QED BY <3>1 DEF Elements
  <2>3. Posted' = Posted
    BY <2>1 DEF Posted
  <2>4. Moved(Elements(b), {"none"}, "drafted")
    <3>1. ASSUME NEW i \in Elements(b)  PROVE Stage(i) = "none" /\ Stage(i)' = "drafted"
      BY <2>1, <2>2, <2>3, <3>1 DEF Stage, Place, OnePlace
    <3>2. ASSUME NEW i \in Items \ Elements(b)  PROVE Stage(i)' = Stage(i)
      BY <2>1, <2>3, <3>2 DEF Stage
    <3> QED BY <2>2, <3>1, <3>2 DEF Moved
  <2>5. ReviewGate!Draft(Elements(b))
    BY <1>0, <2>4 DEF ReviewGate!Draft
  <2> QED BY <2>2, <2>5 DEF ReviewGate!Next
<1>2. ASSUME NEW t \in Threads, Park(t)  PROVE Moves
  <2>0. PICK h : h = Head(work[t])
    OBVIOUS
  <2>1. InHands(t) = {h} \cup InHands(t)' /\ pc[t] = "park"
    BY <1>2, <2>0, ParkHands
  <2>2. pending' = pending \cup {h} /\ UNCHANGED <<drafted, released, posts, lost>>
    BY <1>2, <2>0 DEF Park
  <2>3. h \in Items /\ h \in drafted \ (lost \cup Posted \cup released \cup pending)
    BY <2>1, HandsAreItems DEF Place, OnePlace
  <2>4. Posted' = Posted
    BY <2>2 DEF Posted
  <2>5. Moved({h}, {"drafted"}, "waiting")
    <3>1. Stage(h) = "drafted" /\ Stage(h)' = "waiting"
      BY <2>2, <2>3, <2>4 DEF Stage
    <3>2. ASSUME NEW i \in Items \ {h}  PROVE Stage(i)' = Stage(i)
      BY <2>2, <2>4 DEF Stage
    <3> QED BY <2>3, <3>1, <3>2 DEF Moved
  <2>6. ReviewGate!Hold(h)
    BY <1>0, <2>5 DEF ReviewGate!Hold
  <2> QED BY <2>3, <2>6 DEF ReviewGate!Next
<1>3. ASSUME NEW t \in Threads, Resume(t)  PROVE Moves
  <2>0. PICK i : i = job[t].item
    OBVIOUS
  <2>1. i \in Items /\ i \in pending
    BY <1>3, <2>0, ResumeHands DEF Resume
  <2>2. /\ pending' = pending \ {i} /\ released' = released \cup {i}
        /\ UNCHANGED <<drafted, posts, lost>>
    BY <1>3, <2>0 DEF Resume
  <2>3. i \in drafted \ (released \cup lost \cup Posted)
    BY <2>1 DEF Place, OnePlace
  <2>4. Posted' = Posted
    BY <2>2 DEF Posted
  <2>5. Moved({i}, {"waiting"}, "released")
    <3>1. Stage(i) = "waiting" /\ Stage(i)' = "released"
      BY <2>1, <2>2, <2>3, <2>4 DEF Stage
    <3>2. ASSUME NEW k \in Items \ {i}  PROVE Stage(k)' = Stage(k)
      BY <2>2, <2>4 DEF Stage
    <3> QED BY <2>1, <3>1, <3>2 DEF Moved
  <2>6. ReviewGate!Release(i)
    BY <1>0, <2>5 DEF ReviewGate!Release
  <2> QED BY <2>1, <2>6 DEF ReviewGate!Next
<1>4. ASSUME NEW t \in Threads, Publish(t) \/ PublishUnanswered(t)  PROVE Moves
  <2>0. PICK i : i = job[t].item
    OBVIOUS
  <2>1. /\ pc[t] = "schedule" /\ posts' = Append(posts, Post(job[t]))
        /\ UNCHANGED <<drafted, pending, released, lost>>
    BY <1>4 DEF Publish, PublishUnanswered
  <2>2. InHands(t) = {i} /\ i \in Items
    BY <2>0, <2>1 DEF InHands, Clean
  <2>3. i \in released /\ i \in drafted \ (lost \cup Posted)
    BY <2>1, <2>2 DEF Place, OnePlace
  <2>4. Post(job[t]).item = i /\ Post(job[t]) \in Jobs
    BY <2>0 DEF Post, TypeOK, Jobs
  <2>5. /\ DOMAIN posts' = DOMAIN posts \cup {Len(posts) + 1}
        /\ posts'[Len(posts) + 1] = Post(job[t])
        /\ \A n \in DOMAIN posts : posts'[n] = posts[n]
    BY <2>1, <2>4 DEF TypeOK
  <2>6. Posted' = Posted \cup {i}
    BY <2>4, <2>5 DEF Posted
  <2>7. Moved({i}, {"released"}, "delivered")
    <3>1. Stage(i) = "released" /\ Stage(i)' = "delivered"
      BY <2>1, <2>3, <2>6 DEF Stage
    <3>2. ASSUME NEW k \in Items \ {i}  PROVE Stage(k)' = Stage(k)
      BY <2>1, <2>6 DEF Stage
    <3> QED BY <2>2, <3>1, <3>2 DEF Moved
  <2>8. ReviewGate!Deliver(i)
    BY <1>0, <2>7 DEF ReviewGate!Deliver
  <2> QED BY <2>2, <2>8 DEF ReviewGate!Next
\* Losing what was not delivered, if that is anything.
<1>5. ASSUME NEW gone, gone \subseteq Items \cap drafted, gone \cap Posted = {}, gone \cap lost = {},
             lost' = lost \cup gone, pending \ pending' \subseteq gone, pending' \subseteq pending,
             UNCHANGED <<drafted, released, posts>>
      PROVE  Moves \/ UNCHANGED [i \in Items |-> Stage(i)]
  <2>1. Posted' = Posted
    BY <1>5 DEF Posted
  <2>2. CASE gone = {}
    <3>1. Still
      BY <1>5, <2>2 DEF Still
    <3> QED BY <3>1, StillStage
  <2>3. CASE gone # {}
    <3>1. ASSUME NEW i \in gone
          PROVE  Stage(i) \in {"drafted", "waiting", "released"} /\ Stage(i)' = "lost"
      BY <1>5, <2>1, <3>1 DEF Stage
    <3>2. ASSUME NEW i \in Items \ gone  PROVE Stage(i)' = Stage(i)
      BY <1>5, <2>1, <3>2 DEF Stage
    <3>3. Moved(gone, {"drafted", "waiting", "released"}, "lost")
      BY <1>5, <2>3, <3>1, <3>2 DEF Moved
    <3>4. ReviewGate!Lose(gone)
      BY <1>0, <3>3 DEF ReviewGate!Lose
    <3> QED BY <1>5, <3>4 DEF ReviewGate!Next
  <2> QED BY <2>2, <2>3
<1>6. \A t \in Threads : InHands(t) \subseteq Items \cap (drafted \ (lost \cup Posted))
  BY HandsAreItems DEF Place, OnePlace
<1>7. ASSUME NEW t \in Threads, Fail(t)
      PROVE  Moves \/ UNCHANGED [i \in Items |-> Stage(i)]
  <2>1. lost' = lost \cup InHands(t) /\ UNCHANGED <<drafted, pending, released, posts>>
    BY <1>7 DEF Fail
  <2> QED BY <1>5, <1>6, <2>1
<1>8. CASE Crash
  <2> DEFINE gone == pending \cup UNION {InHands(t) : t \in Threads}
  <2>1. lost' = lost \cup gone /\ pending' = {} /\ UNCHANGED <<drafted, released, posts>>
    BY <1>8 DEF Crash
  <2>2. pending \subseteq Items \cap (drafted \ (lost \cup Posted))
    BY DEF Place, OnePlace, TypeOK
  <2>3. gone \subseteq Items \cap (drafted \ (lost \cup Posted))
    BY <1>6, <2>2
  <2>4. pending \subseteq gone
    OBVIOUS
  <2> HIDE DEF gone
  <2> QED BY <1>5, <2>1, <2>3, <2>4
<1>9. ASSUME NEW t \in Threads,
             \/ \E i \in Items, x \in Texts \cup {NoText} : Approve(t, i, x) \/ ApproveDirectly(t, i, x)
             \/ Look(t) \/ Found(t) \/ Notify(t) \/ Unheard(t)
             \/ DraftDone(t) \/ LookRaises(t) \/ ResumeNothing(t)
      PROVE  Still
  BY <1>9 DEF Still, Approve, ApproveDirectly, Look, Found, Notify, Unheard, DraftDone,
              LookRaises, ResumeNothing
<1>10. CASE UNCHANGED vars
  BY <1>10, StillStage DEF vars, Still
<1> QED
  BY <1>1, <1>2, <1>3, <1>4, <1>7, <1>8, <1>9, <1>10, StillStage DEF Next, Step

\* The queue with its threads, faults and restarts is the gate it promises to be.
THEOREM Refinement == Spec => ImplementsGate
<1>1. Init => ReviewGate!Init
  <2>1. Init => \A i \in Items : Stage(i) = "none"
    BY DEF Init, Stage
  <2> QED BY <2>1 DEF ReviewGate!Init
<1>2. TypeOK /\ Clean /\ Place /\ Place' /\ [Next]_vars
        => [ReviewGate!Next]_[i \in Items |-> Stage(i)]
  BY StageStep
<1> QED
  BY <1>1, <1>2, PlaceAlways, PTL DEF Spec, ImplementsGate, ReviewGate!Spec
=============================================================================
