--------------------------- MODULE DispatchProofs ---------------------------
(***************************************************************************)
(* Proofs about Dispatch, for any topology, reactions and fallible nodes.  *)
(***************************************************************************)
EXTENDS Dispatch, SequenceTheorems, TLAPS

USE TypesAssumption, HandlersAssumption, SubsAssumption, NoSelfTrace,
    ReactionsAssumption, RootsAssumption
-----------------------------------------------------------------------------
(***************************************************************************)
(* The call stack as a sequence.                                           *)
(***************************************************************************)
\* Taking the last element off a nonempty sequence.
LEMMA PopFacts ==
  ASSUME NEW S, NEW s \in Seq(S), s # <<>>
  PROVE  LET b == SubSeq(s, 1, Len(s) - 1)
         IN /\ Len(s) \in Nat \ {0}
            /\ s[Len(s)] \in S
            /\ b \in Seq(S)
            /\ Len(b) = Len(s) - 1
            /\ \A k \in 1 .. Len(s) - 1 : b[k] = s[k]
            /\ b = <<>> <=> Len(s) = 1
<1> DEFINE n == Len(s) - 1
           b == SubSeq(s, 1, n)
<1>1. Len(s) \in Nat \ {0} /\ s[Len(s)] \in S
  BY EmptySeq
<1>2. \A i \in 1 .. n : s[i] \in S
  BY <1>1, ElementOfSeq
<1>3. n \in Nat
  BY <1>1
<1> HIDE DEF n
<1>4. b \in Seq(S) /\ Len(b) = (IF 1 <= n THEN n - 1 + 1 ELSE 0)
      /\ \A i \in 1 .. n - 1 + 1 : b[i] = s[1 + i - 1]
  BY <1>2, <1>3, SubSeqProperties
<1>5. Len(b) = n /\ \A i \in 1 .. n : b[i] = s[i]
  BY <1>3, <1>4
<1>6. b = <<>> <=> n = 0
  BY <1>4, <1>5, EmptySeq
<1> QED
  BY <1>1, <1>4, <1>5, <1>6 DEF n

\* The first element of a nonempty sequence and the rest.
LEMMA HeadTailFacts ==
  ASSUME NEW S, NEW s \in Seq(S), s # <<>>
  PROVE  /\ Head(s) \in S
         /\ Head(s) = s[1]
         /\ 1 \in DOMAIN s
         /\ Tail(s) \in Seq(S)
         /\ \A k \in DOMAIN Tail(s) : k + 1 \in DOMAIN s /\ Tail(s)[k] = s[k + 1]
  OBVIOUS

\* Replacing the last element by one or two.
LEMMA PushFacts ==
  ASSUME NEW S, NEW s \in Seq(S), s # <<>>, NEW x \in S, NEW y \in S
  PROVE  LET b == SubSeq(s, 1, Len(s) - 1)
             t == Append(Append(b, x), y)
             u == Append(b, x)
         IN /\ t \in Seq(S) /\ u \in Seq(S)
            /\ Len(t) = Len(s) + 1 /\ Len(u) = Len(s)
            /\ \A k \in 1 .. Len(s) - 1 : t[k] = s[k] /\ u[k] = s[k]
            /\ t[Len(s)] = x /\ u[Len(s)] = x
            /\ t[Len(s) + 1] = y
<1> DEFINE b == SubSeq(s, 1, Len(s) - 1)
<1>1. b \in Seq(S) /\ Len(b) = Len(s) - 1 /\ \A k \in 1 .. Len(s) - 1 : b[k] = s[k]
  BY PopFacts
<1> HIDE DEF b
<1>2. Append(b, x) \in Seq(S) /\ Len(Append(b, x)) = Len(s)
  BY <1>1
<1> QED
  BY <1>1, <1>2 DEF b
-----------------------------------------------------------------------------
(***************************************************************************)
(* Types, and that every id on the stack and in the trace is an event of   *)
(* the run it belongs to.                                                  *)
(***************************************************************************)
\* Frames that serve run r: every id in one is an event of the run, and a node
\* is only ever called for an event that clients and nodes publish.
FramesOf(r) ==
  {f \in Frames :
     /\ f.ev \in Ids /\ RunOf(f.ev) = r
     /\ \A j \in 1 .. Len(f.out) : f.out[j] \in Ids /\ RunOf(f.out[j]) = r
     /\ (f.kind = "publish" /\ events[f.ev].type = TraceCaptured) => f.todo \in Seq(Observers)
     /\ f.kind # "publish" => f.by \in Nodes /\ events[f.ev].type \in Types}

Alive == Ids \ (done \cup failed)

\* One run at a time: all frames serve the same outside event, which has not
\* ended, and no id points outside the events.
Linked ==
  /\ \A e \in Ids : RunOf(e) \in Ids
  /\ done \subseteq Ids
  /\ failed \subseteq Ids
  /\ \A i \in RowIds : rows[i].trigger \in Ids
  /\ Running => \E r \in Alive : stack \in Seq(FramesOf(r))

\* What the frame pushed by a publish consists of.
LEMMA PublishFrameFacts ==
  ASSUME NEW e \in Nat, NEW type \in AllTypes
  PROVE  LET f == PublishFrame(type, e)
         IN /\ f \in Frames
            /\ f.kind = "publish" /\ f.ev = e /\ f.out = <<>>
            /\ type = TraceCaptured => f.todo \in Seq(Observers)
<1>1. Subs[type] \in Seq(Handlers)
  OBVIOUS
<1>2. Wild \in Seq(Observers) /\ Wild \in Seq(Handlers)
  BY SeqMonotonic DEF Handlers
<1>3. Subs[type] \o Wild \in Seq(Handlers)
  BY <1>1, <1>2, ConcatProperties
<1>4. type = TraceCaptured => Subs[type] \o Wild \in Seq(Observers)
  BY <1>2, ConcatProperties
<1>5. <<>> \in Seq(Nat)
  OBVIOUS
<1> QED
  BY <1>3, <1>4, <1>5 DEF PublishFrame, Frame, Frames

\* What the frame on top is, and what is below it.
LEMMA TopFacts ==
  ASSUME Running, NEW r \in Alive, stack \in Seq(FramesOf(r))
  PROVE  /\ Top \in FramesOf(r)
         /\ Below \in Seq(FramesOf(r))
         /\ Run = r
<1>1. Top \in FramesOf(r) /\ Below \in Seq(FramesOf(r))
  BY PopFacts DEF Running, Top, Below
<1> QED
  BY <1>1 DEF Run, RunOf, FramesOf

\* Replacing the frame on top by one or two frames of the same run.
LEMMA ReplaceTop ==
  ASSUME Running, NEW S, stack \in Seq(S), NEW x \in S, NEW y \in S
  PROVE  Append(Below, x) \in Seq(S) /\ Append(Append(Below, x), y) \in Seq(S)
BY PushFacts DEF Running, Below

\* New events leave everything said about the old ones in place.
LEMMA MoreEvents ==
  ASSUME TypeOK, events' \in Seq(Events), Len(events') >= Len(events),
         \A e \in Ids : events'[e] = events[e]
  PROVE  /\ Ids \subseteq Ids'
         /\ \A r : FramesOf(r) \subseteq FramesOf(r)'
         /\ \A e \in Ids : events'[e].root = RunOf(e)
<1>1. Len(events) \in Nat /\ Len(events') \in Nat
  BY LenProperties DEF TypeOK
<1>2. Ids \subseteq Ids'
  BY <1>1 DEF Ids
<1>3. \A e \in Ids : events'[e].root = RunOf(e)
  BY DEF RunOf
<1>4. ASSUME NEW r, NEW f \in FramesOf(r) PROVE f \in FramesOf(r)'
  BY <1>2, <1>3, <1>4 DEF FramesOf, RunOf
<1> QED
  BY <1>2, <1>3, <1>4

\* What TraceRecorder.record does to the events and the rows.
LEMMA CaptureFacts ==
  ASSUME TypeOK, Linked, Running, NEW types \in Seq(Types), NEW error \in BOOLEAN,
         Top.ev \in Ids, Top.by \in Nodes, Capture(types, error)
  PROVE  LET n == Len(events) + Len(types) + 1
             src == Len(rows) + 1
             out == [i \in DOMAIN types |-> Len(events) + i]
         IN /\ events' \in Seq(Events)
            /\ Len(events') = n
            /\ \A e \in Ids : events'[e] = events[e]
            /\ \A i \in 1 .. Len(types) : events'[Len(events) + i] = Child(Top.ev, types[i], src)
            /\ events'[n] = Child(Top.ev, TraceCaptured, src)
            /\ out \in Seq(Nat) /\ Len(out) = Len(types)
            /\ rows' \in Seq(Traces)
            /\ Len(rows') = Len(rows) + 1
            /\ \A i \in RowIds : rows'[i] = rows[i]
            /\ rows'[Len(rows) + 1].node = Top.by
            /\ rows'[Len(rows) + 1].trigger = Top.ev
            /\ rows'[Len(rows) + 1].emitted = out
            /\ rows'[Len(rows) + 1].error = error
<1> DEFINE src == Len(rows) + 1
           out == [i \in DOMAIN types |-> Len(events) + i]
           kids == [i \in DOMAIN types |-> Child(Top.ev, types[i], src)]
           last == Child(Top.ev, TraceCaptured, src)
           row == [node |-> Top.by, trigger |-> Top.ev, emitted |-> out, error |-> error]
<1>1. Len(types) \in Nat /\ DOMAIN types = 1 .. Len(types) /\ Len(rows) \in Nat
      /\ Len(events) \in Nat
  BY LenProperties DEF TypeOK
<1>2. \A t \in AllTypes : Child(Top.ev, t, src) \in Events
  <2>1. events[Top.ev] \in Events
    BY ElementOfSeq DEF TypeOK, Ids
  <2> QED
    BY <1>1, <2>1 DEF Child, Events
<1>3. kids \in Seq(Events) /\ Len(kids) = Len(types)
  BY <1>1, <1>2 DEF AllTypes
<1>4. out \in Seq(Nat) /\ Len(out) = Len(types)
  BY <1>1
<1>5. row \in Traces
  BY <1>4 DEF Traces, TypeOK, Ids
<1>6. events' = Append(events \o kids, last) /\ rows' = Append(rows, row)
  BY DEF Capture
<1>7. last \in Events
  BY <1>2 DEF AllTypes
<1>8. /\ events \o kids \in Seq(Events)
      /\ Len(events \o kids) = Len(events) + Len(types)
      /\ \A e \in Ids : (events \o kids)[e] = events[e]
      /\ \A i \in 1 .. Len(types) : (events \o kids)[Len(events) + i] = kids[i]
  BY <1>1, <1>3, ConcatProperties DEF TypeOK, Ids
<1> HIDE DEF kids, last, row, out, src
<1>9. /\ events' \in Seq(Events)
      /\ Len(events') = Len(events) + Len(types) + 1
      /\ \A e \in 1 .. Len(events) + Len(types) : events'[e] = (events \o kids)[e]
      /\ events'[Len(events) + Len(types) + 1] = last
  BY <1>1, <1>6, <1>7, <1>8
<1>10. /\ rows' \in Seq(Traces)
       /\ Len(rows') = Len(rows) + 1
       /\ \A i \in RowIds : rows'[i] = rows[i]
       /\ rows'[Len(rows) + 1] = row
  BY <1>1, <1>5, <1>6 DEF TypeOK, RowIds
<1>11. \A e \in Ids : events'[e] = events[e]
  BY <1>1, <1>8, <1>9 DEF Ids
<1>12. \A i \in 1 .. Len(types) : events'[Len(events) + i] = kids[i]
  BY <1>1, <1>8, <1>9
<1> QED
  BY <1>1, <1>4, <1>9, <1>10, <1>11, <1>12 DEF kids, last, row, out, src

\* The step that writes a row and starts publishing its trace.
LEMMA CaptureStep ==
  ASSUME TypeOK, Linked, Running, Top.kind = "handle",
         NEW types \in Seq(Types), NEW error \in BOOLEAN, Capture(types, error)
  PROVE  TypeOK' /\ Linked'
<1>1. PICK r \in Alive : stack \in Seq(FramesOf(r))
  BY DEF Linked
<1>2. Top \in FramesOf(r) /\ Below \in Seq(FramesOf(r))
  BY <1>1, TopFacts
<1>3. Top.ev \in Ids /\ Top.by \in Nodes /\ RunOf(Top.ev) = r
  BY <1>2 DEF FramesOf
<1> DEFINE n == Len(events) + Len(types) + 1
           src == Len(rows) + 1
           out == [i \in DOMAIN types |-> Len(events) + i]
           x == Frame(IF error THEN "raise" ELSE "emit", Top.ev, Top.by, <<>>, out)
           y == PublishFrame(TraceCaptured, n)
<1>4. /\ events' \in Seq(Events) /\ Len(events') = n
      /\ \A e \in Ids : events'[e] = events[e]
      /\ \A i \in 1 .. Len(types) : events'[Len(events) + i] = Child(Top.ev, types[i], src)
      /\ events'[n] = Child(Top.ev, TraceCaptured, src)
      /\ out \in Seq(Nat) /\ Len(out) = Len(types)
      /\ rows' \in Seq(Traces)
      /\ Len(rows') = Len(rows) + 1
      /\ \A i \in RowIds : rows'[i] = rows[i]
      /\ rows'[Len(rows) + 1].trigger = Top.ev
  BY <1>3, CaptureFacts
<1>5. Len(events) \in Nat /\ Len(types) \in Nat /\ DOMAIN types = 1 .. Len(types) /\ Len(rows) \in Nat
  BY LenProperties DEF TypeOK
<1>6. \A i \in 1 .. Len(types) : out[i] = Len(events) + i
  BY <1>5
<1>7. stack' = Append(Append(Below, x), y) /\ UNCHANGED <<seen, done, failed>>
  BY DEF Capture
<1> HIDE DEF out, n, src
<1>8. n \in Nat /\ n > Len(events) /\ n = Len(events) + Len(types) + 1
  BY <1>5 DEF n
<1>9. /\ Ids \subseteq Ids'
      /\ FramesOf(r) \subseteq FramesOf(r)'
      /\ \A e \in Ids : events'[e].root = RunOf(e)
  BY <1>4, <1>8, MoreEvents DEF RunOf
<1>10. \A i \in 1 .. Len(types) : Len(events) + i \in Ids' /\ events'[Len(events) + i].root = r
  <2>1. ASSUME NEW i \in 1 .. Len(types)
        PROVE  Len(events) + i \in Ids' /\ events'[Len(events) + i].root = r
    <3>1. events'[Len(events) + i] = Child(Top.ev, types[i], src)
      BY <1>4
    <3>2. Len(events) + i \in 1 .. n
      BY <1>5, <1>8
    <3> QED
      BY <1>3, <1>4, <3>1, <3>2 DEF Ids, RunOf, Child
  <2> QED
    BY <2>1
<1>11. n \in Ids' /\ events'[n].root = r /\ events'[n].type = TraceCaptured
  BY <1>3, <1>4, <1>8 DEF Ids, RunOf, Child
<1>12. x \in FramesOf(r)'
  <2>1. x \in Frames
    BY <1>2, <1>4 DEF Frame, Frames, FramesOf
  <2>2. events'[Top.ev].type \in Types
    BY <1>2, <1>4 DEF FramesOf
  <2>3. x.ev = Top.ev /\ x.by = Top.by /\ x.out = out /\ x.kind # "publish"
    BY DEF Frame
  <2>4. x.ev \in Ids' /\ events'[x.ev].root = r
    BY <1>3, <1>9, <2>3 DEF RunOf
  <2>5. \A j \in 1 .. Len(out) : out[j] \in Ids' /\ events'[out[j]].root = r
    <3>1. ASSUME NEW j \in 1 .. Len(out) PROVE out[j] \in Ids' /\ events'[out[j]].root = r
      <4>1. j \in 1 .. Len(types) /\ out[j] = Len(events) + j
        BY <1>4, <1>6
      <4> QED
        BY <1>10, <4>1
    <3> QED
      BY <3>1
  <2> HIDE DEF x
  <2> QED
    BY <1>3, <2>1, <2>2, <2>3, <2>4, <2>5 DEF FramesOf, RunOf
<1>13. y \in FramesOf(r)'
  <2>1. /\ y \in Frames /\ y.kind = "publish" /\ y.ev = n /\ y.out = <<>>
        /\ y.todo \in Seq(Observers)
    BY <1>8, PublishFrameFacts DEF AllTypes
  <2> HIDE DEF y
  <2> QED
    BY <1>11, <2>1, EmptySeq DEF FramesOf, RunOf
<1>14. stack' \in Seq(FramesOf(r)')
  <2> HIDE DEF x, y
  <2>1. stack \in Seq(FramesOf(r)')
    BY <1>1, <1>9, SeqMonotonic
  <2> QED
    BY <1>7, <1>12, <1>13, <2>1, ReplaceTop
<1>15. FramesOf(r)' \subseteq Frames
  BY DEF FramesOf
<1>16. TypeOK'
  BY <1>4, <1>7, <1>14, <1>15, SeqMonotonic DEF TypeOK
<1>17. \A e \in Ids' : events'[e].root \in Ids'
  <2>1. ASSUME NEW e \in Ids' PROVE events'[e].root \in Ids'
    <3>1. e \in Ids \/ e = n \/ \E i \in 1 .. Len(types) : e = Len(events) + i
      <4>1. e \in 1 .. n
        BY <1>4, <2>1 DEF Ids
      <4>2. CASE e > Len(events) /\ e < n
        <5>1. e - Len(events) \in 1 .. Len(types) /\ e = Len(events) + (e - Len(events))
          BY <1>5, <1>8, <4>1, <4>2
        <5> QED
          BY <5>1
      <4>3. CASE e <= Len(events) \/ e = n
        BY <1>5, <1>8, <4>1, <4>3 DEF Ids
      <4> QED
        BY <1>5, <1>8, <4>1, <4>2, <4>3
    <3>2. r \in Ids'
      BY <1>1, <1>9 DEF Alive
    <3> QED
      BY <1>9, <1>10, <1>11, <3>1, <3>2 DEF Linked, RunOf
  <2> QED
    BY <2>1
<1>18. \A i \in RowIds' : rows'[i].trigger \in Ids'
  <2>1. \A i \in RowIds' : i \in RowIds \/ i = Len(rows) + 1
    BY <1>4, <1>5 DEF RowIds
  <2>2. \A i \in RowIds : rows'[i].trigger \in Ids'
    BY <1>4, <1>9 DEF Linked
  <2> QED
    BY <1>3, <1>4, <1>9, <2>1, <2>2
<1>19. r \in Alive'
  BY <1>1, <1>7, <1>9 DEF Alive
<1>20. done' \subseteq Ids' /\ failed' \subseteq Ids'
  BY <1>7, <1>9 DEF Linked
<1> QED
  BY <1>14, <1>16, <1>17, <1>18, <1>19, <1>20 DEF Linked, RunOf

\* A publish frame that has called its next handler, and that handler's frame.
LEMMA CalledFrame ==
  ASSUME TypeOK, NEW r, NEW f \in FramesOf(r), f.kind = "publish", f.todo # <<>>
  PROVE  /\ Head(f.todo) \in Handlers
         /\ [f EXCEPT !.todo = Tail(@)] \in FramesOf(r)
         /\ Head(f.todo) \in Nodes =>
              Frame("handle", f.ev, Head(f.todo), <<>>, <<>>) \in FramesOf(r)
<1>1. f \in Frames /\ f.todo \in Seq(Handlers) /\ events[f.ev] \in Events
  BY ElementOfSeq DEF FramesOf, Frames, TypeOK, Ids
<1>2. Head(f.todo) \in Handlers /\ Tail(f.todo) \in Seq(Handlers)
  BY <1>1, HeadTailFacts
<1>3. events[f.ev].type = TraceCaptured =>
        Head(f.todo) \in Observers /\ Tail(f.todo) \in Seq(Observers)
  BY HeadTailFacts DEF FramesOf
<1> DEFINE x == [f EXCEPT !.todo = Tail(@)]
           y == Frame("handle", f.ev, Head(f.todo), <<>>, <<>>)
<1>4. /\ x \in Frames /\ x.kind = f.kind /\ x.ev = f.ev /\ x.by = f.by /\ x.out = f.out
      /\ x.todo = Tail(f.todo)
  BY <1>1, <1>2 DEF Frames
<1>5. x \in FramesOf(r)
  <2> HIDE DEF x
  <2> QED
    BY <1>3, <1>4 DEF FramesOf
<1>6. ASSUME Head(f.todo) \in Nodes PROVE y \in FramesOf(r)
  <2>1. /\ y \in Frames /\ y.kind = "handle" /\ y.ev = f.ev /\ y.by = Head(f.todo)
        /\ y.out = <<>>
    BY <1>1, <1>6, EmptySeq DEF Frame, Frames
  <2>2. events[f.ev].type \in Types
    BY <1>1, <1>3, <1>6 DEF Events, AllTypes
  <2> HIDE DEF y
  <2> QED
    BY <1>6, <2>1, <2>2, EmptySeq DEF FramesOf
<1> QED
  BY <1>2, <1>5, <1>6

\* The frame of a node that publishes the next of its emitted events, and the
\* publish frame of that event.
LEMMA EmittedFrame ==
  ASSUME TypeOK, NEW r, NEW f \in FramesOf(r), f.kind = "emit", f.out # <<>>
  PROVE  /\ [f EXCEPT !.out = Tail(@)] \in FramesOf(r)
         /\ PublishFrame(events[Head(f.out)].type, Head(f.out)) \in FramesOf(r)
<1>1. f \in Frames /\ f.out \in Seq(Nat)
  BY DEF FramesOf, Frames
<1>2. /\ Head(f.out) = f.out[1] /\ 1 \in 1 .. Len(f.out)
      /\ Tail(f.out) \in Seq(Nat)
      /\ \A k \in 1 .. Len(Tail(f.out)) :
           k + 1 \in 1 .. Len(f.out) /\ Tail(f.out)[k] = f.out[k + 1]
  BY <1>1, HeadTailFacts, LenProperties
<1>3. Head(f.out) \in Ids /\ RunOf(Head(f.out)) = r
  BY <1>2 DEF FramesOf
<1> DEFINE x == [f EXCEPT !.out = Tail(@)]
           y == PublishFrame(events[Head(f.out)].type, Head(f.out))
<1>4. /\ x \in Frames /\ x.kind = f.kind /\ x.ev = f.ev /\ x.by = f.by /\ x.todo = f.todo
      /\ x.out = Tail(f.out)
  BY <1>1, <1>2 DEF Frames
<1>5. \A j \in 1 .. Len(Tail(f.out)) : Tail(f.out)[j] \in Ids /\ RunOf(Tail(f.out)[j]) = r
  BY <1>2 DEF FramesOf
<1>6. x \in FramesOf(r)
  <2> HIDE DEF x
  <2> QED
    BY <1>4, <1>5 DEF FramesOf
<1>7. y \in FramesOf(r)
  <2>1. events[Head(f.out)] \in Events /\ Head(f.out) \in Nat
    BY <1>3, ElementOfSeq DEF TypeOK, Ids
  <2>2. /\ y \in Frames /\ y.kind = "publish" /\ y.ev = Head(f.out) /\ y.out = <<>>
        /\ events[Head(f.out)].type = TraceCaptured => y.todo \in Seq(Observers)
    BY <2>1, PublishFrameFacts DEF Events
  <2> HIDE DEF y
  <2> QED
    BY <1>3, <2>2, EmptySeq DEF FramesOf
<1> QED
  BY <1>6, <1>7

\* A step that changes only the stack, to frames of the same run.
LEMMA StackStep ==
  ASSUME TypeOK, Linked, NEW r \in Alive, stack' \in Seq(FramesOf(r)),
         UNCHANGED <<events, rows, done, failed>>, seen' \in Seq(Observers \X Nat)
  PROVE  TypeOK' /\ Linked'
<1>1. FramesOf(r)' = FramesOf(r) /\ Alive' = Alive
  BY DEF FramesOf, Alive, Ids, RunOf
<1>2. stack' \in Seq(Frames)
  BY SeqMonotonic DEF FramesOf
<1>3. TypeOK'
  BY <1>2 DEF TypeOK
<1>4. Running' => \E q \in Alive' : stack' \in Seq(FramesOf(q)')
  BY <1>1
<1> QED
  BY <1>3, <1>4 DEF Linked, Ids, RowIds, RunOf

\* The type invariant needs Linked: ids are looked up in events.
LEMMA LinkedStep == TypeOK /\ Linked /\ [Next]_vars => TypeOK' /\ Linked'
<1> SUFFICES ASSUME TypeOK, Linked, [Next]_vars PROVE TypeOK' /\ Linked'
  OBVIOUS
<1>1. ASSUME NEW type \in Types, Publish(type) PROVE TypeOK' /\ Linked'
  <2>1. PICK id \in Nat : id = Len(events) + 1 /\ Len(events) \in Nat
    BY LenProperties DEF TypeOK
  <2> DEFINE new == [type |-> type, root |-> id, src |-> Outside]
  <2>2. new \in Events
    BY <2>1 DEF Events, AllTypes, Outside
  <2>3. /\ events' \in Seq(Events) /\ Len(events') = id
        /\ \A e \in Ids : events'[e] = events[e]
        /\ events'[id] = new
    BY <1>1, <2>1, <2>2 DEF Publish, TypeOK, Ids
  <2>4. /\ Ids \subseteq Ids'
        /\ \A e \in Ids : events'[e].root = RunOf(e)
    BY <2>1, <2>3, MoreEvents
  <2>5. Ids' = Ids \cup {id} /\ id \notin Ids
    BY <2>1, <2>3 DEF Ids
  <2>6. id \in Alive'
    BY <1>1, <2>5 DEF Publish, Alive, Linked
  <2>7. PublishFrame(type, id) \in FramesOf(id)'
    <3> DEFINE f == PublishFrame(type, id)
    <3>1. f \in Frames /\ f.kind = "publish" /\ f.ev = id /\ f.out = <<>>
      BY <2>1, PublishFrameFacts DEF AllTypes
    <3> HIDE DEF f
    <3>2. f.ev \in Ids' /\ events'[f.ev].root = id /\ events'[f.ev].type # TraceCaptured
      BY <2>3, <2>5, <3>1
    <3>3. f \in FramesOf(id)'
      BY <3>1, <3>2, EmptySeq DEF FramesOf, RunOf
    <3> QED
      BY <3>3 DEF f
  <2>8. stack' \in Seq(FramesOf(id)')
    BY <1>1, <2>1, <2>7 DEF Publish
  <2>9. FramesOf(id)' \subseteq Frames
    BY DEF FramesOf
  <2>10. TypeOK'
    BY <1>1, <2>3, <2>8, <2>9, SeqMonotonic DEF Publish, TypeOK
  <2>11. \A e \in Ids' : events'[e].root \in Ids'
    <3>1. events'[id].root = id
      BY <2>3
    <3> QED
      BY <2>4, <2>5, <3>1 DEF Linked
  <2>12. \A i \in RowIds' : rows'[i].trigger \in Ids'
    BY <1>1, <2>4 DEF Publish, Linked, RowIds
  <2>13. done' \subseteq Ids' /\ failed' \subseteq Ids'
    BY <1>1, <2>4 DEF Publish, Linked
  <2> QED
    BY <2>6, <2>8, <2>10, <2>11, <2>12, <2>13 DEF Linked, RunOf
<1>2. ASSUME Running, NEW r \in Alive, stack \in Seq(FramesOf(r)), Step PROVE TypeOK' /\ Linked'
  <2>1. Top \in FramesOf(r) /\ Below \in Seq(FramesOf(r)) /\ Run = r
    BY <1>2, TopFacts
  <2>2. Top \in Frames
    BY <2>1 DEF FramesOf
  <2>3. CASE Return
    <3>1. CASE Below = <<>>
      BY <2>1, <2>3, <3>1 DEF Return, TypeOK, Linked, Alive, Running, Ids, RowIds, RunOf
    <3>2. CASE Below # <<>>
      BY <1>2, <2>1, <2>3, <3>2, StackStep DEF Return, TypeOK
    <3> QED
      BY <3>1, <3>2
  <2>4. CASE Invoke
    <3> DEFINE x == [Top EXCEPT !.todo = Tail(@)]
               y == Frame("handle", Top.ev, Head(Top.todo), <<>>, <<>>)
    <3>1. x \in FramesOf(r) /\ y \in FramesOf(r)
      BY <2>1, <2>4, CalledFrame DEF Invoke
    <3> HIDE DEF x, y
    <3>2. stack' = Append(Append(Below, x), y)
      BY <2>4 DEF Invoke, x, y
    <3> QED
      BY <1>2, <2>4, <3>1, <3>2, ReplaceTop, StackStep DEF Invoke, TypeOK
  <2>5. CASE Observe
    <3> DEFINE x == [Top EXCEPT !.todo = Tail(@)]
    <3>1. x \in FramesOf(r)
      BY <2>1, <2>5, CalledFrame DEF Observe
    <3> HIDE DEF x
    <3>2. stack' = Append(Below, x)
      BY <2>5 DEF Observe, x
    <3>3. seen' \in Seq(Observers \X Nat)
      BY <2>2, <2>5 DEF Observe, TypeOK, Frames
    <3> QED
      BY <1>2, <2>5, <3>1, <3>2, <3>3, ReplaceTop, StackStep DEF Observe, TypeOK
  <2>6. CASE ObserverRaises
    <3>1. seen' \in Seq(Observers \X Nat)
      BY <2>2, <2>6 DEF ObserverRaises, TypeOK, Frames
    <3> QED
      BY <2>1, <2>6, <3>1, EmptySeq DEF ObserverRaises, Unwind, TypeOK, Linked, Alive, Running,
         Ids, RowIds, RunOf
  <2>7. CASE Handle
    <3>1. PICK types \in Reactions[Top.by][events[Top.ev].type] : Capture(types, FALSE)
      BY <2>7 DEF Handle
    <3>2. types \in Seq(Types)
      BY <2>1, <2>7 DEF Handle, FramesOf
    <3> QED
      BY <1>2, <2>7, <3>1, <3>2, CaptureStep DEF Handle
  <2>8. CASE HandleRaises
    BY <1>2, <2>8, CaptureStep, EmptySeq DEF HandleRaises
  <2>9. CASE PublishNext
    <3> DEFINE x == [Top EXCEPT !.out = Tail(@)]
               y == PublishFrame(events[Head(Top.out)].type, Head(Top.out))
    <3>1. x \in FramesOf(r) /\ y \in FramesOf(r)
      BY <2>1, <2>9, EmittedFrame DEF PublishNext
    <3> HIDE DEF x, y
    <3>2. stack' = Append(Append(Below, x), y)
      BY <2>9 DEF PublishNext, x, y
    <3> QED
      BY <1>2, <2>9, <3>1, <3>2, ReplaceTop, StackStep DEF PublishNext, TypeOK
  <2>10. CASE Reraise
    BY <2>1, <2>10, EmptySeq DEF Reraise, Unwind, TypeOK, Linked, Alive, Running, Ids, RowIds,
       RunOf
  <2> QED
    BY <1>2, <2>3, <2>4, <2>5, <2>6, <2>7, <2>8, <2>9, <2>10 DEF Step
<1>3. ASSUME Step PROVE Running
  BY <1>3 DEF Step, Return, Invoke, Observe, ObserverRaises, Handle, HandleRaises, PublishNext,
     Reraise
<1>4. CASE UNCHANGED vars
  <2>1. FramesOf(0)' = FramesOf(0) /\ Alive' = Alive /\ \A r : FramesOf(r)' = FramesOf(r)
    BY <1>4 DEF vars, FramesOf, Alive, Ids, RunOf
  <2> QED
    BY <1>4, <2>1 DEF vars, TypeOK, Linked, Running, Ids, RowIds, RunOf
<1> QED
  BY <1>1, <1>2, <1>3, <1>4 DEF Next, Linked

\* Every variable keeps its type and every id its meaning.
THEOREM TypeCorrect == Spec => [](TypeOK /\ Linked)
<1>1. Init => TypeOK /\ Linked
  BY EmptySeq DEF Init, TypeOK, Linked, Running, Ids, RowIds
<1> QED
  BY <1>1, LinkedStep, PTL DEF Spec
-----------------------------------------------------------------------------
(***************************************************************************)
(* Exceptions: a node that raised is still on the stack, with nothing but  *)
(* the publishing of its own trace above it, until the run fails.          *)
(***************************************************************************)
RaiseNearTop ==
  \A k \in 1 .. Len(stack) : stack[k].kind = "raise" =>
    \/ k = Len(stack)
    \/ k = Len(stack) - 1 /\ Top.kind = "publish" /\ Top.todo \in Seq(Observers)

ARaise == \E k \in 1 .. Len(stack) : stack[k].kind = "raise"

\* Every error row is of a run that failed or is failing.
Accounted ==
  /\ RaiseNearTop
  /\ done \cap failed = {}
  /\ \A i \in RowIds : rows[i].error =>
       RowRun(i) \in failed \/ (Running /\ RowRun(i) = Run /\ ARaise)

\* Only a frame that has nothing but observers to call may stand on a raise.
LEMMA NoRaiseBelow ==
  ASSUME TypeOK, Running, RaiseNearTop, Top.kind # "raise",
         Top.kind = "publish" => Top.todo \notin Seq(Observers)
  PROVE  ~ARaise
<1>1. Len(stack) \in Nat
  BY LenProperties DEF TypeOK
<1> QED
  BY <1>1 DEF RaiseNearTop, ARaise, Top

\* Writing a row: the run it belongs to has no error row yet.
LEMMA CaptureAccounted ==
  ASSUME TypeOK, Linked, Accounted, FailFast, Running, Top.kind = "handle",
         NEW types \in Seq(Types), NEW error \in BOOLEAN, Capture(types, error)
  PROVE  Accounted' /\ FailFast'
<1>1. PICK r \in Alive : stack \in Seq(FramesOf(r))
  BY DEF Linked
<1>2. Top \in FramesOf(r) /\ Run = r
  BY <1>1, TopFacts
<1>3. Top.ev \in Ids /\ Top.by \in Nodes /\ RunOf(Top.ev) = r
  BY <1>2 DEF FramesOf
<1>4. /\ \A e \in Ids : events'[e] = events[e]
      /\ Len(rows') = Len(rows) + 1
      /\ \A i \in RowIds : rows'[i] = rows[i]
      /\ rows'[Len(rows) + 1].trigger = Top.ev
      /\ rows'[Len(rows) + 1].error = error
  BY <1>3, CaptureFacts
<1>5. Len(rows) \in Nat /\ Len(stack) \in Nat /\ Len(types) \in Nat /\ Len(events) \in Nat
  BY LenProperties DEF TypeOK
<1>6. ~ARaise
  BY NoRaiseBelow DEF Accounted
<1>7. \A i \in RowIds : rows[i].error => RowRun(i) \in failed /\ RowRun(i) # r
  BY <1>1, <1>6 DEF Accounted, Alive
<1>8. \A i \in RowIds : rows'[i].error = rows[i].error /\ events'[rows'[i].trigger].root = RowRun(i)
  BY <1>4 DEF Linked, RowRun, RunOf
<1>9. events'[rows'[Len(rows) + 1].trigger].root = r
  BY <1>3, <1>4 DEF RunOf
<1>10. \A i \in RowIds' : i \in RowIds \/ i = Len(rows) + 1
  BY <1>4, <1>5 DEF RowIds
<1>11. FailFast'
  <2>1. ASSUME NEW i \in RowIds', NEW j \in RowIds', i < j, rows'[i].error
        PROVE  events'[rows'[i].trigger].root # events'[rows'[j].trigger].root
    <3>1. i \in RowIds
      BY <1>4, <1>5, <2>1 DEF RowIds
    <3>2. CASE j \in RowIds
      BY <1>8, <2>1, <3>1, <3>2 DEF FailFast
    <3>3. CASE j = Len(rows) + 1
      BY <1>7, <1>8, <1>9, <2>1, <3>1, <3>3
    <3> QED
      BY <1>10, <3>2, <3>3
  <2> QED
    BY <2>1 DEF FailFast, RowRun, RunOf
<1> DEFINE n == Len(events) + Len(types) + 1
           out == [i \in DOMAIN types |-> Len(events) + i]
           x == Frame(IF error THEN "raise" ELSE "emit", Top.ev, Top.by, <<>>, out)
           y == PublishFrame(TraceCaptured, n)
<1>12. /\ stack' = Append(Append(Below, x), y) /\ done' = done /\ failed' = failed
       /\ x.ev = Top.ev /\ (x.kind = "raise" <=> error) /\ y.kind = "publish"
       /\ y.todo \in Seq(Observers)
  BY <1>5, PublishFrameFacts DEF Capture, Frame, AllTypes
<1>13. y.ev = n /\ events'[n].root = r
  <2>1. events'[n] = Child(Top.ev, TraceCaptured, Len(rows) + 1)
    BY <1>3, CaptureFacts
  <2> QED
    BY <1>3, <2>1 DEF Child, RunOf, PublishFrame, Frame
<1>frames. x \in Frames /\ y \in Frames
  <2>1. Top \in Frames /\ n \in Nat
    BY <1>2, <1>5 DEF FramesOf
  <2>2. out \in Seq(Nat)
    BY <1>3, CaptureFacts
  <2>3. x \in Frames
    BY <2>1, <2>2, EmptySeq DEF Frame, Frames
  <2> QED
    BY <2>1, <2>3, PublishFrameFacts DEF AllTypes
<1> HIDE DEF x, y
<1>14. /\ Len(stack) \in Nat \ {0}
       /\ Len(stack') = Len(stack) + 1
       /\ \A k \in 1 .. Len(stack) - 1 : stack'[k] = stack[k]
       /\ stack'[Len(stack)] = x
       /\ stack'[Len(stack) + 1] = y
  BY <1>12, <1>frames, PopFacts, PushFacts DEF TypeOK, Running, Below
<1>15. \A k \in 1 .. Len(stack) - 1 : stack[k].kind # "raise"
  BY <1>5, <1>6 DEF ARaise
<1>16. Top' = y
  BY <1>14 DEF Top
<1>17. RaiseNearTop'
  <2>1. \A k \in 1 .. Len(stack') : k \in 1 .. Len(stack) - 1 \/ k = Len(stack) \/ k = Len(stack) + 1
    BY <1>14
  <2>2. \A k \in 1 .. Len(stack') : stack'[k].kind = "raise" => k = Len(stack') - 1
    BY <1>12, <1>14, <1>15, <2>1
  <2> QED
    BY <1>12, <1>16, <2>2 DEF RaiseNearTop
<1>18. error => ARaise'
  BY <1>12, <1>14 DEF ARaise
<1>19. Running' /\ Run' = r
  <2>1. stack' # <<>>
    BY <1>14, EmptySeq
  <2> QED
    BY <1>13, <1>16, <2>1 DEF Running, Run
<1> QED
  BY <1>4, <1>7, <1>8, <1>9, <1>10, <1>11, <1>12, <1>17, <1>18, <1>19
     DEF Accounted, RowRun, RunOf

\* A step that leaves the trace and the outcome of runs alone.
LEMMA QuietAccounted ==
  ASSUME TypeOK, Linked, Accounted, FailFast, UNCHANGED <<events, rows, done, failed>>,
         RaiseNearTop', ARaise => ARaise' /\ Running' /\ Run' = Run
  PROVE  Accounted' /\ FailFast'
BY DEF Accounted, FailFast, RowIds, RowRun, RunOf

\* A step keeps both halves of the argument about raising runs.
LEMMA AccountedStep ==
  TypeOK /\ Linked /\ Accounted /\ FailFast /\ [Next]_vars => Accounted' /\ FailFast'
<1> SUFFICES ASSUME TypeOK, Linked, Accounted, FailFast, [Next]_vars
             PROVE  Accounted' /\ FailFast'
  OBVIOUS
<1>1. ASSUME NEW type \in Types, Publish(type) PROVE Accounted' /\ FailFast'
  <2>1. \A e \in Ids : events'[e] = events[e]
    BY <1>1 DEF Publish, TypeOK, Ids
  <2>2. \A i \in RowIds : events'[rows[i].trigger] = events[rows[i].trigger]
    BY <2>1 DEF Linked
  <2>3. Len(stack') = 1 /\ stack'[1].kind = "publish"
    BY <1>1 DEF Publish, PublishFrame, Frame
  <2>4. RaiseNearTop'
    BY <2>3 DEF RaiseNearTop
  <2>5. \A i \in RowIds : rows[i].error => RowRun(i) \in failed
    BY <1>1 DEF Publish, Accounted
  <2>6. rows' = rows /\ done' = done /\ failed' = failed
    BY <1>1 DEF Publish
  <2>7. FailFast'
    BY <2>2, <2>6 DEF FailFast, RowIds, RowRun, RunOf
  <2>8. \A i \in RowIds' : rows'[i].error => events'[rows'[i].trigger].root \in failed'
    BY <2>2, <2>5, <2>6 DEF RowIds, RowRun, RunOf
  <2> QED
    BY <2>4, <2>6, <2>7, <2>8 DEF Accounted, RowRun, RunOf
<1>2. ASSUME Running, NEW r \in Alive, stack \in Seq(FramesOf(r)), Step
      PROVE  Accounted' /\ FailFast'
  <2>1. Top \in FramesOf(r) /\ Below \in Seq(FramesOf(r)) /\ Run = r
    BY <1>2, TopFacts
  <2>2. Top \in Frames /\ r \notin done /\ r \notin failed
    BY <2>1 DEF FramesOf, Alive
  <2>3. Len(stack) \in Nat \ {0} /\ Top = stack[Len(stack)]
    BY <1>2, EmptySeq DEF Running, Top
  <2>4. RaiseNearTop
    BY DEF Accounted
  <2>5. CASE Unwind /\ UNCHANGED <<events, rows, done>>
    <3>1. stack' = <<>> /\ Len(stack') = 0 /\ failed' = failed \cup {r}
      BY <2>1, <2>5 DEF Unwind
    <3>2. RaiseNearTop'
      BY <3>1 DEF RaiseNearTop
    <3> QED
      BY <2>1, <2>2, <2>5, <3>1, <3>2 DEF Accounted, FailFast, RowIds, RowRun, RunOf
  <2>6. CASE Return
    <3>1. Len(Below) = Len(stack) - 1 /\ \A k \in 1 .. Len(stack) - 1 : Below[k] = stack[k]
      BY <1>2, PopFacts DEF Running, Below
    <3>2. Top.kind # "raise"
      BY <2>6 DEF Return
    <3>3. RaiseNearTop'
      <4>1. stack' = Below /\ Len(Below) \in Nat
        BY <2>3, <2>6, <3>1 DEF Return
      <4>2. \A k \in 1 .. Len(Below) :
              k \in 1 .. Len(stack) /\ k # Len(stack) /\ Below[k] = stack[k]
        BY <2>3, <3>1
      <4>3. \A k \in 1 .. Len(Below) : Below[k].kind = "raise" => k = Len(Below)
        BY <2>4, <3>1, <4>2 DEF RaiseNearTop
      <4> QED
        BY <4>1, <4>3 DEF RaiseNearTop
    <3>4. CASE Below = <<>>
      <4>1. ~ARaise
        <5>1. Len(stack) = 1
          BY <2>3, <3>1, <3>4, EmptySeq
        <5> QED
          BY <2>3, <3>2, <5>1 DEF ARaise
      <4> QED
        BY <2>1, <2>2, <2>6, <3>3, <3>4, <4>1
           DEF Return, Accounted, FailFast, RowIds, RowRun, RunOf
    <3>5. CASE Below # <<>>
      <4>1. Running' /\ stack' = Below /\ Len(Below) \in Nat \ {0}
        BY <2>1, <2>6, <3>5, EmptySeq DEF Return, Running
      <4>2. Run' = Run
        <5>1. Below[Len(Below)] \in FramesOf(r)
          BY <2>1, <4>1, ElementOfSeq
        <5>2. events' = events
          BY <2>6 DEF Return
        <5> QED
          BY <2>1, <4>1, <5>1, <5>2 DEF Run, Top, FramesOf, RunOf
      <4>3. ARaise => ARaise'
        BY <2>3, <3>1, <3>2, <4>1 DEF ARaise
      <4> QED
        BY <2>6, <3>3, <3>5, <4>1, <4>2, <4>3, QuietAccounted DEF Return
    <3> QED
      BY <3>4, <3>5
  <2>7. CASE Invoke
    <3> DEFINE x == [Top EXCEPT !.todo = Tail(@)]
               y == Frame("handle", Top.ev, Head(Top.todo), <<>>, <<>>)
    <3>1. x \in FramesOf(r) /\ y \in FramesOf(r) /\ x.kind = "publish" /\ y.kind = "handle"
      BY <2>1, <2>2, <2>7, CalledFrame DEF Invoke, Frames, Frame
    <3>2. stack' = Append(Append(Below, x), y)
      BY <2>7 DEF Invoke
    <3> HIDE DEF x, y
    <3>3. ~ARaise
      <4>1. Top.todo \notin Seq(Observers)
        BY <2>7, HeadTailFacts DEF Invoke
      <4> QED
        BY <1>2, <2>4, <2>7, <4>1, NoRaiseBelow DEF Invoke
    <3>4. /\ Len(stack') = Len(stack) + 1
          /\ \A k \in 1 .. Len(stack) - 1 : stack'[k] = stack[k]
          /\ stack'[Len(stack)] = x
          /\ stack'[Len(stack) + 1] = y
      BY <1>2, <3>1, <3>2, PushFacts DEF Running, Below
    <3>5. ~ARaise'
      BY <2>3, <3>1, <3>3, <3>4 DEF ARaise
    <3> QED
      BY <2>7, <3>3, <3>5, QuietAccounted DEF Invoke, ARaise, RaiseNearTop
  <2>8. CASE Observe
    <3> DEFINE x == [Top EXCEPT !.todo = Tail(@)]
    <3>1. x \in FramesOf(r) /\ x.kind = "publish" /\ x.todo = Tail(Top.todo) /\ x.ev = Top.ev
      BY <2>1, <2>2, <2>8, CalledFrame DEF Observe, Frames
    <3>2. stack' = Append(Below, x)
      BY <2>8 DEF Observe
    <3> HIDE DEF x
    <3>3. /\ Len(stack') = Len(stack)
          /\ \A k \in 1 .. Len(stack) - 1 : stack'[k] = stack[k]
          /\ stack'[Len(stack)] = x
      BY <1>2, <3>1, <3>2, PushFacts DEF Running, Below
    <3>4. Top' = x
      BY <3>3 DEF Top
    <3>5. RaiseNearTop'
      <4>1. Top.todo \in Seq(Observers) => x.todo \in Seq(Observers)
        BY <2>8, <3>1, HeadTailFacts DEF Observe
      <4>2. \A k \in 1 .. Len(stack') : k \in 1 .. Len(stack) - 1 \/ k = Len(stack)
        BY <2>3, <3>3
      <4>3. \A k \in 1 .. Len(stack') : stack'[k].kind = "raise" =>
              k \in 1 .. Len(stack) - 1 /\ stack[k].kind = "raise"
        BY <3>1, <3>3, <4>2
      <4> QED
        BY <2>3, <2>4, <3>1, <3>3, <3>4, <4>1, <4>3 DEF RaiseNearTop
    <3>6. ARaise => ARaise'
      <4>1. ASSUME NEW k \in 1 .. Len(stack), stack[k].kind = "raise" PROVE ARaise'
        <5>1. k \in 1 .. Len(stack) - 1
          BY <2>3, <2>8, <4>1 DEF Observe
        <5>2. k \in 1 .. Len(stack') /\ stack'[k] = stack[k]
          BY <3>3, <5>1
        <5> QED
          BY <4>1, <5>2 DEF ARaise
      <4> QED
        BY <4>1 DEF ARaise
    <3>7. Running' /\ Run' = Run
      BY <2>3, <2>8, <3>1, <3>3, <3>4, EmptySeq DEF Running, Run, Observe
    <3> QED
      BY <2>8, <3>5, <3>6, <3>7, QuietAccounted DEF Observe
  <2>9. CASE Handle
    <3>1. PICK types \in Reactions[Top.by][events[Top.ev].type] : Capture(types, FALSE)
      BY <2>9 DEF Handle
    <3>2. types \in Seq(Types)
      BY <2>1, <2>9 DEF Handle, FramesOf
    <3> QED
      BY <1>2, <2>9, <3>1, <3>2, CaptureAccounted DEF Handle
  <2>10. CASE HandleRaises
    BY <1>2, <2>10, CaptureAccounted, EmptySeq DEF HandleRaises
  <2>11. CASE PublishNext
    <3> DEFINE x == [Top EXCEPT !.out = Tail(@)]
               y == PublishFrame(events[Head(Top.out)].type, Head(Top.out))
    <3>1. x \in FramesOf(r) /\ y \in FramesOf(r) /\ x.kind = "emit" /\ y.kind = "publish"
      BY <2>1, <2>2, <2>11, EmittedFrame DEF PublishNext, Frames, PublishFrame, Frame
    <3>2. stack' = Append(Append(Below, x), y)
      BY <2>11 DEF PublishNext
    <3> HIDE DEF x, y
    <3>3. ~ARaise
      BY <1>2, <2>4, <2>11, NoRaiseBelow DEF PublishNext
    <3>4. /\ Len(stack') = Len(stack) + 1
          /\ \A k \in 1 .. Len(stack) - 1 : stack'[k] = stack[k]
          /\ stack'[Len(stack)] = x
          /\ stack'[Len(stack) + 1] = y
      BY <1>2, <3>1, <3>2, PushFacts DEF Running, Below
    <3>5. ~ARaise'
      BY <2>3, <3>1, <3>3, <3>4 DEF ARaise
    <3> QED
      BY <2>11, <3>3, <3>5, QuietAccounted DEF PublishNext, ARaise, RaiseNearTop
  <2> QED
    BY <1>2, <2>5, <2>6, <2>7, <2>8, <2>9, <2>10, <2>11 DEF Step, ObserverRaises, Reraise
<1>3. ASSUME Step PROVE Running
  BY <1>3 DEF Step, Return, Invoke, Observe, ObserverRaises, Handle, HandleRaises, PublishNext,
     Reraise
<1>4. CASE UNCHANGED vars
  BY <1>4, QuietAccounted DEF vars, RaiseNearTop, ARaise, Accounted, Running, Run, Top, RunOf
<1> QED
  BY <1>1, <1>2, <1>3, <1>4 DEF Next, Linked

\* Both hold in every state.
LEMMA AccountedAlways == Spec => [](TypeOK /\ Linked /\ Accounted /\ FailFast)
<1>1. Init => Accounted /\ FailFast
  BY DEF Init, Accounted, RaiseNearTop, FailFast, RowIds
<1> QED
  BY <1>1, AccountedStep, TypeCorrect, PTL DEF Spec

\* A run in which a node raised is never reported as a normal return.
THEOREM NothingSwallowed == Spec => []NeverSwallowed
<1>1. Linked /\ Accounted => NeverSwallowed
  <2> SUFFICES ASSUME Linked, Accounted PROVE NeverSwallowed
    OBVIOUS
  <2>1. Running => Run \notin done
    <3> SUFFICES ASSUME Running PROVE Run \notin done
      OBVIOUS
    <3>1. PICK r \in Alive : stack \in Seq(FramesOf(r))
      BY DEF Linked
    <3> QED
      BY <3>1, TopFacts DEF Alive
  <2> QED
    BY <2>1 DEF Accounted, NeverSwallowed
<1> QED
  BY <1>1, AccountedAlways, PTL

\* After a row with an error no node of that run is invoked.
THEOREM FailsFast == Spec => []FailFast
BY AccountedAlways, PTL

-----------------------------------------------------------------------------
(***************************************************************************)
(* Proofs about the order in which the bus delivers.                       *)
(*                                                                         *)
(* For any topology that lists a handler once per event type, which is     *)
(* what the loader makes of a venture file (Boot): no handler is given the *)
(* same event twice; a handler runs when all that followed from those      *)
(* before it is delivered; a publish that returns has left nothing undone. *)
(* For every topology: an event is in the trace before it is delivered.    *)
(***************************************************************************)
Distinct(s) == \A i, j \in DOMAIN s : s[i] = s[j] => i = j

\* No handler is subscribed twice to what a publish calls.
SubscribedOnce == \A type \in AllTypes : Distinct(Subs[type] \o Wild)

\* Who was given which event so far.
Told == {<<rows[i].node, rows[i].trigger>> : i \in RowIds} \cup {seen[i] : i \in DOMAIN seen}

Calls(f) == {f.todo[i] : i \in DOMAIN f.todo}   \* handlers f has still to call
Waits(f) == {f.out[i] : i \in DOMAIN f.out}     \* events f has still to publish

\* Nobody was given an event that waits, nor one by a handler still to be called.
Fresh(told, f) ==
  /\ Distinct(f.todo) /\ Distinct(f.out)
  /\ \A e \in Waits(f) : \A h \in Handlers : <<h, e>> \notin told
  /\ f.kind = "publish" => /\ f.ev \notin Waits(f)
                           /\ \A h \in Calls(f) : <<h, f.ev>> \notin told
  /\ f.kind = "handle" => <<f.by, f.ev>> \notin told /\ f.ev \notin Waits(f)

\* An event waits at one place, is published at one, and a handler that runs is
\* called from nowhere else.
Apart(f, g) ==
  /\ Waits(f) \cap Waits(g) = {}
  /\ f.kind \in {"publish", "handle"} => f.ev \notin Waits(g)
  /\ f.kind = "publish" /\ g.kind = "publish" => f.ev # g.ev
  /\ f.kind = "handle" /\ g.kind = "publish" /\ f.ev = g.ev => f.by \notin Calls(g)

Spread(told, s) ==
  \A k \in 1 .. Len(s) :
    /\ Fresh(told, s[k])
    /\ s[k].kind = "handle" => k = Len(s)
    /\ \A l \in 1 .. Len(s) : l # k => Apart(s[k], s[l])

\* What was given to anybody are events.
Known == \A x \in Told : x[2] \in Ids

Once == Known /\ Spread(Told, stack) /\ DeliveredOnce
-----------------------------------------------------------------------------
\* A call that returns or raises leaves the frames below as they were.
LEMMA PopSpread ==
  ASSUME NEW told, NEW s \in Seq(Frames), s # <<>>, Spread(told, s)
  PROVE  Spread(told, SubSeq(s, 1, Len(s) - 1))
<1> DEFINE b == SubSeq(s, 1, Len(s) - 1)
<1>1. /\ Len(s) \in Nat \ {0} /\ Len(b) = Len(s) - 1
      /\ \A k \in 1 .. Len(s) - 1 : b[k] = s[k]
  BY PopFacts
<1>2. \A k \in 1 .. Len(b) : k \in 1 .. Len(s) /\ b[k] = s[k] /\ k # Len(s)
  BY <1>1
<1> HIDE DEF b
<1>3. Spread(told, b)
  BY <1>2 DEF Spread
<1> QED
  BY <1>3 DEF b

\* The frame on top is replaced by one frame, or by one and a frame above it.
LEMMA PushSpread ==
  ASSUME NEW told, NEW s \in Seq(Frames), s # <<>>, Spread(told, s),
         NEW more, NEW x \in Frames, NEW y \in Frames,
         Fresh(more, x), x.kind # "handle",
         \A k \in 1 .. Len(s) - 1 :
           Fresh(more, s[k]) /\ Apart(s[k], x) /\ Apart(x, s[k])
  PROVE  LET b == SubSeq(s, 1, Len(s) - 1)
         IN /\ Spread(more, Append(b, x))
            /\ (/\ Fresh(more, y) /\ Apart(x, y) /\ Apart(y, x)
                /\ \A k \in 1 .. Len(s) - 1 : Apart(s[k], y) /\ Apart(y, s[k]))
               => Spread(more, Append(Append(b, x), y))
<1> DEFINE b == SubSeq(s, 1, Len(s) - 1)
           u == Append(b, x)
           t == Append(Append(b, x), y)
           n == Len(s)
<1>1. /\ n \in Nat \ {0}
      /\ Len(t) = n + 1 /\ Len(u) = n
      /\ \A k \in 1 .. n - 1 : t[k] = s[k] /\ u[k] = s[k]
      /\ t[n] = x /\ u[n] = x /\ t[n + 1] = y
  BY PopFacts, PushFacts
<1> HIDE DEF b, u, t
<1>2. \A k \in 1 .. n - 1 : s[k].kind # "handle" /\ \A l \in 1 .. n - 1 : l # k => Apart(s[k], s[l])
  BY <1>1 DEF Spread
<1>3. Spread(more, u)
  <2>1. \A k \in 1 .. n : (k \in 1 .. n - 1 /\ u[k] = s[k]) \/ (k = n /\ u[k] = x)
    BY <1>1
  <2>2. \A k \in 1 .. n : Fresh(more, u[k]) /\ (u[k].kind = "handle" => k = n)
    BY <1>2, <2>1
  <2>3. \A k, l \in 1 .. n : l # k => Apart(u[k], u[l])
    BY <1>2, <2>1
  <2> QED
    BY <1>1, <2>2, <2>3 DEF Spread
<1>4. ASSUME Fresh(more, y), Apart(x, y), Apart(y, x),
             \A k \in 1 .. n - 1 : Apart(s[k], y) /\ Apart(y, s[k])
      PROVE  Spread(more, t)
  <2>1. \A k \in 1 .. n + 1 : \/ k \in 1 .. n - 1 /\ t[k] = s[k]
                              \/ k = n /\ t[k] = x
                              \/ k = n + 1 /\ t[k] = y
    BY <1>1
  <2>2. \A k \in 1 .. n + 1 : Fresh(more, t[k]) /\ (t[k].kind = "handle" => k = n + 1)
    BY <1>2, <1>4, <2>1
  <2>3. \A k, l \in 1 .. n + 1 : l # k => Apart(t[k], t[l])
    BY <1>2, <1>4, <2>1
  <2> QED
    BY <1>1, <2>2, <2>3 DEF Spread
<1> QED
  BY <1>3, <1>4 DEF b, u, t

\* The rest of a sequence of distinct elements lacks its head.
LEMMA DistinctTail ==
  ASSUME NEW S, NEW s \in Seq(S), s # <<>>, Distinct(s)
  PROVE  /\ Distinct(Tail(s))
         /\ {Tail(s)[i] : i \in DOMAIN Tail(s)} \subseteq {s[i] : i \in DOMAIN s}
         /\ Head(s) \in {s[i] : i \in DOMAIN s}
         /\ Head(s) \notin {Tail(s)[i] : i \in DOMAIN Tail(s)}
<1>1. /\ Head(s) = s[1] /\ 1 \in DOMAIN s
      /\ \A k \in DOMAIN Tail(s) : k + 1 \in DOMAIN s /\ Tail(s)[k] = s[k + 1]
  BY HeadTailFacts
<1>2. \A k \in DOMAIN Tail(s) : k \in Nat \ {0}
  OBVIOUS
<1>3. \A i, j \in DOMAIN Tail(s) : Tail(s)[i] = Tail(s)[j] => i = j
  <2> SUFFICES ASSUME NEW i \in DOMAIN Tail(s), NEW j \in DOMAIN Tail(s), Tail(s)[i] = Tail(s)[j]
               PROVE  i = j
    OBVIOUS
  <2>1. i + 1 = j + 1
    BY <1>1 DEF Distinct
  <2> QED
    BY <1>2, <2>1
<1>4. Head(s) \notin {Tail(s)[i] : i \in DOMAIN Tail(s)}
  <2> SUFFICES ASSUME NEW i \in DOMAIN Tail(s), Tail(s)[i] = Head(s)
               PROVE  FALSE
    OBVIOUS
  <2>1. i + 1 = 1
    BY <1>1 DEF Distinct
  <2> QED
    BY <1>2, <2>1
<1> QED
  BY <1>1, <1>3, <1>4 DEF Distinct

\* What a publish frame of an event nobody was given has to do.
LEMMA FreshPublish ==
  ASSUME SubscribedOnce
  PROVE  \A told, e, f : \A type \in AllTypes :
           ((\A h \in Handlers : <<h, e>> \notin told) /\ f = PublishFrame(type, e))
             => (Fresh(told, f) /\ f.kind = "publish" /\ f.ev = e /\ Waits(f) = {})
<1> SUFFICES ASSUME NEW told, NEW e, NEW f, NEW type \in AllTypes,
                    \A h \in Handlers : <<h, e>> \notin told,
                    f = PublishFrame(type, e)
             PROVE  Fresh(told, f) /\ f.kind = "publish" /\ f.ev = e /\ Waits(f) = {}
  OBVIOUS
<1>1. Subs[type] \o Wild \in Seq(Handlers)
  <2>1. Subs[type] \in Seq(Handlers)
    OBVIOUS
  <2>2. Wild \in Seq(Handlers)
    BY SeqMonotonic DEF Handlers
  <2> QED
    BY <2>1, <2>2, ConcatProperties
<1>2. f.kind = "publish" /\ f.ev = e /\ f.out = <<>> /\ f.todo = Subs[type] \o Wild
  BY DEF PublishFrame, Frame
<1>3. Waits(f) = {} /\ Distinct(f.out)
  BY <1>2 DEF Waits, Distinct
<1>4. Calls(f) \subseteq Handlers
  BY <1>1, <1>2, ElementOfSeq DEF Calls
<1>5. Distinct(f.todo)
  BY <1>2 DEF SubscribedOnce
<1>6. Fresh(told, f)
  BY <1>2, <1>3, <1>4, <1>5 DEF Fresh
<1> QED
  BY <1>2, <1>3, <1>6

\* Every event a frame is about, or has still to publish, exists.
LEMMA FrameIds ==
  ASSUME TypeOK, Linked, Running
  PROVE  /\ Top \in Frames /\ Top.ev \in Ids
         /\ \A k \in 1 .. Len(stack) :
              stack[k] \in Frames /\ stack[k].ev \in Ids /\ Waits(stack[k]) \subseteq Ids
<1>1. PICK r \in Alive : stack \in Seq(FramesOf(r))
  BY DEF Linked
<1>2. Top \in FramesOf(r)
  BY <1>1, TopFacts
<1>3. \A k \in 1 .. Len(stack) : stack[k] \in FramesOf(r)
  BY <1>1, ElementOfSeq
<1>4. \A f \in FramesOf(r) : f \in Frames /\ f.ev \in Ids /\ Waits(f) \subseteq Ids
  <2> SUFFICES ASSUME NEW f \in FramesOf(r)
               PROVE  f \in Frames /\ f.ev \in Ids /\ Waits(f) \subseteq Ids
    OBVIOUS
  <2>1. f \in Frames /\ f.ev \in Ids /\ \A j \in 1 .. Len(f.out) : f.out[j] \in Ids
    BY DEF FramesOf
  <2>2. DOMAIN f.out = 1 .. Len(f.out)
    BY <2>1, LenProperties DEF Frames
  <2> QED
    BY <2>1, <2>2 DEF Waits
<1> QED
  BY <1>2, <1>3, <1>4

\* The frame on top and the others.
LEMMA TopSpread ==
  ASSUME TypeOK, Running, Spread(Told, stack)
  PROVE  /\ Len(stack) \in Nat \ {0} /\ stack \in Seq(Frames) /\ stack # <<>>
         /\ Fresh(Told, Top) /\ Below = SubSeq(stack, 1, Len(stack) - 1)
         /\ \A k \in 1 .. Len(stack) - 1 :
              /\ k \in 1 .. Len(stack)
              /\ Fresh(Told, stack[k]) /\ stack[k].kind # "handle"
              /\ Apart(stack[k], Top) /\ Apart(Top, stack[k])
<1>1. Len(stack) \in Nat \ {0}
  BY PopFacts DEF TypeOK, Running
<1> QED
  BY <1>1 DEF TypeOK, Running, Spread, Top, Below

\* A step of the stack in which nobody is given anything.
LEMMA QuietOnce ==
  ASSUME Once, UNCHANGED <<rows, seen>>, Ids \subseteq Ids', Spread(Told, stack')
  PROVE  Once'
<1>1. Told' = Told
  BY DEF Told, RowIds
<1> QED
  BY <1>1 DEF Once, Known, DeliveredOnce, RowIds

\* An outside event: nobody knows of it yet.
LEMMA PublishOnce ==
  ASSUME SubscribedOnce, TypeOK, Once, NEW type \in Types, Publish(type)
  PROVE  Once'
<1>1. Len(events) \in Nat
  BY LenProperties DEF TypeOK
<1>2. PICK id : id = Len(events) + 1
  OBVIOUS
<1>3. Ids' = 1 .. id
  <2>1. events' = Append(events, [type |-> type, root |-> id, src |-> Outside])
    BY <1>2 DEF Publish
  <2>2. [type |-> type, root |-> id, src |-> Outside] \in Events
    BY <1>1, <1>2 DEF Events, AllTypes, Outside
  <2>3. Len(events') = Len(events) + 1
    BY <2>1, <2>2 DEF TypeOK
  <2> QED
    BY <1>2, <2>3 DEF Ids
<1>4. id \notin Ids /\ Ids \subseteq Ids'
  BY <1>1, <1>2, <1>3 DEF Ids
<1>5. \A h \in Handlers : <<h, id>> \notin Told
  BY <1>4 DEF Once, Known
<1>6. Fresh(Told, PublishFrame(type, id))
  BY <1>5, FreshPublish DEF AllTypes
<1>7. PublishFrame(type, id).kind = "publish"
  BY DEF PublishFrame, Frame
<1>8. stack' = <<PublishFrame(type, id)>> /\ UNCHANGED <<rows, seen>>
  BY <1>2 DEF Publish
<1>9. Spread(Told, stack')
  BY <1>6, <1>7, <1>8 DEF Spread
<1> QED
  BY <1>4, <1>8, <1>9, QuietOnce

\* What becomes of a publish frame that calls its next handler.
LEMMA CallNext ==
  ASSUME NEW told, NEW f \in Frames, f.kind = "publish", f.todo # <<>>, Fresh(told, f)
  PROVE  LET h == Head(f.todo)
             x == [f EXCEPT !.todo = Tail(@)]
         IN /\ h \in Handlers
            /\ <<h, f.ev>> \notin told
            /\ x \in Frames /\ x.kind = "publish" /\ x.ev = f.ev /\ Waits(x) = Waits(f)
            /\ h \notin Calls(x) /\ Calls(x) \subseteq Calls(f)
            /\ Fresh(told, x)
<1> DEFINE h == Head(f.todo)
           x == [f EXCEPT !.todo = Tail(@)]
<1>1. f.todo \in Seq(Handlers) /\ Distinct(f.todo)
  BY DEF Frames, Fresh
<1>2. /\ x \in Frames /\ x.kind = "publish" /\ x.ev = f.ev /\ x.out = f.out
      /\ x.todo = Tail(f.todo)
  BY <1>1, HeadTailFacts DEF Frames
<1>3. h \in Handlers
  BY <1>1, HeadTailFacts
<1> HIDE DEF x
<1>4. /\ Distinct(x.todo) /\ Calls(x) \subseteq Calls(f)
      /\ h \in Calls(f) /\ h \notin Calls(x)
  BY <1>1, <1>2, DistinctTail DEF Calls
<1> HIDE DEF h
<1>5. Waits(x) = Waits(f)
  BY <1>2 DEF Waits
<1>6. <<h, f.ev>> \notin told
  BY <1>4 DEF Fresh
<1>7. Fresh(told, x)
  BY <1>2, <1>4, <1>5 DEF Fresh
<1> QED
  BY <1>2, <1>3, <1>4, <1>5, <1>6, <1>7 DEF x, h

\* A node is called.
LEMMA InvokeOnce ==
  ASSUME TypeOK, Linked, Once, Invoke
  PROVE  Once'
<1> DEFINE h == Head(Top.todo)
           x == [Top EXCEPT !.todo = Tail(@)]
           y == Frame("handle", Top.ev, h, <<>>, <<>>)
<1>1. /\ Running /\ Top.kind = "publish" /\ Top.todo # <<>> /\ h \in Nodes
      /\ stack' = Append(Append(Below, x), y) /\ UNCHANGED <<events, rows, seen>>
  BY DEF Invoke
<1>2. /\ Len(stack) \in Nat \ {0} /\ stack \in Seq(Frames) /\ stack # <<>>
      /\ Fresh(Told, Top) /\ Below = SubSeq(stack, 1, Len(stack) - 1)
      /\ \A k \in 1 .. Len(stack) - 1 :
           /\ Fresh(Told, stack[k]) /\ stack[k].kind # "handle"
           /\ Apart(stack[k], Top) /\ Apart(Top, stack[k])
  BY <1>1, TopSpread DEF Once
<1>3. Top \in Frames
  BY <1>1, FrameIds
<1>4. /\ <<h, Top.ev>> \notin Told
      /\ x \in Frames /\ x.kind = "publish" /\ x.ev = Top.ev /\ Waits(x) = Waits(Top)
      /\ h \notin Calls(x) /\ Calls(x) \subseteq Calls(Top)
      /\ Fresh(Told, x)
  BY <1>1, <1>2, <1>3, CallNext
<1>5. /\ y \in Frames /\ y.kind = "handle" /\ y.ev = Top.ev /\ y.by = h
      /\ y.todo = <<>> /\ y.out = <<>>
  BY <1>1, <1>3, EmptySeq DEF Frame, Frames
<1> HIDE DEF x, y, h
<1>6. Waits(y) = {} /\ Fresh(Told, y)
  BY <1>4, <1>5 DEF Waits, Distinct, Fresh
<1>7. Top.ev \notin Waits(Top)
  BY <1>1, <1>2 DEF Fresh
<1>8. Apart(x, y) /\ Apart(y, x)
  BY <1>4, <1>5, <1>6, <1>7 DEF Apart
<1>9. \A k \in 1 .. Len(stack) - 1 : Apart(stack[k], x) /\ Apart(x, stack[k])
  BY <1>1, <1>2, <1>4 DEF Apart
<1>10. \A k \in 1 .. Len(stack) - 1 : Apart(stack[k], y) /\ Apart(y, stack[k])
  BY <1>1, <1>2, <1>5, <1>6 DEF Apart
<1>11. Spread(Told, stack')
  BY <1>1, <1>2, <1>4, <1>5, <1>6, <1>8, <1>9, <1>10, PushSpread DEF Once
<1> QED
  BY <1>1, <1>11, QuietOnce DEF Ids

\* Whoever is given an event was not given it before.
LEMMA SeenOnce ==
  ASSUME TypeOK, Linked, Once, NEW h \in Observers, NEW e \in Ids, <<h, e>> \notin Told,
         seen' = Append(seen, <<h, e>>), UNCHANGED <<events, rows>>
  PROVE  /\ Told' = Told \cup {<<h, e>>}
         /\ Known' /\ DeliveredOnce'
<1>1. seen \in Seq(Observers \X Nat) /\ Len(seen) \in Nat /\ <<h, e>> \in Observers \X Nat
  BY LenProperties DEF TypeOK, Ids
<1>2. /\ DOMAIN seen = 1 .. Len(seen) /\ DOMAIN seen' = 1 .. Len(seen) + 1
      /\ \A i \in DOMAIN seen : seen'[i] = seen[i]
      /\ seen'[Len(seen) + 1] = <<h, e>>
  BY <1>1
<1>3. \A i \in DOMAIN seen' : i \in DOMAIN seen \/ i = Len(seen) + 1
  BY <1>1, <1>2
<1>4. DOMAIN seen \subseteq DOMAIN seen' /\ Len(seen) + 1 \in DOMAIN seen'
  BY <1>1, <1>2
<1>5. {seen'[i] : i \in DOMAIN seen'} = {seen[i] : i \in DOMAIN seen} \cup {<<h, e>>}
  BY <1>2, <1>3, <1>4
<1>6. Told' = Told \cup {<<h, e>>}
  BY <1>5 DEF Told, RowIds
<1>7. Known'
  BY <1>6 DEF Once, Known, Ids
<1>8. \A i \in DOMAIN seen : seen[i] # <<h, e>>
  BY DEF Told
<1>9. \A i, j \in DOMAIN seen' : seen'[i] = seen'[j] => i = j
  <2>1. \A i, j \in DOMAIN seen : seen[i] = seen[j] => i = j
    BY DEF Once, DeliveredOnce
  <2> SUFFICES ASSUME NEW i \in DOMAIN seen', NEW j \in DOMAIN seen', seen'[i] = seen'[j]
               PROVE  i = j
    OBVIOUS
  <2>2. CASE i \in DOMAIN seen /\ j \in DOMAIN seen
    BY <1>2, <2>1, <2>2
  <2>3. CASE i \in DOMAIN seen /\ j = Len(seen) + 1
    BY <1>2, <1>8, <2>3
  <2>4. CASE j \in DOMAIN seen /\ i = Len(seen) + 1
    BY <1>2, <1>8, <2>4
  <2> QED
    BY <1>3, <2>2, <2>3, <2>4
<1> QED
  BY <1>6, <1>7, <1>9 DEF Once, DeliveredOnce, RowIds

\* What was fresh stays so when somebody is given an event that is not about it.
LEMMA StaysFresh ==
  ASSUME NEW told, NEW f, Fresh(told, f), NEW h, NEW e, e \notin Waits(f),
         f.kind = "publish" => f.ev # e \/ h \notin Calls(f), f.kind # "handle"
  PROVE  Fresh(told \cup {<<h, e>>}, f)
BY DEF Fresh

\* An observer is called.
LEMMA ObserveOnce ==
  ASSUME TypeOK, Linked, Once, Observe
  PROVE  Once'
<1> DEFINE h == Head(Top.todo)
           x == [Top EXCEPT !.todo = Tail(@)]
           more == Told \cup {<<h, Top.ev>>}
<1>1. /\ Running /\ Top.kind = "publish" /\ Top.todo # <<>> /\ h \in Observers
      /\ seen' = Append(seen, <<h, Top.ev>>)
      /\ stack' = Append(Below, x) /\ UNCHANGED <<events, rows>>
  BY DEF Observe
<1>2. /\ Len(stack) \in Nat \ {0} /\ stack \in Seq(Frames) /\ stack # <<>>
      /\ Fresh(Told, Top) /\ Below = SubSeq(stack, 1, Len(stack) - 1)
      /\ \A k \in 1 .. Len(stack) - 1 :
           /\ Fresh(Told, stack[k]) /\ stack[k].kind # "handle"
           /\ Apart(stack[k], Top) /\ Apart(Top, stack[k])
  BY <1>1, TopSpread DEF Once
<1>3. Top \in Frames /\ Top.ev \in Ids
  BY <1>1, FrameIds
<1>4. /\ <<h, Top.ev>> \notin Told
      /\ x \in Frames /\ x.kind = "publish" /\ x.ev = Top.ev /\ Waits(x) = Waits(Top)
      /\ h \notin Calls(x) /\ Calls(x) \subseteq Calls(Top)
      /\ Fresh(Told, x)
  BY <1>1, <1>2, <1>3, CallNext
<1> HIDE DEF x, h
<1>5. Told' = more /\ Known' /\ DeliveredOnce'
  BY <1>1, <1>3, <1>4, SeenOnce
<1>6. Top.ev \notin Waits(Top)
  BY <1>1, <1>2 DEF Fresh
<1>7. Fresh(more, x)
  BY <1>4, <1>6, StaysFresh
<1>8. \A k \in 1 .. Len(stack) - 1 : Fresh(more, stack[k])
  <2> SUFFICES ASSUME NEW k \in 1 .. Len(stack) - 1
               PROVE  Fresh(more, stack[k])
    OBVIOUS
  <2>1. Top.ev \notin Waits(stack[k]) /\ (stack[k].kind = "publish" => stack[k].ev # Top.ev)
    BY <1>1, <1>2 DEF Apart
  <2> QED
    BY <1>2, <2>1, StaysFresh
<1>9. \A k \in 1 .. Len(stack) - 1 : Apart(stack[k], x) /\ Apart(x, stack[k])
  BY <1>1, <1>2, <1>4 DEF Apart
<1> HIDE DEF more
<1>10. Spread(more, stack')
  BY <1>1, <1>2, <1>4, <1>7, <1>8, <1>9, PushSpread DEF Once
<1> QED
  BY <1>5, <1>10 DEF Once

\* An observer raises: the run is over.
LEMMA ObserverRaisesOnce ==
  ASSUME TypeOK, Linked, Once, ObserverRaises
  PROVE  Once'
<1> DEFINE h == Head(Top.todo)
<1>1. /\ Running /\ Top.kind = "publish" /\ Top.todo # <<>> /\ h \in Observers
      /\ seen' = Append(seen, <<h, Top.ev>>)
      /\ stack' = <<>> /\ UNCHANGED <<events, rows>>
  BY DEF ObserverRaises, Unwind
<1>2. Fresh(Told, Top)
  BY <1>1, TopSpread DEF Once
<1>3. Top \in Frames /\ Top.ev \in Ids
  BY <1>1, FrameIds
<1>4. <<h, Top.ev>> \notin Told
  BY <1>1, <1>2, <1>3, CallNext
<1> HIDE DEF h
<1>5. Known' /\ DeliveredOnce'
  BY <1>1, <1>3, <1>4, SeenOnce
<1>6. Spread(Told', stack')
  BY <1>1 DEF Spread
<1> QED
  BY <1>5, <1>6 DEF Once

\* A row is written: its node was not given the event before, and the events it
\* lists are new.
LEMMA CaptureOnce ==
  ASSUME SubscribedOnce, TypeOK, Linked, Once, Running, Top.kind = "handle",
         NEW types \in Seq(Types), NEW error \in BOOLEAN, Capture(types, error)
  PROVE  Once'
<1> DEFINE n == Len(events) + Len(types) + 1
           out == [i \in DOMAIN types |-> Len(events) + i]
           x == Frame(IF error THEN "raise" ELSE "emit", Top.ev, Top.by, <<>>, out)
           y == PublishFrame(TraceCaptured, n)
           more == Told \cup {<<Top.by, Top.ev>>}
<1>1. PICK r \in Alive : stack \in Seq(FramesOf(r))
  BY DEF Linked
<1>2. Top \in FramesOf(r) /\ Top \in Frames /\ Top.ev \in Ids /\ Top.by \in Nodes
  BY <1>1, TopFacts DEF FramesOf
<1>3. /\ Len(events') = n
      /\ out \in Seq(Nat) /\ Len(out) = Len(types)
      /\ Len(rows') = Len(rows) + 1
      /\ \A i \in RowIds : rows'[i] = rows[i]
      /\ rows'[Len(rows) + 1].node = Top.by
      /\ rows'[Len(rows) + 1].trigger = Top.ev
  BY <1>2, CaptureFacts
<1>4. /\ Len(events) \in Nat /\ Len(types) \in Nat /\ Len(rows) \in Nat
      /\ DOMAIN types = 1 .. Len(types)
  BY LenProperties DEF TypeOK
<1>5. \A i \in DOMAIN types : out[i] = Len(events) + i
  OBVIOUS
<1>6. DOMAIN out = 1 .. Len(types)
  BY <1>4
<1>7. Distinct(out) /\ \A i \in DOMAIN out : out[i] \notin Ids /\ out[i] # n
  BY <1>4, <1>5, <1>6 DEF Distinct, Ids
<1>8. n \notin Ids /\ Ids \subseteq Ids' /\ n \in Nat
  BY <1>3, <1>4 DEF Ids
<1>9. /\ stack' = Append(Append(Below, x), y) /\ UNCHANGED <<seen, done, failed>>
      /\ x.kind \in {"emit", "raise"} /\ x.ev = Top.ev /\ x.by = Top.by
      /\ x.todo = <<>> /\ x.out = out
  BY DEF Capture, Frame
<1>10. x \in Frames /\ y \in Frames
  BY <1>2, <1>3, <1>8, EmptySeq, PublishFrameFacts DEF Frame, Frames, AllTypes
<1>11. /\ Len(stack) \in Nat \ {0} /\ stack \in Seq(Frames) /\ stack # <<>>
       /\ Fresh(Told, Top) /\ Below = SubSeq(stack, 1, Len(stack) - 1)
       /\ \A k \in 1 .. Len(stack) - 1 :
            /\ k \in 1 .. Len(stack)
            /\ Fresh(Told, stack[k]) /\ stack[k].kind # "handle"
            /\ Apart(stack[k], Top) /\ Apart(Top, stack[k])
  BY TopSpread DEF Once
<1>12. \A k \in 1 .. Len(stack) - 1 : stack[k].ev \in Ids /\ Waits(stack[k]) \subseteq Ids
  BY <1>11, FrameIds
<1>13. <<Top.by, Top.ev>> \notin Told
  BY <1>11 DEF Fresh
<1>14. \A e, h : e \notin Ids => <<h, e>> \notin more
  BY <1>2 DEF Once, Known
<1>15. /\ Fresh(more, y) /\ y.kind = "publish" /\ y.ev = n /\ Waits(y) = {}
  <2>1. TraceCaptured \in AllTypes
    BY DEF AllTypes
  <2>2. \A h \in Handlers : <<h, n>> \notin more
    BY <1>8, <1>14
  <2>3. y = PublishFrame(TraceCaptured, n)
    OBVIOUS
  <2> HIDE DEF n, more, y
  <2>4. PICK type \in AllTypes : type = TraceCaptured
    BY <2>1
  <2>5. PICK e, told, f : e = n /\ told = more /\ f = y
    OBVIOUS
  <2>6. (\A h \in Handlers : <<h, e>> \notin told) /\ f = PublishFrame(type, e)
    BY <2>2, <2>3, <2>4, <2>5
  <2>7. Fresh(told, f) /\ f.kind = "publish" /\ f.ev = e /\ Waits(f) = {}
    BY <2>4, <2>6, FreshPublish
  <2> QED
    BY <2>5, <2>7
<1> HIDE DEF x, y, n, out
<1>16. \A e \in Waits(x) : e \notin Ids /\ e # n
  BY <1>7, <1>9 DEF Waits
<1>17. Fresh(more, x)
  <2>1. Distinct(x.todo) /\ Distinct(x.out)
    BY <1>7, <1>9 DEF Distinct
  <2> HIDE DEF more
  <2>2. \A e \in Waits(x) : \A h \in Handlers : <<h, e>> \notin more
    BY <1>14, <1>16
  <2> QED
    BY <1>9, <2>1, <2>2 DEF Fresh
<1>18. \A k \in 1 .. Len(stack) - 1 : Fresh(more, stack[k])
  <2> SUFFICES ASSUME NEW k \in 1 .. Len(stack) - 1
               PROVE  Fresh(more, stack[k])
    OBVIOUS
  <2>1. Top.ev \notin Waits(stack[k])
    BY <1>11 DEF Apart
  <2>2. stack[k].kind = "publish" => stack[k].ev # Top.ev \/ Top.by \notin Calls(stack[k])
    BY <1>11 DEF Apart
  <2> QED
    BY <1>11, <2>1, <2>2, StaysFresh
<1>19. \A k \in 1 .. Len(stack) - 1 : Apart(stack[k], x) /\ Apart(x, stack[k])
  BY <1>9, <1>11, <1>12, <1>16 DEF Apart
<1>20. \A k \in 1 .. Len(stack) - 1 : Apart(stack[k], y) /\ Apart(y, stack[k])
  BY <1>8, <1>11, <1>12, <1>15 DEF Apart
<1>21. Apart(x, y) /\ Apart(y, x)
  BY <1>9, <1>15, <1>16 DEF Apart
<1> HIDE DEF more
<1>22. Spread(more, stack')
  BY <1>9, <1>10, <1>11, <1>15, <1>17, <1>18, <1>19, <1>20, <1>21, PushSpread DEF Once
<1>23. \A i \in RowIds' : i \in RowIds \/ i = Len(rows) + 1
  BY <1>3, <1>4 DEF RowIds
<1>24. RowIds \subseteq RowIds' /\ Len(rows) + 1 \in RowIds'
  BY <1>3, <1>4 DEF RowIds
<1>25. Told' = more
  <2>1. {<<rows'[i].node, rows'[i].trigger>> : i \in RowIds'}
          = {<<rows[i].node, rows[i].trigger>> : i \in RowIds} \cup {<<Top.by, Top.ev>>}
    BY <1>3, <1>23, <1>24
  <2> QED
    BY <1>9, <2>1 DEF Told, more
<1>26. Known'
  BY <1>2, <1>8, <1>25 DEF Once, Known, more
<1>27. DeliveredOnce'
  <2>1. \A i \in RowIds : ~(rows[i].node = Top.by /\ rows[i].trigger = Top.ev)
    BY <1>13 DEF Told
  <2>2. \A i, j \in RowIds :
          (rows[i].node = rows[j].node /\ rows[i].trigger = rows[j].trigger) => i = j
    BY DEF Once, DeliveredOnce
  <2>3. ASSUME NEW i \in RowIds', NEW j \in RowIds',
               rows'[i].node = rows'[j].node, rows'[i].trigger = rows'[j].trigger
        PROVE  i = j
    <3>1. CASE i \in RowIds /\ j \in RowIds
      BY <1>3, <2>2, <2>3, <3>1
    <3>2. CASE i \in RowIds /\ j = Len(rows) + 1
      BY <1>3, <2>1, <2>3, <3>2
    <3>3. CASE j \in RowIds /\ i = Len(rows) + 1
      BY <1>3, <2>1, <2>3, <3>3
    <3> QED
      BY <1>23, <3>1, <3>2, <3>3
  <2>4. \A i, j \in DOMAIN seen' : seen'[i] = seen'[j] => i = j
    BY <1>9 DEF Once, DeliveredOnce
  <2> QED
    BY <2>3, <2>4 DEF DeliveredOnce
<1> QED
  BY <1>22, <1>25, <1>26, <1>27 DEF Once

\* The next of a node's events is published: nobody was given it while it waited.
LEMMA PublishNextOnce ==
  ASSUME SubscribedOnce, TypeOK, Linked, Once, PublishNext
  PROVE  Once'
<1> DEFINE e == Head(Top.out)
           x == [Top EXCEPT !.out = Tail(@)]
           y == PublishFrame(events[e].type, e)
<1>1. /\ Running /\ Top.kind = "emit" /\ Top.out # <<>>
      /\ stack' = Append(Append(Below, x), y) /\ UNCHANGED <<events, rows, seen>>
  BY DEF PublishNext
<1>2. /\ Len(stack) \in Nat \ {0} /\ stack \in Seq(Frames) /\ stack # <<>>
      /\ Fresh(Told, Top) /\ Below = SubSeq(stack, 1, Len(stack) - 1)
      /\ \A k \in 1 .. Len(stack) - 1 :
           /\ Fresh(Told, stack[k]) /\ stack[k].kind # "handle"
           /\ Apart(stack[k], Top) /\ Apart(Top, stack[k])
  BY <1>1, TopSpread DEF Once
<1>3. PICK r \in Alive : stack \in Seq(FramesOf(r))
  BY <1>1 DEF Linked
<1>4. Top \in FramesOf(r) /\ Top \in Frames
  BY <1>1, <1>3, TopFacts DEF FramesOf
<1>5. x \in FramesOf(r) /\ y \in FramesOf(r)
  BY <1>1, <1>4, EmittedFrame
<1>6. Top.out \in Seq(Nat) /\ Distinct(Top.out)
  BY <1>2, <1>4 DEF Frames, Fresh
<1>7. /\ Distinct(Tail(Top.out))
      /\ {Tail(Top.out)[i] : i \in DOMAIN Tail(Top.out)} \subseteq Waits(Top)
      /\ e \in Waits(Top) /\ e \notin {Tail(Top.out)[i] : i \in DOMAIN Tail(Top.out)}
  BY <1>1, <1>6, DistinctTail DEF Waits
<1>8. /\ x.kind = "emit" /\ x.ev = Top.ev /\ x.todo = Top.todo /\ x.out = Tail(Top.out)
  BY <1>1, <1>4 DEF Frames
<1>9. e \in Ids
  <2>1. \A j \in 1 .. Len(Top.out) : Top.out[j] \in Ids
    BY <1>4 DEF FramesOf
  <2> QED
    BY <1>1, <1>6, <2>1, HeadTailFacts, LenProperties
<1>10. events[e].type \in AllTypes
  <2> HIDE DEF e
  <2>1. events[e] \in Events
    BY <1>9, ElementOfSeq DEF TypeOK, Ids
  <2> QED
    BY <2>1 DEF Events
<1>11. \A h \in Handlers : <<h, e>> \notin Told
  BY <1>2, <1>7 DEF Fresh
<1>12. Fresh(Told, y) /\ y.kind = "publish" /\ y.ev = e /\ Waits(y) = {}
  <2>1. y = PublishFrame(events[e].type, e)
    OBVIOUS
  <2> HIDE DEF e, y
  <2>2. PICK type \in AllTypes : type = events[e].type
    BY <1>10
  <2>3. PICK id, told, f : id = e /\ told = Told /\ f = y
    OBVIOUS
  <2>4. (\A h \in Handlers : <<h, id>> \notin told) /\ f = PublishFrame(type, id)
    BY <1>11, <2>1, <2>2, <2>3
  <2>5. Fresh(told, f) /\ f.kind = "publish" /\ f.ev = id /\ Waits(f) = {}
    BY <2>2, <2>4, FreshPublish
  <2> QED
    BY <2>3, <2>5
<1> HIDE DEF x, y, e
<1>13. Waits(x) \subseteq Waits(Top) /\ e \notin Waits(x) /\ Distinct(x.out)
  BY <1>7, <1>8 DEF Waits
<1>14. Fresh(Told, x)
  BY <1>2, <1>8, <1>13 DEF Fresh
<1>15. \A k \in 1 .. Len(stack) - 1 : Apart(stack[k], x) /\ Apart(x, stack[k])
  BY <1>2, <1>8, <1>13 DEF Apart
<1>16. \A k \in 1 .. Len(stack) - 1 : Apart(stack[k], y) /\ Apart(y, stack[k])
  BY <1>2, <1>7, <1>12 DEF Apart
<1>17. Apart(x, y) /\ Apart(y, x)
  BY <1>8, <1>12, <1>13 DEF Apart
<1>18. x \in Frames /\ y \in Frames
  BY <1>5 DEF FramesOf
<1>19. Spread(Told, stack')
  BY <1>1, <1>2, <1>8, <1>12, <1>14, <1>15, <1>16, <1>17, <1>18, PushSpread DEF Once
<1> QED
  BY <1>1, <1>19, QuietOnce DEF Ids

\* Every step keeps it.
LEMMA OnceStep ==
  ASSUME SubscribedOnce, TypeOK, Linked, Once, [Next]_vars
  PROVE  Once'
<1>1. ASSUME NEW type \in Types, Publish(type) PROVE Once'
  BY <1>1, PublishOnce
<1>2. CASE Return
  <2>1. /\ Running /\ stack' = Below /\ UNCHANGED <<events, rows, seen>>
    BY <1>2 DEF Return
  <2>2. Spread(Told, stack')
    BY <2>1, PopSpread DEF Once, TypeOK, Running, Below
  <2> QED
    BY <2>1, <2>2, QuietOnce DEF Ids
<1>3. CASE Reraise
  <2>1. stack' = <<>> /\ UNCHANGED <<events, rows, seen>>
    BY <1>3 DEF Reraise, Unwind
  <2>2. Spread(Told, stack')
    BY <2>1 DEF Spread
  <2> QED
    BY <2>1, <2>2, QuietOnce DEF Ids
<1>4. CASE Handle
  <2>1. PICK types \in Reactions[Top.by][events[Top.ev].type] : Capture(types, FALSE)
    BY <1>4 DEF Handle
  <2>2. PICK r \in Alive : stack \in Seq(FramesOf(r))
    BY <1>4 DEF Handle, Linked
  <2>3. Top \in FramesOf(r)
    BY <1>4, <2>2, TopFacts DEF Handle
  <2>4. types \in Seq(Types)
    BY <1>4, <2>1, <2>3 DEF Handle, FramesOf
  <2> QED
    BY <1>4, <2>1, <2>4, CaptureOnce DEF Handle
<1>5. CASE HandleRaises
  BY <1>5, CaptureOnce, EmptySeq DEF HandleRaises
<1>6. CASE UNCHANGED vars
  <2>1. stack' = stack /\ UNCHANGED <<events, rows, seen>>
    BY <1>6 DEF vars
  <2> QED
    BY <2>1, QuietOnce DEF Ids, Once
<1> QED
  BY <1>1, <1>2, <1>3, <1>4, <1>5, <1>6, InvokeOnce, ObserveOnce, ObserverRaisesOnce,
     PublishNextOnce DEF Next, Step

\* If no handler is subscribed twice to a type or to both a type and "*", no node
\* and no observer is given an event twice, however deep publishing nests and
\* whatever raises (events.py publish, node.py _make_handler).
THEOREM SafeDeliveredOnce == ASSUME SubscribedOnce PROVE Spec => []DeliveredOnce
<1>1. Init => Once
  BY DEF Init, Once, Known, Spread, DeliveredOnce, Told, RowIds
<1>2. TypeOK /\ Linked /\ Once /\ [Next]_vars => Once'
  BY OnceStep
<1>3. Once => DeliveredOnce
  BY DEF Once
<1> QED
  BY <1>1, <1>2, <1>3, TypeCorrect, PTL DEF Spec
-----------------------------------------------------------------------------
(***************************************************************************)
(* The trace is complete before what it tells of happens.                  *)
(***************************************************************************)
\* Every event a node emitted is in an earlier row of its run, and no row is
\* about an event emitted later.
Traced ==
  \A e \in Ids :
    /\ events[e].src # Outside =>
         /\ events[e].src \in RowIds
         /\ RowRun(events[e].src) = RunOf(e)
         /\ \/ events[e].type = TraceCaptured
            \/ \E k \in DOMAIN rows[events[e].src].emitted :
                 rows[events[e].src].emitted[k] = e
    /\ \A i \in RowIds : rows[i].trigger = e => events[e].src < i

\* A row is written together with the events it tells of.
LEMMA CaptureTraced ==
  ASSUME TypeOK, Linked, Traced, Running, Top.kind = "handle",
         NEW types \in Seq(Types), NEW error \in BOOLEAN, Capture(types, error)
  PROVE  Traced'
<1>1. PICK r \in Alive : stack \in Seq(FramesOf(r))
  BY DEF Linked
<1>2. Top.ev \in Ids /\ Top.by \in Nodes
  BY <1>1, TopFacts DEF FramesOf
<1> DEFINE n == Len(events) + Len(types) + 1
           src == Len(rows) + 1
           out == [i \in DOMAIN types |-> Len(events) + i]
<1>3. /\ Len(events') = n
      /\ \A e \in Ids : events'[e] = events[e]
      /\ \A i \in 1 .. Len(types) : events'[Len(events) + i] = Child(Top.ev, types[i], src)
      /\ events'[n] = Child(Top.ev, TraceCaptured, src)
      /\ Len(out) = Len(types)
      /\ Len(rows') = Len(rows) + 1
      /\ \A i \in RowIds : rows'[i] = rows[i]
      /\ rows'[src].trigger = Top.ev /\ rows'[src].emitted = out
  BY <1>2, CaptureFacts
<1>4. /\ Len(events) \in Nat /\ Len(types) \in Nat /\ Len(rows) \in Nat
      /\ DOMAIN types = 1 .. Len(types)
  BY LenProperties DEF TypeOK
<1>5. \A i \in 1 .. Len(types) : i \in DOMAIN out /\ out[i] = Len(events) + i
  BY <1>4
<1> HIDE DEF out
<1>6. /\ RowIds' = RowIds \cup {src} /\ src \notin RowIds /\ src # Outside /\ Outside < src
      /\ \A i \in RowIds : i < src
  BY <1>3, <1>4 DEF RowIds, Outside
<1>7. \A e \in Ids' : e \in Ids \/ e = n \/ \E i \in 1 .. Len(types) : e = Len(events) + i
  <2> SUFFICES ASSUME NEW e \in Ids', e \notin Ids, e # n
               PROVE  \E i \in 1 .. Len(types) : e = Len(events) + i
    OBVIOUS
  <2>1. Ids = 1 .. Len(events) /\ Ids' = 1 .. n /\ n \in Nat
    BY <1>3, <1>4 DEF Ids
  <2> HIDE DEF n
  <2>2. e \in 1 .. n
    BY <2>1
  <2>3. e > Len(events) /\ e < n
    BY <1>4, <2>1, <2>2
  <2>4. e - Len(events) \in 1 .. Len(types) /\ e = Len(events) + (e - Len(events))
    BY <1>4, <2>2, <2>3 DEF n
  <2> QED
    BY <2>4
<1>8. \A i \in RowIds : rows[i].trigger \in Ids
  BY DEF Linked
<1>9. n \notin Ids /\ \A i \in 1 .. Len(types) : Len(events) + i \notin Ids
  BY <1>4 DEF Ids
<1>10. \A t : /\ Child(Top.ev, t, src).root = RunOf(Top.ev) /\ Child(Top.ev, t, src).src = src
              /\ Child(Top.ev, t, src).type = t
  BY DEF Child, RunOf
<1> HIDE DEF n, src
<1>11. events'[rows'[src].trigger].root = RunOf(Top.ev)
  BY <1>2, <1>3 DEF RunOf
<1>12. \A i \in RowIds' : rows'[i].trigger \in Ids
  BY <1>2, <1>3, <1>6, <1>8
<1> SUFFICES ASSUME NEW e \in Ids'
             PROVE  /\ events'[e].src # Outside =>
                         /\ events'[e].src \in RowIds'
                         /\ events'[rows'[events'[e].src].trigger].root = events'[e].root
                         /\ \/ events'[e].type = TraceCaptured
                            \/ \E k \in DOMAIN rows'[events'[e].src].emitted :
                                 rows'[events'[e].src].emitted[k] = e
                    /\ \A i \in RowIds' : rows'[i].trigger = e => events'[e].src < i
  BY DEF Traced, RowRun, RunOf
<1>13. CASE e \in Ids
  <2>1. events'[e] = events[e]
    BY <1>3, <1>13
  <2>2. events[e].src # Outside =>
          /\ events[e].src \in RowIds
          /\ events[rows[events[e].src].trigger].root = events[e].root
          /\ \/ events[e].type = TraceCaptured
             \/ \E k \in DOMAIN rows[events[e].src].emitted :
                  rows[events[e].src].emitted[k] = e
    BY <1>13 DEF Traced, RowRun, RunOf
  <2>3. events[e].src # Outside =>
          events'[rows'[events[e].src].trigger].root = events[rows[events[e].src].trigger].root
    BY <1>3, <1>8, <2>2
  <2>4. ASSUME NEW i \in RowIds', rows'[i].trigger = e
        PROVE  events[e].src < i
    <3>1. CASE i \in RowIds
      BY <1>3, <1>13, <2>4, <3>1 DEF Traced
    <3>2. CASE i = src
      BY <1>6, <2>2, <3>2
    <3> QED
      BY <1>6, <3>1, <3>2
  <2> QED
    BY <1>3, <1>6, <2>1, <2>2, <2>3, <2>4
<1>14. CASE e \notin Ids
  <2>1. events'[e].src = src /\ events'[e].root = RunOf(Top.ev)
    <3>1. CASE e = n
      BY <1>3, <1>10, <3>1
    <3>2. ASSUME NEW i \in 1 .. Len(types), e = Len(events) + i
          PROVE  events'[e].src = src /\ events'[e].root = RunOf(Top.ev)
      BY <1>3, <1>10, <3>2
    <3> QED
      BY <1>7, <1>14, <3>1, <3>2
  <2>2. e = n \/ \E i \in 1 .. Len(types) : e = Len(events) + i
    BY <1>7, <1>14
  <2>3. events'[e].type = TraceCaptured \/ \E k \in DOMAIN out : out[k] = e
    BY <1>3, <1>5, <1>10, <2>2
  <2> QED
    BY <1>3, <1>6, <1>11, <1>12, <1>14, <2>1, <2>3
<1> QED
  BY <1>13, <1>14

\* Every step keeps the trace complete.
LEMMA TracedStep == TypeOK /\ Linked /\ Traced /\ [Next]_vars => Traced'
<1> SUFFICES ASSUME TypeOK, Linked, Traced, [Next]_vars
             PROVE  Traced'
  OBVIOUS
<1>1. ASSUME UNCHANGED <<events, rows>>
      PROVE  Traced'
  BY <1>1 DEF Traced, Ids, RowIds, RowRun, RunOf
<1>2. ASSUME NEW type \in Types, Publish(type)
      PROVE  Traced'
  <2> DEFINE id == Len(events) + 1
             new == [type |-> type, root |-> id, src |-> Outside]
  <2>1. Len(events) \in Nat /\ new \in Events
    BY LenProperties DEF TypeOK, Events, AllTypes, Outside
  <2>2. events' = Append(events, new) /\ rows' = rows
    BY <1>2 DEF Publish
  <2>3. /\ Ids' = Ids \cup {id} /\ id \notin Ids
        /\ events'[id] = new /\ \A e \in Ids : events'[e] = events[e]
    BY <2>1, <2>2 DEF TypeOK, Ids
  <2>4. new.src = Outside
    OBVIOUS
  <2>5. \A i \in RowIds : rows[i].trigger \in Ids
    BY DEF Linked
  <2> HIDE DEF id, new
  <2>6. RowIds' = RowIds /\ \A i \in RowIds : events'[rows'[i].trigger] = events[rows[i].trigger]
    BY <2>2, <2>3, <2>5 DEF RowIds
  <2> SUFFICES ASSUME NEW e \in Ids'
               PROVE  /\ events'[e].src # Outside =>
                           /\ events'[e].src \in RowIds
                           /\ events'[rows'[events'[e].src].trigger].root = events'[e].root
                           /\ \/ events'[e].type = TraceCaptured
                              \/ \E k \in DOMAIN rows'[events'[e].src].emitted :
                                   rows'[events'[e].src].emitted[k] = e
                      /\ \A i \in RowIds : rows'[i].trigger = e => events'[e].src < i
    BY <2>6 DEF Traced, RowRun, RunOf
  <2>7. CASE e = id
    BY <2>2, <2>3, <2>4, <2>5, <2>7
  <2>8. CASE e \in Ids
    <3>1. /\ events[e].src # Outside =>
               /\ events[e].src \in RowIds
               /\ events[rows[events[e].src].trigger].root = events[e].root
               /\ \/ events[e].type = TraceCaptured
                  \/ \E k \in DOMAIN rows[events[e].src].emitted :
                       rows[events[e].src].emitted[k] = e
          /\ \A i \in RowIds : rows[i].trigger = e => events[e].src < i
      BY <2>8 DEF Traced, RowRun, RunOf
    <3>2. events'[e] = events[e] /\ rows' = rows
      BY <2>2, <2>3, <2>8
    <3>3. events[e].src \in RowIds =>
            events'[rows[events[e].src].trigger] = events[rows[events[e].src].trigger]
      BY <2>3, <2>5
    <3> QED
      BY <3>1, <3>2, <3>3
  <2> QED
    BY <2>3, <2>7, <2>8
<1>3. CASE Handle
  <2>1. PICK types \in Reactions[Top.by][events[Top.ev].type] : Capture(types, FALSE)
    BY <1>3 DEF Handle
  <2>2. PICK r \in Alive : stack \in Seq(FramesOf(r))
    BY <1>3 DEF Handle, Linked
  <2>3. Top \in FramesOf(r)
    BY <1>3, <2>2, TopFacts DEF Handle
  <2>4. types \in Seq(Types)
    BY <1>3, <2>1, <2>3 DEF Handle, FramesOf
  <2> QED
    BY <1>3, <2>1, <2>4, CaptureTraced DEF Handle
<1>4. CASE HandleRaises
  BY <1>4, CaptureTraced, EmptySeq DEF HandleRaises
<1> QED
  BY <1>1, <1>2, <1>3, <1>4
     DEF Next, Step, Return, Invoke, Observe, ObserverRaises, PublishNext, Reraise, vars

\* The trace always tells, in an earlier row of the same run, which step an event
\* came from before a handler sees the event (substrate.py record, node.py
\* _make_handler).
THEOREM SafeTracedBeforeDelivered == Spec => []TracedBeforeDelivered
<1>1. Init => Traced
  BY DEF Init, Traced, Ids
<1>2. Traced => TracedBeforeDelivered
  BY DEF Traced, TracedBeforeDelivered
<1> QED
  BY <1>1, <1>2, TracedStep, TypeCorrect, PTL DEF Spec
-----------------------------------------------------------------------------
(***************************************************************************)
(* Depth first: what follows from a handler's outputs is owed by frames    *)
(* above the publish that called it.                                       *)
(***************************************************************************)
\* f has still to hand e to h, or hands it just now.
Owed(f, e, h) ==
  \/ f.kind = "publish" /\ f.ev = e /\ h \in Calls(f)
  \/ f.kind = "handle" /\ f.ev = e /\ f.by = h
  \/ e \in Waits(f)

\* Every subscriber was told of e, or will be by a frame above the k-th.
Served(told, s, k, e, type) ==
  \A h \in Subscribers(type) :
    <<h, e>> \in told \/ \E l \in 1 .. Len(s) : l > k /\ Owed(s[l], e, h)

\* No event of a run that goes on or returned is forgotten.
Unforgotten == \A e \in Ids : RunOf(e) \notin failed => Served(Told, stack, 0, e, events[e].type)

\* Whatever followed from the handlers an event was given to so far is done, or
\* owed by frames above the event's own.
Nested ==
  \A k \in 1 .. Len(stack) : stack[k].kind = "publish" =>
    \A i \in RowIds : rows[i].trigger = stack[k].ev =>
      \A e \in Ids : events[e].src >= i => Served(Told, stack, k, e, events[e].type)

\* A handler that runs was called by the publish below it and has emitted nothing.
Called ==
  \A k \in 1 .. Len(stack) : stack[k].kind = "handle" =>
    /\ k > 1 /\ Waits(stack[k]) = {}
    /\ stack[k - 1].kind = "publish" /\ stack[k - 1].ev = stack[k].ev

\* SiblingsWait, with Told.
Waited ==
  \A i, j \in RowIds :
    (i < j /\ rows[i].trigger = rows[j].trigger) =>
      \A e \in Ids :
        events[e].src \in i .. (j - 1) => \A h \in Subscribers(events[e].type) : <<h, e>> \in Told

Depth == Unforgotten /\ Nested /\ Called /\ Waited

\* Delivered says of a handler and an event what Told does.
LEMMA DeliveredTold ==
  ASSUME TypeOK, NEW h \in Handlers, NEW e
  PROVE  Delivered(h, e) <=> <<h, e>> \in Told
<1>1. \A i \in RowIds : rows[i].node \in Nodes
  <2>1. \A i \in RowIds : rows[i] \in Traces
    BY ElementOfSeq DEF TypeOK, RowIds
  <2> QED
    BY <2>1 DEF Traces
<1>2. \A i \in DOMAIN seen : seen[i][1] \in Observers
  <2>1. \A i \in DOMAIN seen : seen[i] \in Observers \X Nat
    BY DEF TypeOK
  <2> QED
    BY <2>1
<1>3. CASE h \in Nodes
  <2>1. h \notin Observers
    BY <1>3
  <2>2. \A i \in DOMAIN seen : seen[i] # <<h, e>>
    BY <1>2, <2>1
  <2> QED
    BY <1>3, <2>2 DEF Delivered, Invoked, Told
<1>4. CASE h \notin Nodes
  <2>1. \A i \in RowIds : <<rows[i].node, rows[i].trigger>> # <<h, e>>
    BY <1>1, <1>4
  <2> QED
    BY <1>4, <2>1 DEF Delivered, Observed, Told
<1> QED
  BY <1>3, <1>4

\* Whoever subscribes is a handler.
LEMMA SubscribersFacts ==
  ASSUME NEW type \in AllTypes
  PROVE  /\ Subscribers(type) \subseteq Handlers
         /\ \A e : Calls(PublishFrame(type, e)) = Subscribers(type)
<1>1. Subs[type] \in Seq(Handlers) /\ Wild \in Seq(Handlers)
  BY SeqMonotonic DEF Handlers
<1>2. Subscribers(type) \subseteq Handlers
  BY <1>1, ElementOfSeq DEF Subscribers
<1> DEFINE both == Subs[type] \o Wild
<1>3. /\ DOMAIN Subs[type] = 1 .. Len(Subs[type]) /\ DOMAIN Wild = 1 .. Len(Wild)
      /\ Len(Subs[type]) \in Nat /\ Len(Wild) \in Nat
      /\ both \in Seq(Handlers) /\ Len(both) = Len(Subs[type]) + Len(Wild)
      /\ DOMAIN both = 1 .. Len(both)
      /\ \A i \in 1 .. Len(Subs[type]) : both[i] = Subs[type][i]
      /\ \A i \in 1 .. Len(Wild) : both[Len(Subs[type]) + i] = Wild[i]
  BY <1>1, ConcatProperties, LenProperties
<1> HIDE DEF both
<1>4. \A i \in DOMAIN both : both[i] \in Subscribers(type)
  <2> SUFFICES ASSUME NEW i \in DOMAIN both
               PROVE  both[i] \in Subscribers(type)
    OBVIOUS
  <2>1. CASE i <= Len(Subs[type])
    BY <1>3, <2>1 DEF Subscribers
  <2>2. CASE i > Len(Subs[type])
    <3>1. i - Len(Subs[type]) \in 1 .. Len(Wild) /\ i = Len(Subs[type]) + (i - Len(Subs[type]))
      BY <1>3, <2>2
    <3> QED
      BY <1>3, <3>1 DEF Subscribers
  <2> QED
    BY <1>3, <2>1, <2>2
<1>5. \A i \in DOMAIN Subs[type] : i \in DOMAIN both
  BY <1>3
<1>6. \A i \in DOMAIN Wild : Len(Subs[type]) + i \in DOMAIN both
  BY <1>3
<1>7. Subscribers(type) = {both[i] : i \in DOMAIN both}
  <2>1. ASSUME NEW i \in DOMAIN Subs[type]
        PROVE  \E j \in DOMAIN both : both[j] = Subs[type][i]
    BY <1>3, <1>5
  <2>2. ASSUME NEW i \in DOMAIN Wild
        PROVE  \E j \in DOMAIN both : both[j] = Wild[i]
    BY <1>3, <1>6
  <2> QED
    BY <1>4, <2>1, <2>2 DEF Subscribers
<1>8. ASSUME NEW e
      PROVE  Calls(PublishFrame(type, e)) = Subscribers(type)
  <2>1. PublishFrame(type, e).todo = both
    BY DEF PublishFrame, Frame, both
  <2> QED
    BY <1>7, <2>1 DEF Calls
<1> QED
  BY <1>2, <1>8

\* A step hands over what the frame on top owes: nothing said about the frames
\* below is lost.
LEMMA Carry ==
  ASSUME NEW told, NEW more, told \subseteq more, NEW s, NEW t, NEW type, NEW e,
         NEW n \in Nat \ {0}, n = Len(s), Len(t) \in Nat, Len(t) >= n - 1,
         \A l \in 1 .. n - 1 : t[l] = s[l],
         NEW k \in 0 .. n - 1, Served(told, s, k, e, type),
         \A h \in Subscribers(type) : Owed(s[n], e, h) =>
           <<h, e>> \in more \/ \E l \in n .. Len(t) : Owed(t[l], e, h)
  PROVE  Served(more, t, k, e, type)
<1> SUFFICES ASSUME NEW h \in Subscribers(type), <<h, e>> \notin more
             PROVE  \E l \in 1 .. Len(t) : l > k /\ Owed(t[l], e, h)
  BY DEF Served
<1>1. PICK l \in 1 .. n : l > k /\ Owed(s[l], e, h)
  BY DEF Served
<1>2. CASE l < n
  <2>1. l \in 1 .. n - 1 /\ l \in 1 .. Len(t)
    BY <1>2
  <2> QED
    BY <1>1, <2>1
<1>3. CASE l = n
  <2>1. PICK m \in n .. Len(t) : Owed(t[m], e, h)
    BY <1>1, <1>3
  <2>2. m \in 1 .. Len(t) /\ m > k
    BY <2>1
  <2> QED
    BY <2>1, <2>2
<1> QED
  BY <1>2, <1>3

\* Events have types somebody may subscribe to, and numbers as sources.
LEMMA EventFacts ==
  ASSUME TypeOK, NEW e \in Ids
  PROVE  events[e].type \in AllTypes /\ events[e].src \in Nat
<1>1. events[e] \in Events
  BY ElementOfSeq DEF TypeOK, Ids
<1> QED
  BY <1>1 DEF Events

\* What a step does to the stack: the frames below the top stay, and what the top
\* owes is handed over.
HandsOver ==
  /\ Told \subseteq Told'
  /\ Len(stack') \in Nat /\ Len(stack') >= Len(stack) - 1
  /\ \A l \in 1 .. Len(stack) - 1 : stack'[l] = stack[l]
  /\ \A e \in Ids : \A h \in Subscribers(events[e].type) :
       Owed(Top, e, h) =>
         <<h, e>> \in Told' \/ \E l \in Len(stack) .. Len(stack') : Owed(stack'[l], e, h)

\* What was said about the frames below the top still holds.
LEMMA HandedOver ==
  ASSUME TypeOK, Running, HandsOver, NEW e \in Ids, NEW k \in 0 .. Len(stack) - 1,
         Served(Told, stack, k, e, events[e].type)
  PROVE  Served(Told', stack', k, e, events[e].type)
<1>1. Len(stack) \in Nat \ {0}
  BY PopFacts DEF TypeOK, Running
<1>2. PICK told, more, s, t, type, n :
        told = Told /\ more = Told' /\ s = stack /\ t = stack' /\ type = events[e].type
        /\ n = Len(stack)
  OBVIOUS
<1>3. /\ told \subseteq more /\ n \in Nat \ {0} /\ n = Len(s) /\ Len(t) \in Nat /\ Len(t) >= n - 1
      /\ \A l \in 1 .. n - 1 : t[l] = s[l]
      /\ k \in 0 .. n - 1
  BY <1>1, <1>2 DEF HandsOver
<1>4. \A h \in Subscribers(type) : Owed(s[n], e, h) =>
        <<h, e>> \in more \/ \E l \in n .. Len(t) : Owed(t[l], e, h)
  BY <1>2 DEF HandsOver, Top
<1>5. Served(told, s, k, e, type)
  BY <1>2
<1>6. Served(more, t, k, e, type)
  BY <1>3, <1>4, <1>5, Carry
<1> QED
  BY <1>2, <1>6

\* A publish on top finds everything that followed from its handlers delivered.
LEMMA TopNested ==
  ASSUME TypeOK, Running, Nested, Top.kind = "publish",
         NEW i \in RowIds, rows[i].trigger = Top.ev, NEW e \in Ids, events[e].src >= i,
         NEW h \in Subscribers(events[e].type)
  PROVE  <<h, e>> \in Told
<1>1. Len(stack) \in Nat \ {0}
  BY PopFacts DEF TypeOK, Running
<1>2. Served(Told, stack, Len(stack), e, events[e].type)
  BY <1>1 DEF Nested, Top
<1> QED
  BY <1>1, <1>2 DEF Served

\* A step that writes no row and creates no event.
LEMMA QuietDepth ==
  ASSUME TypeOK, Running, Depth, HandsOver, UNCHANGED <<events, rows, failed>>,
         \A k \in Len(stack) .. Len(stack') :
           /\ stack'[k].kind = "publish" =>
                \A i \in RowIds : rows[i].trigger = stack'[k].ev =>
                  \A e \in Ids : events[e].src >= i =>
                    \A h \in Subscribers(events[e].type) : <<h, e>> \in Told
           /\ stack'[k].kind = "handle" =>
                /\ k > 1 /\ Waits(stack'[k]) = {}
                /\ stack'[k - 1].kind = "publish" /\ stack'[k - 1].ev = stack'[k].ev
  PROVE  Depth'
<1>1. Len(stack) \in Nat \ {0}
  BY PopFacts DEF TypeOK, Running
<1>2. /\ Told \subseteq Told' /\ Ids' = Ids /\ RowIds' = RowIds /\ events' = events /\ rows' = rows
      /\ failed' = failed
      /\ Len(stack') \in Nat /\ Len(stack') >= Len(stack) - 1
      /\ \A l \in 1 .. Len(stack) - 1 : stack'[l] = stack[l]
  BY DEF HandsOver, Ids, RowIds
<1>3. \A k \in 1 .. Len(stack') : k \in 1 .. Len(stack) - 1 \/ k \in Len(stack) .. Len(stack')
  BY <1>1, <1>2
<1>8. \A l \in 1 .. Len(stack) - 1 :
        l \in 1 .. Len(stack) /\ l \in 0 .. Len(stack) - 1 /\ stack'[l] = stack[l]
  BY <1>1, <1>2
<1>4. Unforgotten'
  <2> SUFFICES ASSUME NEW e \in Ids, RunOf(e) \notin failed
               PROVE  Served(Told', stack', 0, e, events[e].type)
    BY <1>2 DEF Unforgotten, RunOf
  <2>1. Served(Told, stack, 0, e, events[e].type) /\ 0 \in 0 .. Len(stack) - 1
    BY <1>1 DEF Depth, Unforgotten
  <2> QED
    BY <2>1, HandedOver
<1>5. Nested'
  <2> SUFFICES ASSUME NEW k \in 1 .. Len(stack'), stack'[k].kind = "publish",
                      NEW i \in RowIds, rows[i].trigger = stack'[k].ev,
                      NEW e \in Ids, events[e].src >= i
               PROVE  Served(Told', stack', k, e, events[e].type)
    BY <1>2 DEF Nested
  <2>1. CASE k \in 1 .. Len(stack) - 1
    <3>1. stack'[k] = stack[k] /\ k \in 0 .. Len(stack) - 1 /\ k \in 1 .. Len(stack)
      BY <1>8, <2>1
    <3>2. Served(Told, stack, k, e, events[e].type)
      BY <3>1 DEF Depth, Nested
    <3> QED
      BY <3>1, <3>2, HandedOver
  <2>2. CASE k \in Len(stack) .. Len(stack')
    BY <1>2, <2>2 DEF Served
  <2> QED
    BY <1>3, <2>1, <2>2
<1>6. Called'
  <2> SUFFICES ASSUME NEW k \in 1 .. Len(stack'), stack'[k].kind = "handle"
               PROVE  /\ k > 1 /\ Waits(stack'[k]) = {}
                      /\ stack'[k - 1].kind = "publish" /\ stack'[k - 1].ev = stack'[k].ev
    BY DEF Called, Waits
  <2>1. CASE k \in 1 .. Len(stack) - 1
    <3>1. k \in 1 .. Len(stack) /\ stack'[k] = stack[k]
      BY <1>8, <2>1
    <3>2. /\ k > 1 /\ Waits(stack[k]) = {}
          /\ stack[k - 1].kind = "publish" /\ stack[k - 1].ev = stack[k].ev
      BY <3>1 DEF Depth, Called
    <3>3. k - 1 \in 1 .. Len(stack) - 1
      BY <1>1, <2>1, <3>2
    <3> QED
      BY <1>2, <3>1, <3>2, <3>3
  <2>2. CASE k \in Len(stack) .. Len(stack')
    BY <2>2
  <2> QED
    BY <1>3, <2>1, <2>2
<1>7. Waited'
  BY <1>2 DEF Depth, Waited
<1> QED
  BY <1>4, <1>5, <1>6, <1>7 DEF Depth

\* An exception takes the whole stack, and with it the run.
LEMMA UnwindDepth ==
  ASSUME TypeOK, Linked, Depth, Running, Unwind, Told \subseteq Told', UNCHANGED <<events, rows>>
  PROVE  Depth'
<1>1. PICK r \in Alive : stack \in Seq(FramesOf(r))
  BY DEF Linked
<1>2. Run = r
  BY <1>1, TopFacts
<1>3. stack' = <<>> /\ Len(stack') = 0 /\ failed' = failed \cup {r}
  BY <1>2, EmptySeq DEF Unwind
<1>4. Nested' /\ Called'
  BY <1>3 DEF Nested, Called
<1>5. Waited'
  BY DEF Depth, Waited, Ids, RowIds
<1>6. ASSUME NEW e \in Ids, RunOf(e) # r, RunOf(e) \notin failed, NEW h \in Subscribers(events[e].type)
      PROVE  <<h, e>> \in Told'
  <2>1. <<h, e>> \in Told \/ \E l \in 1 .. Len(stack) : Owed(stack[l], e, h)
    BY <1>6 DEF Depth, Unforgotten, Served
  <2>2. ASSUME NEW l \in 1 .. Len(stack), Owed(stack[l], e, h)
        PROVE  FALSE
    <3>1. stack[l] \in FramesOf(r)
      BY <1>1, ElementOfSeq
    <3>2. /\ RunOf(stack[l].ev) = r
          /\ \A j \in 1 .. Len(stack[l].out) : RunOf(stack[l].out[j]) = r
          /\ stack[l] \in Frames
      BY <3>1 DEF FramesOf
    <3>3. \A x \in Waits(stack[l]) : RunOf(x) = r
      <4>1. stack[l].out \in Seq(Nat)
        BY <3>2 DEF Frames
      <4>2. DOMAIN stack[l].out = 1 .. Len(stack[l].out)
        BY <4>1, LenProperties
      <4> QED
        BY <3>2, <4>2 DEF Waits
    <3>4. RunOf(e) = r
      <4>1. CASE stack[l].ev = e
        BY <3>2, <4>1
      <4>2. CASE e \in Waits(stack[l])
        BY <3>3, <4>2
      <4> QED
        BY <2>2, <4>1, <4>2 DEF Owed
    <3> QED
      BY <1>6, <3>4
  <2> QED
    BY <2>1, <2>2
<1>7. Unforgotten'
  BY <1>3, <1>6 DEF Unforgotten, Served, Ids, RunOf
<1> QED
  BY <1>4, <1>5, <1>7 DEF Depth

\* The rest of a sequence, and what was its head.
LEMMA RestOf ==
  ASSUME NEW S, NEW s \in Seq(S), s # <<>>
  PROVE  \A i \in DOMAIN s : s[i] = Head(s) \/ \E j \in DOMAIN Tail(s) : Tail(s)[j] = s[i]
<1> SUFFICES ASSUME NEW i \in DOMAIN s, i # 1
             PROVE  \E j \in DOMAIN Tail(s) : Tail(s)[j] = s[i]
  BY HeadTailFacts
<1>1. i - 1 \in DOMAIN Tail(s) /\ Tail(s)[i - 1] = s[i]
  OBVIOUS
<1> QED
  BY <1>1

\* A publish frame that calls its next handler owes what it owed, less that call.
LEMMA CallRest ==
  ASSUME NEW f \in Frames, f.kind = "publish", f.todo # <<>>
  PROVE  LET x == [f EXCEPT !.todo = Tail(@)]
         IN /\ x \in Frames /\ x.kind = "publish" /\ x.ev = f.ev
            /\ \A e, h : Owed(f, e, h) => (e = f.ev /\ h = Head(f.todo)) \/ Owed(x, e, h)
<1> DEFINE x == [f EXCEPT !.todo = Tail(@)]
<1>1. f.todo \in Seq(Handlers)
  BY DEF Frames
<1>2. /\ x \in Frames /\ x.kind = "publish" /\ x.ev = f.ev /\ x.out = f.out
      /\ x.todo = Tail(f.todo)
  BY <1>1, HeadTailFacts DEF Frames
<1> HIDE DEF x
<1>3. Waits(x) = Waits(f)
  BY <1>2 DEF Waits
<1>4. \A h \in Calls(f) : h = Head(f.todo) \/ h \in Calls(x)
  <2>1. \A i \in DOMAIN f.todo :
          f.todo[i] = Head(f.todo) \/ \E j \in DOMAIN x.todo : x.todo[j] = f.todo[i]
    BY <1>1, <1>2, RestOf
  <2> QED
    BY <2>1 DEF Calls
<1>5. \A e, h : Owed(f, e, h) => (e = f.ev /\ h = Head(f.todo)) \/ Owed(x, e, h)
  BY <1>2, <1>3, <1>4 DEF Owed
<1> QED
  BY <1>2, <1>5 DEF x

\* A frame on top that has nothing left to do owes nothing.
LEMMA ReturnDepth ==
  ASSUME TypeOK, Linked, Depth, Return
  PROVE  Depth'
<1>1. /\ Running /\ Top.kind \in {"publish", "emit"} /\ Top.todo = <<>> /\ Top.out = <<>>
      /\ stack' = Below /\ UNCHANGED <<events, rows, seen, failed>>
  BY DEF Return
<1>2. /\ Len(stack) \in Nat \ {0} /\ Len(stack') = Len(stack) - 1
      /\ \A k \in 1 .. Len(stack) - 1 : stack'[k] = stack[k]
  BY <1>1, PopFacts DEF TypeOK, Running, Below
<1>3. Calls(Top) = {} /\ Waits(Top) = {}
  BY <1>1 DEF Calls, Waits
<1>4. \A e, h : ~Owed(Top, e, h)
  BY <1>1, <1>3 DEF Owed
<1>5. Told' = Told
  BY <1>1 DEF Told, RowIds
<1>6. HandsOver
  BY <1>2, <1>4, <1>5 DEF HandsOver
<1>7. \A k \in Len(stack) .. Len(stack') : FALSE
  BY <1>2
<1> QED
  BY <1>1, <1>6, <1>7, QuietDepth

\* Whoever is called on a publish of an event finds what followed from those called
\* before delivered.
LEMMA InvokeDepth ==
  ASSUME TypeOK, Linked, Depth, Invoke
  PROVE  Depth'
<1> DEFINE x == [Top EXCEPT !.todo = Tail(@)]
           y == Frame("handle", Top.ev, Head(Top.todo), <<>>, <<>>)
<1>1. /\ Running /\ Top.kind = "publish" /\ Top.todo # <<>> /\ Head(Top.todo) \in Nodes
      /\ stack' = Append(Append(Below, x), y) /\ UNCHANGED <<events, rows, seen, failed>>
  BY DEF Invoke
<1>2. Top \in Frames /\ Top.ev \in Ids
  BY <1>1, FrameIds
<1>3. /\ x \in Frames /\ x.kind = "publish" /\ x.ev = Top.ev
      /\ \A e, h : Owed(Top, e, h) => (e = Top.ev /\ h = Head(Top.todo)) \/ Owed(x, e, h)
  BY <1>1, <1>2, CallRest
<1>4. /\ y \in Frames /\ y.kind = "handle" /\ y.ev = Top.ev /\ y.by = Head(Top.todo)
      /\ y.out = <<>>
  BY <1>1, <1>2, EmptySeq DEF Frame, Frames, Ids
<1> HIDE DEF x, y
<1>5. Len(stack) \in Nat \ {0}
  BY <1>1, PopFacts DEF TypeOK, Running
<1>6. /\ Len(stack') = Len(stack) + 1
      /\ \A k \in 1 .. Len(stack) - 1 : stack'[k] = stack[k]
      /\ stack'[Len(stack)] = x /\ stack'[Len(stack) + 1] = y
  BY <1>1, <1>3, <1>4, PushFacts DEF TypeOK, Running, Below
<1>7. Waits(y) = {}
  BY <1>4 DEF Waits
<1>8. Told' = Told
  BY <1>1 DEF Told, RowIds
<1>9. \A e, h : Owed(Top, e, h) => Owed(stack'[Len(stack)], e, h) \/ Owed(stack'[Len(stack) + 1], e, h)
  BY <1>3, <1>4, <1>6 DEF Owed
<1>10. Len(stack) \in Len(stack) .. Len(stack') /\ Len(stack) + 1 \in Len(stack) .. Len(stack')
  BY <1>5, <1>6
<1>11. HandsOver
  <2>1. Len(stack') \in Nat /\ Len(stack') >= Len(stack) - 1
    BY <1>5, <1>6
  <2>2. \A e, h : Owed(Top, e, h) => \E l \in Len(stack) .. Len(stack') : Owed(stack'[l], e, h)
    BY <1>9, <1>10
  <2> QED
    BY <1>6, <1>8, <2>1, <2>2 DEF HandsOver
<1>12. \A k \in Len(stack) .. Len(stack') : k = Len(stack) \/ k = Len(stack) + 1
  BY <1>5, <1>6
<1>13. \A i \in RowIds : rows[i].trigger = Top.ev =>
         \A e \in Ids : events[e].src >= i =>
           \A h \in Subscribers(events[e].type) : <<h, e>> \in Told
  BY <1>1, TopNested DEF Depth
<1>14. \A k \in Len(stack) .. Len(stack') :
         /\ stack'[k].kind = "publish" => stack'[k].ev = Top.ev
         /\ stack'[k].kind = "handle" =>
              /\ k > 1 /\ Waits(stack'[k]) = {}
              /\ stack'[k - 1].kind = "publish" /\ stack'[k - 1].ev = stack'[k].ev
  <2>1. ASSUME NEW k \in Len(stack) .. Len(stack'), k = Len(stack)
        PROVE  stack'[k].kind = "publish" /\ stack'[k].ev = Top.ev
    BY <1>3, <1>6, <2>1
  <2>2. ASSUME NEW k \in Len(stack) .. Len(stack'), k = Len(stack) + 1
        PROVE  /\ stack'[k].kind = "handle" /\ k > 1 /\ Waits(stack'[k]) = {}
               /\ stack'[k - 1].kind = "publish" /\ stack'[k - 1].ev = stack'[k].ev
    <3>1. k - 1 = Len(stack) /\ k > 1
      BY <1>5, <2>2
    <3> QED
      BY <1>3, <1>4, <1>6, <1>7, <2>2, <3>1
  <2> QED
    BY <1>12, <2>1, <2>2
<1> QED
  BY <1>1, <1>11, <1>13, <1>14, QuietDepth

\* Who was given an event stays told, and the observer called is told.
LEMMA SeenTold ==
  ASSUME TypeOK, NEW h \in Observers, NEW e \in Nat, seen' = Append(seen, <<h, e>>),
         UNCHANGED rows
  PROVE  Told \subseteq Told' /\ <<h, e>> \in Told'
<1>1. seen \in Seq(Observers \X Nat) /\ Len(seen) \in Nat /\ <<h, e>> \in Observers \X Nat
  BY LenProperties DEF TypeOK
<1>2. /\ \A i \in DOMAIN seen : i \in DOMAIN seen' /\ seen'[i] = seen[i]
      /\ Len(seen) + 1 \in DOMAIN seen' /\ seen'[Len(seen) + 1] = <<h, e>>
  BY <1>1
<1>3. {seen[i] : i \in DOMAIN seen} \subseteq {seen'[i] : i \in DOMAIN seen'}
  BY <1>2
<1>4. <<h, e>> \in {seen'[i] : i \in DOMAIN seen'}
  BY <1>2
<1> QED
  BY <1>3, <1>4 DEF Told, RowIds

\* An observer is called and returns.
LEMMA ObserveDepth ==
  ASSUME TypeOK, Linked, Depth, Observe
  PROVE  Depth'
<1> DEFINE x == [Top EXCEPT !.todo = Tail(@)]
<1>1. /\ Running /\ Top.kind = "publish" /\ Top.todo # <<>> /\ Head(Top.todo) \in Observers
      /\ seen' = Append(seen, <<Head(Top.todo), Top.ev>>)
      /\ stack' = Append(Below, x) /\ UNCHANGED <<events, rows, failed>>
  BY DEF Observe
<1>2. Top \in Frames /\ Top.ev \in Ids /\ Top.ev \in Nat
  BY <1>1, FrameIds DEF Ids
<1>3. /\ x \in Frames /\ x.kind = "publish" /\ x.ev = Top.ev
      /\ \A e, h : Owed(Top, e, h) => (e = Top.ev /\ h = Head(Top.todo)) \/ Owed(x, e, h)
  BY <1>1, <1>2, CallRest
<1> HIDE DEF x
<1>4. Len(stack) \in Nat \ {0}
  BY <1>1, PopFacts DEF TypeOK, Running
<1>5. /\ Len(stack') = Len(stack)
      /\ \A k \in 1 .. Len(stack) - 1 : stack'[k] = stack[k]
      /\ stack'[Len(stack)] = x
  BY <1>1, <1>3, PushFacts DEF TypeOK, Running, Below
<1>6. Told \subseteq Told' /\ <<Head(Top.todo), Top.ev>> \in Told'
  BY <1>1, <1>2, SeenTold
<1>7. Len(stack) \in Len(stack) .. Len(stack')
  BY <1>4, <1>5
<1>8. HandsOver
  <2>1. Len(stack') \in Nat /\ Len(stack') >= Len(stack) - 1
    BY <1>4, <1>5
  <2>2. \A e, h : Owed(Top, e, h) =>
          <<h, e>> \in Told' \/ \E l \in Len(stack) .. Len(stack') : Owed(stack'[l], e, h)
    BY <1>3, <1>5, <1>6, <1>7
  <2> QED
    BY <1>5, <1>6, <2>1, <2>2 DEF HandsOver
<1>9. \A i \in RowIds : rows[i].trigger = Top.ev =>
         \A e \in Ids : events[e].src >= i =>
           \A h \in Subscribers(events[e].type) : <<h, e>> \in Told
  BY <1>1, TopNested DEF Depth
<1>10. \A k \in Len(stack) .. Len(stack') : stack'[k].kind = "publish" /\ stack'[k].ev = Top.ev
  BY <1>3, <1>4, <1>5
<1> QED
  BY <1>1, <1>8, <1>9, <1>10, QuietDepth

\* The next of a node's events is published: no row is about it yet, since nobody
\* was given it.
LEMMA PublishNextDepth ==
  ASSUME TypeOK, Linked, Once, Depth, PublishNext
  PROVE  Depth'
<1> DEFINE e == Head(Top.out)
           x == [Top EXCEPT !.out = Tail(@)]
           y == PublishFrame(events[e].type, e)
<1>1. /\ Running /\ Top.kind = "emit" /\ Top.out # <<>>
      /\ stack' = Append(Append(Below, x), y) /\ UNCHANGED <<events, rows, seen, failed>>
  BY DEF PublishNext
<1>2. PICK r \in Alive : stack \in Seq(FramesOf(r))
  BY <1>1 DEF Linked
<1>3. Top \in FramesOf(r) /\ Top \in Frames
  BY <1>1, <1>2, TopFacts DEF FramesOf
<1>4. x \in Frames /\ y \in Frames
  BY <1>1, <1>3, EmittedFrame DEF FramesOf
<1>5. Top.out \in Seq(Nat)
  BY <1>3 DEF Frames
<1>6. e \in Waits(Top) /\ e \in Ids
  <2>1. 1 \in DOMAIN Top.out /\ e = Top.out[1] /\ DOMAIN Top.out = 1 .. Len(Top.out)
    BY <1>1, <1>5, HeadTailFacts, LenProperties
  <2> QED
    BY <1>3, <2>1 DEF FramesOf, Waits
<1>7. x.kind = "emit" /\ x.ev = Top.ev /\ x.out = Tail(Top.out)
  BY <1>1, <1>3 DEF Frames
<1>8. y.kind = "publish" /\ y.ev = e /\ Calls(y) = Subscribers(events[e].type)
  <2>1. events[e].type \in AllTypes
    BY <1>6, EventFacts
  <2>2. Calls(y) = Subscribers(events[e].type)
    BY <2>1, SubscribersFacts
  <2> QED
    BY <2>2 DEF PublishFrame, Frame
<1> HIDE DEF x, y, e
<1>9. \A v \in Waits(Top) : v = e \/ v \in Waits(x)
  <2>1. PICK s \in Seq(Nat) : s = Top.out /\ s # <<>>
    BY <1>1, <1>5
  <2>2. \A i \in DOMAIN s : s[i] = Head(s) \/ \E j \in DOMAIN Tail(s) : Tail(s)[j] = s[i]
    BY <2>1, RestOf
  <2>3. e = Head(s) /\ x.out = Tail(s)
    BY <1>7, <2>1 DEF e
  <2>4. Waits(Top) = {s[i] : i \in DOMAIN s}
    BY <2>1 DEF Waits
  <2>5. Waits(x) = {Tail(s)[j] : j \in DOMAIN Tail(s)}
    BY <2>3 DEF Waits
  <2> QED
    BY <2>2, <2>3, <2>4, <2>5
<1>10. \A i \in RowIds : rows[i].trigger # e
  <2>1. Fresh(Told, Top)
    BY <1>1, TopSpread DEF Once
  <2>2. \A h \in Handlers : <<h, e>> \notin Told
    BY <1>6, <2>1 DEF Fresh
  <2>3. \A i \in RowIds : rows[i].node \in Handlers
    <3>1. \A i \in RowIds : rows[i] \in Traces
      BY ElementOfSeq DEF TypeOK, RowIds
    <3> QED
      BY <3>1 DEF Traces, Handlers
  <2> QED
    BY <2>2, <2>3 DEF Told
<1>11. Len(stack) \in Nat \ {0}
  BY <1>1, PopFacts DEF TypeOK, Running
<1>12. /\ Len(stack') = Len(stack) + 1
       /\ \A k \in 1 .. Len(stack) - 1 : stack'[k] = stack[k]
       /\ stack'[Len(stack)] = x /\ stack'[Len(stack) + 1] = y
  BY <1>1, <1>4, PushFacts DEF TypeOK, Running, Below
<1>13. Told' = Told
  BY <1>1 DEF Told, RowIds
<1>14. Len(stack) \in Len(stack) .. Len(stack') /\ Len(stack) + 1 \in Len(stack) .. Len(stack')
  BY <1>11, <1>12
<1>15. HandsOver
  <2>1. Len(stack') \in Nat /\ Len(stack') >= Len(stack) - 1
    BY <1>11, <1>12
  <2>2. ASSUME NEW v \in Ids, NEW h \in Subscribers(events[v].type), Owed(Top, v, h)
        PROVE  \E l \in Len(stack) .. Len(stack') : Owed(stack'[l], v, h)
    <3>1. v \in Waits(Top)
      BY <1>1, <2>2 DEF Owed
    <3>2. CASE v = e
      <4>1. Owed(y, v, h)
        BY <1>8, <2>2, <3>2 DEF Owed
      <4> QED
        BY <1>12, <1>14, <4>1
    <3>3. CASE v \in Waits(x)
      <4>1. Owed(x, v, h)
        BY <3>3 DEF Owed
      <4> QED
        BY <1>12, <1>14, <4>1
    <3> QED
      BY <1>9, <3>1, <3>2, <3>3
  <2> QED
    BY <1>12, <1>13, <2>1, <2>2 DEF HandsOver
<1>16. \A k \in Len(stack) .. Len(stack') : k = Len(stack) \/ k = Len(stack) + 1
  BY <1>11, <1>12
<1>17. \A k \in Len(stack) .. Len(stack') :
         stack'[k].kind = "emit" \/ (stack'[k].kind = "publish" /\ stack'[k].ev = e)
  BY <1>7, <1>8, <1>12, <1>16 DEF x
<1> QED
  BY <1>1, <1>10, <1>15, <1>17, QuietDepth

\* An outside event begins a run when every earlier one is over: nothing is owed.
LEMMA PublishDepth ==
  ASSUME TypeOK, Linked, Depth, NEW type \in Types, Publish(type)
  PROVE  Depth'
<1> DEFINE id == Len(events) + 1
           new == [type |-> type, root |-> id, src |-> Outside]
           y == PublishFrame(type, id)
<1>1. Len(events) \in Nat /\ new \in Events /\ type \in AllTypes
  BY LenProperties DEF TypeOK, Events, AllTypes, Outside
<1>2. /\ events' = Append(events, new) /\ stack' = <<y>> /\ stack = <<>>
      /\ UNCHANGED <<rows, seen, done, failed>>
  BY DEF Publish, Running
<1>3. /\ Ids' = Ids \cup {id} /\ id \notin Ids
      /\ events'[id] = new /\ \A e \in Ids : events'[e] = events[e]
  BY <1>1, <1>2 DEF TypeOK, Ids
<1>4. new.src = Outside /\ new.type = type /\ new.root = id
  OBVIOUS
<1>5. \A i \in RowIds : rows[i].trigger \in Ids /\ i > Outside
  BY DEF Linked, RowIds, Outside
<1>6. Told' = Told /\ RowIds' = RowIds /\ failed' = failed /\ rows' = rows
  BY <1>2 DEF Told, RowIds
<1>7. Calls(y) = Subscribers(type) /\ y.kind = "publish" /\ y.ev = id
  BY <1>1, SubscribersFacts DEF PublishFrame, Frame
<1>8. /\ Len(stack') = 1 /\ stack'[1] = y /\ Len(stack) = 0
      /\ 1 \in 1 .. Len(stack') /\ 1 > 0
      /\ \A k \in 1 .. Len(stack') : k = 1
  BY <1>2
<1> HIDE DEF id, new, y
<1>9. \A e \in Ids : RunOf(e) \notin failed =>
        \A h \in Subscribers(events[e].type) : <<h, e>> \in Told
  BY <1>8 DEF Depth, Unforgotten, Served
<1>10. Unforgotten'
  <2>1. \A e \in Ids : events'[e].root \notin failed =>
          \A h \in Subscribers(events'[e].type) : <<h, e>> \in Told'
    BY <1>3, <1>6, <1>9 DEF RunOf
  <2>2. \A h \in Subscribers(type) : Owed(stack'[1], id, h)
    BY <1>7, <1>8 DEF Owed
  <2> QED
    BY <1>3, <1>4, <1>6, <1>8, <2>1, <2>2 DEF Unforgotten, Served, RunOf
<1>11. Nested'
  BY <1>3, <1>5, <1>6, <1>7, <1>8 DEF Nested
<1>12. Called'
  BY <1>7, <1>8 DEF Called
<1>13. Waited'
  <2> SUFFICES ASSUME NEW i \in RowIds, NEW j \in RowIds, i < j, rows[i].trigger = rows[j].trigger,
                      NEW e \in Ids', events'[e].src \in i .. (j - 1),
                      NEW h \in Subscribers(events'[e].type)
               PROVE  <<h, e>> \in Told
    BY <1>6 DEF Waited
  <2>1. e # id
    <3>1. Outside \notin i .. (j - 1)
      BY DEF RowIds, Outside
    <3> QED
      BY <1>3, <1>4, <3>1
  <2>2. e \in Ids /\ events'[e] = events[e]
    BY <1>3, <2>1
  <2> QED
    BY <2>2 DEF Depth, Waited
<1> QED
  BY <1>10, <1>11, <1>12, <1>13 DEF Depth

\* A row is written: everything that followed from the rows about the same event is
\* delivered, since only the node that runs stood above the publish that called it.
LEMMA CaptureDepth ==
  ASSUME TypeOK, Linked, Traced, Depth, Running, Top.kind = "handle",
         NEW types \in Seq(Types), NEW error \in BOOLEAN, Capture(types, error)
  PROVE  Depth'
<1> DEFINE n == Len(events) + Len(types) + 1
           src == Len(rows) + 1
           out == [i \in DOMAIN types |-> Len(events) + i]
           x == Frame(IF error THEN "raise" ELSE "emit", Top.ev, Top.by, <<>>, out)
           y == PublishFrame(TraceCaptured, n)
           size == Len(stack)
<1>1. PICK r \in Alive : stack \in Seq(FramesOf(r))
  BY DEF Linked
<1>2. Top \in FramesOf(r) /\ Top \in Frames /\ Top.ev \in Ids /\ Top.by \in Nodes
  BY <1>1, TopFacts DEF FramesOf
<1>3. /\ Len(events') = n
      /\ \A e \in Ids : events'[e] = events[e]
      /\ \A i \in 1 .. Len(types) : events'[Len(events) + i] = Child(Top.ev, types[i], src)
      /\ events'[n] = Child(Top.ev, TraceCaptured, src)
      /\ out \in Seq(Nat) /\ Len(out) = Len(types)
      /\ Len(rows') = Len(rows) + 1
      /\ \A i \in RowIds : rows'[i] = rows[i]
      /\ rows'[src].node = Top.by /\ rows'[src].trigger = Top.ev
  BY <1>2, CaptureFacts
<1>4. /\ Len(events) \in Nat /\ Len(types) \in Nat /\ Len(rows) \in Nat
      /\ DOMAIN types = 1 .. Len(types) /\ n \in Nat
  BY LenProperties DEF TypeOK
<1>5. \A i \in 1 .. Len(types) : i \in DOMAIN out /\ out[i] = Len(events) + i
  BY <1>4
<1>6. /\ stack' = Append(Append(Below, x), y) /\ UNCHANGED <<seen, done, failed>>
      /\ x.kind \in {"emit", "raise"} /\ x.ev = Top.ev /\ x.by = Top.by
      /\ x.todo = <<>> /\ x.out = out
  BY DEF Capture, Frame
<1>7. x \in Frames /\ y \in Frames
  BY <1>2, <1>3, <1>4, EmptySeq, PublishFrameFacts DEF Frame, Frames, AllTypes, Ids
<1>8. y.kind = "publish" /\ y.ev = n /\ Calls(y) = Subscribers(TraceCaptured)
  <2>1. TraceCaptured \in AllTypes
    BY DEF AllTypes
  <2>2. Calls(y) = Subscribers(TraceCaptured)
    BY <2>1, SubscribersFacts
  <2> QED
    BY <2>2 DEF PublishFrame, Frame
<1> HIDE DEF out
<1>9. \A e \in Ids' : e \in Ids \/ e = n \/ \E i \in 1 .. Len(types) : e = Len(events) + i
  <2> SUFFICES ASSUME NEW e \in Ids', e \notin Ids, e # n
               PROVE  \E i \in 1 .. Len(types) : e = Len(events) + i
    OBVIOUS
  <2>1. Ids = 1 .. Len(events) /\ Ids' = 1 .. n /\ n \in Nat
    BY <1>3, <1>4 DEF Ids
  <2> HIDE DEF n
  <2>2. e \in 1 .. n
    BY <2>1
  <2>3. e > Len(events) /\ e < n
    BY <1>4, <2>1, <2>2
  <2>4. e - Len(events) \in 1 .. Len(types) /\ e = Len(events) + (e - Len(events))
    BY <1>4, <2>2, <2>3 DEF n
  <2> QED
    BY <2>4
<1>10. n \notin Ids
  BY <1>4 DEF Ids
<1>11. /\ RowIds' = RowIds \cup {src} /\ src \in Nat /\ RowIds \subseteq Nat
       /\ \A i \in RowIds : i < src
  BY <1>3, <1>4 DEF RowIds
<1>12. \A e \in Ids : events[e].src \in Nat /\ events[e].src < src
  BY <1>4 DEF Traced, RowIds, Outside
<1>13. \A t : Child(Top.ev, t, src).src = src /\ Child(Top.ev, t, src).type = t
  BY DEF Child
<1>14. /\ size \in Nat \ {0} /\ Len(stack') = size + 1
       /\ \A k \in 1 .. size - 1 : stack'[k] = stack[k]
       /\ stack'[size] = x /\ stack'[size + 1] = y
  BY <1>6, <1>7, PopFacts, PushFacts DEF TypeOK, Running, Below
<1>15. Told \subseteq Told' /\ <<Top.by, Top.ev>> \in Told'
  <2>1. {<<rows[i].node, rows[i].trigger>> : i \in RowIds}
          \subseteq {<<rows'[i].node, rows'[i].trigger>> : i \in RowIds'}
    BY <1>3, <1>11
  <2>2. <<Top.by, Top.ev>> \in {<<rows'[i].node, rows'[i].trigger>> : i \in RowIds'}
    BY <1>3, <1>11
  <2> QED
    BY <1>6, <2>1, <2>2 DEF Told
<1> HIDE DEF n, src, x, y, size
<1>16. /\ Waits(Top) = {} /\ size > 1 /\ stack[size] = Top /\ size \in 1 .. size
       /\ stack[size - 1].kind = "publish" /\ stack[size - 1].ev = Top.ev
  <2>1. stack[size] = Top /\ size \in 1 .. size /\ size = Len(stack)
    BY <1>14 DEF Top, size
  <2>2. /\ size > 1 /\ Waits(stack[size]) = {}
        /\ stack[size - 1].kind = "publish" /\ stack[size - 1].ev = stack[size].ev
    BY <2>1 DEF Depth, Called
  <2> QED
    BY <2>1, <2>2
<1>17. \A e, h : Owed(Top, e, h) => e = Top.ev /\ h = Top.by
  BY <1>16 DEF Owed
<1>18. HandsOver
  <2>1. Len(stack') \in Nat /\ Len(stack') >= size - 1
    BY <1>14
  <2>2. \A e, h : Owed(Top, e, h) => <<h, e>> \in Told'
    BY <1>15, <1>17
  <2> QED
    BY <1>14, <1>15, <2>1, <2>2 DEF HandsOver, size
<1>19. ASSUME NEW e \in Ids', e \notin Ids
       PROVE  /\ events'[e].src = src
              /\ \A h \in Subscribers(events'[e].type) : Owed(x, e, h) \/ Owed(y, e, h)
  <2>1. CASE e = n
    BY <1>3, <1>8, <1>13, <2>1 DEF Owed
  <2>2. ASSUME NEW i \in 1 .. Len(types), e = Len(events) + i
        PROVE  events'[e].src = src /\ e \in Waits(x)
    <3>1. i \in DOMAIN out /\ out[i] = e
      BY <1>5, <2>2
    <3> QED
      BY <1>3, <1>6, <1>13, <2>2, <3>1 DEF Waits
  <2> QED
    BY <1>9, <1>19, <2>1, <2>2 DEF Owed
<1>20. ASSUME NEW e \in Ids', e \notin Ids, NEW k \in 0 .. size - 1
       PROVE  Served(Told', stack', k, e, events'[e].type)
  <2>1. /\ size \in 1 .. Len(stack') /\ size + 1 \in 1 .. Len(stack')
        /\ size > k /\ size + 1 > k
    BY <1>14
  <2> QED
    BY <1>14, <1>19, <1>20, <2>1 DEF Served
<1>21. ASSUME NEW e \in Ids, NEW k \in 0 .. size - 1, Served(Told, stack, k, e, events[e].type)
       PROVE  Served(Told', stack', k, e, events'[e].type)
  BY <1>3, <1>18, <1>21, HandedOver DEF size
<1>22. \A k \in 1 .. Len(stack') : k \in 1 .. size - 1 \/ k = size \/ k = size + 1
  BY <1>14
<1>23. Unforgotten'
  <2> SUFFICES ASSUME NEW e \in Ids', events'[e].root \notin failed
               PROVE  Served(Told', stack', 0, e, events'[e].type)
    BY <1>6 DEF Unforgotten, RunOf
  <2>1. 0 \in 0 .. size - 1
    BY <1>14
  <2>2. CASE e \in Ids
    <3>1. Served(Told, stack, 0, e, events[e].type)
      BY <1>3, <2>2 DEF Depth, Unforgotten, RunOf
    <3> QED
      BY <1>21, <2>1, <2>2, <3>1
  <2> QED
    BY <1>20, <2>1, <2>2
<1>24. \A i \in RowIds' : rows'[i].trigger \in Ids
  BY <1>2, <1>3, <1>11 DEF Linked
<1>25. Nested'
  <2> SUFFICES ASSUME NEW k \in 1 .. Len(stack'), stack'[k].kind = "publish",
                      NEW i \in RowIds', rows'[i].trigger = stack'[k].ev,
                      NEW e \in Ids', events'[e].src >= i
               PROVE  Served(Told', stack', k, e, events'[e].type)
    BY DEF Nested
  <2>1. k # size /\ k # size + 1
    BY <1>6, <1>8, <1>10, <1>14, <1>24
  <2>2. k \in 1 .. size - 1 /\ k \in 0 .. size - 1 /\ k \in 1 .. size
    BY <1>14, <1>22, <2>1
  <2>3. CASE e \in Ids
    <3>1. i \in RowIds /\ events[e].src >= i
      BY <1>3, <1>11, <1>12, <2>3
    <3>2. rows[i].trigger = stack[k].ev /\ stack[k].kind = "publish"
      BY <1>3, <1>14, <2>2, <3>1
    <3>3. Served(Told, stack, k, e, events[e].type)
      BY <2>2, <2>3, <3>1, <3>2 DEF Depth, Nested, size
    <3> QED
      BY <1>21, <2>2, <2>3, <3>3
  <2> QED
    BY <1>20, <2>2, <2>3
<1>26. Called'
  <2> SUFFICES ASSUME NEW k \in 1 .. Len(stack'), stack'[k].kind = "handle"
               PROVE  /\ k > 1 /\ Waits(stack'[k]) = {}
                      /\ stack'[k - 1].kind = "publish" /\ stack'[k - 1].ev = stack'[k].ev
    BY DEF Called, Waits
  <2>1. k # size /\ k # size + 1
    BY <1>6, <1>8, <1>14
  <2>2. k \in 1 .. size - 1 /\ k \in 1 .. size
    BY <1>14, <1>22, <2>1
  <2>3. stack'[k] = stack[k] /\ stack[k].kind = "handle"
    BY <1>14, <2>2
  <2>4. /\ k > 1 /\ Waits(stack[k]) = {}
        /\ stack[k - 1].kind = "publish" /\ stack[k - 1].ev = stack[k].ev
    BY <2>2, <2>3 DEF Depth, Called, size
  <2>5. k - 1 \in 1 .. size - 1
    BY <1>14, <2>2, <2>4
  <2> QED
    BY <1>14, <2>3, <2>4, <2>5
<1>27. Waited'
  <2> SUFFICES ASSUME NEW i \in RowIds', NEW j \in RowIds', i < j,
                      rows'[i].trigger = rows'[j].trigger,
                      NEW e \in Ids', events'[e].src \in i .. (j - 1),
                      NEW h \in Subscribers(events'[e].type)
               PROVE  <<h, e>> \in Told'
    BY DEF Waited
  <2>1. i \in RowIds /\ (j \in RowIds \/ j = src)
    <3>1. i \in RowIds \cup {src} /\ j \in RowIds \cup {src} /\ i \in Nat /\ j \in Nat
      BY <1>11
    <3>2. j <= src
      BY <1>11, <3>1
    <3>3. i # src
      BY <1>11, <3>1, <3>2
    <3> QED
      BY <3>1, <3>3
  <2>2. e \in Ids
    <3>1. j \in Nat /\ j <= src /\ i \in Nat
      <4>1. CASE j \in RowIds
        BY <1>11, <2>1, <4>1
      <4>2. CASE j = src
        BY <1>11, <2>1, <4>2
      <4> QED
        BY <2>1, <4>1, <4>2
    <3>2. events'[e].src # src
      BY <1>11, <3>1
    <3> QED
      BY <1>19, <3>2
  <2>3. events'[e] = events[e] /\ rows'[i] = rows[i]
    BY <1>3, <2>1, <2>2
  <2>4. CASE j \in RowIds
    <3>1. rows[i].trigger = rows[j].trigger
      BY <1>3, <2>3, <2>4
    <3> QED
      BY <1>15, <2>1, <2>2, <2>3, <2>4, <3>1 DEF Depth, Waited
  <2>5. CASE j = src
    <3>1. rows[i].trigger = stack[size - 1].ev
      BY <1>3, <1>16, <2>3, <2>5
    <3>2. events[e].src >= i
      BY <1>11, <1>12, <2>1, <2>2, <2>3
    <3>3. size - 1 \in 1 .. size
      BY <1>14, <1>16
    <3>4. Served(Told, stack, size - 1, e, events[e].type)
      BY <1>16, <2>1, <2>2, <3>1, <3>2, <3>3 DEF Depth, Nested, size
    <3>5. <<h, e>> \in Told \/ \E l \in 1 .. size : l > size - 1 /\ Owed(stack[l], e, h)
      BY <2>3, <3>4 DEF Served, size
    <3>6. ASSUME NEW l \in 1 .. size, l > size - 1, Owed(stack[l], e, h)
          PROVE  <<h, e>> \in Told'
      <4>1. l = size
        BY <1>14, <3>6
      <4> QED
        BY <1>15, <1>16, <1>17, <3>6, <4>1
    <3> QED
      BY <1>15, <3>5, <3>6
  <2> QED
    BY <2>1, <2>4, <2>5
<1> QED
  BY <1>23, <1>25, <1>26, <1>27 DEF Depth

\* Every step keeps the order.
LEMMA DepthStep ==
  ASSUME TypeOK, Linked, Traced, Once, Depth, [Next]_vars
  PROVE  Depth'
<1>1. ASSUME NEW type \in Types, Publish(type) PROVE Depth'
  BY <1>1, PublishDepth
<1>2. CASE ObserverRaises
  <2>1. /\ Running /\ Top.kind = "publish" /\ Top.todo # <<>> /\ Head(Top.todo) \in Observers
        /\ seen' = Append(seen, <<Head(Top.todo), Top.ev>>)
        /\ Unwind /\ UNCHANGED <<events, rows>>
    BY <1>2 DEF ObserverRaises
  <2>2. Top.ev \in Nat
    BY <2>1, FrameIds DEF Ids
  <2>3. Told \subseteq Told'
    BY <2>1, <2>2, SeenTold
  <2> QED
    BY <2>1, <2>3, UnwindDepth
<1>3. CASE Reraise
  <2>1. Running /\ Unwind /\ UNCHANGED <<events, rows, seen>>
    BY <1>3 DEF Reraise
  <2>2. Told' = Told
    BY <2>1 DEF Told, RowIds
  <2> QED
    BY <2>1, <2>2, UnwindDepth
<1>4. CASE Handle
  <2>1. PICK types \in Reactions[Top.by][events[Top.ev].type] : Capture(types, FALSE)
    BY <1>4 DEF Handle
  <2>2. PICK r \in Alive : stack \in Seq(FramesOf(r))
    BY <1>4 DEF Handle, Linked
  <2>3. Top \in FramesOf(r)
    BY <1>4, <2>2, TopFacts DEF Handle
  <2>4. types \in Seq(Types)
    BY <1>4, <2>1, <2>3 DEF Handle, FramesOf
  <2> QED
    BY <1>4, <2>1, <2>4, CaptureDepth DEF Handle
<1>5. CASE HandleRaises
  BY <1>5, CaptureDepth, EmptySeq DEF HandleRaises
<1>6. CASE UNCHANGED vars
  <2>1. /\ stack' = stack /\ events' = events /\ rows' = rows /\ failed' = failed
        /\ Told' = Told /\ Ids' = Ids /\ RowIds' = RowIds
    BY <1>6 DEF vars, Told, Ids, RowIds
  <2> QED
    BY <2>1 DEF Depth, Unforgotten, Nested, Called, Waited, RunOf
<1> QED
  BY <1>1, <1>2, <1>3, <1>4, <1>5, <1>6, ReturnDepth, InvokeDepth, ObserveDepth,
     PublishNextDepth DEF Next, Step

\* The order is kept from the start.
LEMMA DepthAlways ==
  ASSUME SubscribedOnce
  PROVE  Spec => [](TypeOK /\ Linked /\ Accounted /\ Depth)
<1>1. Init => Traced /\ Once /\ Depth
  BY EmptySeq DEF Init, Traced, Once, Known, Spread, DeliveredOnce, Told, Depth, Unforgotten,
     Nested, Called, Waited, Ids, RowIds
<1>2. TypeOK /\ Linked /\ Once /\ [Next]_vars => Once'
  BY OnceStep
<1>3. TypeOK /\ Linked /\ Traced /\ Once /\ Depth /\ [Next]_vars => Depth'
  BY DepthStep
<1> QED
  BY <1>1, <1>2, <1>3, TracedStep, AccountedAlways, PTL DEF Spec

\* Depth first: when a node is given an event, all that followed from the nodes given
\* it before has been delivered to everybody subscribed (events.py publish, node.py
\* _make_handler).
THEOREM SafeSiblingsWait == ASSUME SubscribedOnce PROVE Spec => []SiblingsWait
<1>1. TypeOK /\ Depth => SiblingsWait
  <2> SUFFICES ASSUME TypeOK, Depth,
                      NEW i \in RowIds, NEW j \in RowIds, i < j, rows[i].trigger = rows[j].trigger,
                      NEW e \in Ids, events[e].src \in i .. (j - 1),
                      NEW h \in Subscribers(events[e].type)
               PROVE  Delivered(h, e)
    BY DEF SiblingsWait
  <2>1. <<h, e>> \in Told
    BY DEF Depth, Waited
  <2>2. h \in Handlers
    BY EventFacts, SubscribersFacts
  <2> QED
    BY <2>1, <2>2, DeliveredTold
<1> QED
  BY <1>1, DepthAlways, PTL

\* A publish that returned normally left nothing of its run undelivered.
THEOREM SafeCompleteOnReturn == ASSUME SubscribedOnce PROVE Spec => []CompleteOnReturn
<1>1. TypeOK /\ Linked /\ Accounted /\ Depth => CompleteOnReturn
  <2> SUFFICES ASSUME TypeOK, Linked, Accounted, Depth,
                      NEW r \in done, NEW e \in Ids, RunOf(e) = r,
                      NEW h \in Subscribers(events[e].type)
               PROVE  Delivered(h, e)
    BY DEF CompleteOnReturn
  <2>1. r \notin failed
    BY DEF Accounted
  <2>2. <<h, e>> \in Told \/ \E l \in 1 .. Len(stack) : Owed(stack[l], e, h)
    BY <2>1 DEF Depth, Unforgotten, Served
  <2>3. ASSUME NEW l \in 1 .. Len(stack), Owed(stack[l], e, h)
        PROVE  FALSE
    <3>1. Running
      BY <2>3, EmptySeq DEF Running
    <3>2. PICK q \in Alive : stack \in Seq(FramesOf(q))
      BY <3>1 DEF Linked
    <3>3. /\ stack[l] \in Frames /\ RunOf(stack[l].ev) = q
          /\ \A j \in 1 .. Len(stack[l].out) : RunOf(stack[l].out[j]) = q
      <4>1. stack[l] \in FramesOf(q)
        BY <3>2, ElementOfSeq
      <4> QED
        BY <4>1 DEF FramesOf
    <3>4. DOMAIN stack[l].out = 1 .. Len(stack[l].out)
      BY <3>3, LenProperties DEF Frames
    <3>5. RunOf(e) = q
      <4>1. CASE stack[l].ev = e
        BY <3>3, <4>1
      <4>2. CASE e \in Waits(stack[l])
        BY <3>3, <3>4, <4>2 DEF Waits
      <4> QED
        BY <2>3, <4>1, <4>2 DEF Owed
    <3> QED
      BY <3>5 DEF Alive
  <2>4. h \in Handlers
    BY EventFacts, SubscribersFacts
  <2> QED
    BY <2>2, <2>3, <2>4, DeliveredTold
<1> QED
  BY <1>1, DepthAlways, PTL
=============================================================================
