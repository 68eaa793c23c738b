------------------------------ MODULE MCReview ------------------------------
(***************************************************************************)
(* Small instances of Review: a run that drafts one post, a run that       *)
(* drafts two pitches, an agent's draft that needs nobody, and a scrape    *)
(* that is unsure of its plan.                                             *)
(***************************************************************************)
EXTENDS Review, TLC

CONSTANTS post1, auto, pitch1, pitch2, question

Kind ==
  [i \in Items |-> CASE i \in {post1, auto}    -> "post.drafted"
                     [] i \in {pitch1, pitch2} -> "pitch.drafted"
                     [] OTHER                 -> "source.inference.low_confidence"]

OnePerRun == {<<i>> : i \in Items}
Together  == {<<post1>>, <<auto>>, <<pitch1, pitch2>>}
NotAuto   == Items \ {auto}

\* Only the text of a post matters; the second pitch waits for ever.
Sensible == {<<i, x>> \in {post1, pitch1} \X (Texts \cup {NoText}) : i = pitch1 => x = NoText}

\* Threads are interchangeable.
Symmetry == Permutations(Threads)
=============================================================================
