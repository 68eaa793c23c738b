------------------------------- MODULE Lists --------------------------------
(***************************************************************************)
(* Sequences by position: the members of a finite set of pairs of numbers  *)
(* in order, and what stands in several sequences one after the other.     *)
(* Nothing here is recursive, so that theorems can be proved about what is *)
(* built from it.                                                          *)
(***************************************************************************)
EXTENDS Integers, Sequences, FiniteSets

\* Pairs are ordered by their first number, then by their second.
Before(p, q) == p[1] < q[1] \/ (p[1] = q[1] /\ p[2] < q[2])

InOrder(S) ==
  [k \in 1 .. Cardinality(S) |->
    CHOOSE p \in S : Cardinality({q \in S : Before(q, p)}) = k - 1]

\* Where something stands: which sequence, and where in it.
Positions(seqs) == UNION {{i} \X DOMAIN seqs[i] : i \in DOMAIN seqs}

Flat(seqs) ==
  LET at == InOrder(Positions(seqs))
  IN [k \in DOMAIN at |-> seqs[at[k][1]][at[k][2]]]
=============================================================================
