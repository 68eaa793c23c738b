---------------------------- MODULE MCIngestion ----------------------------
(***************************************************************************)
(* Small instances of Ingestion: which records exist, whose they are and   *)
(* which entities they share.                                              *)
(***************************************************************************)
EXTENDS Ingestion, TLC

CONSTANTS v1, v2, r1, r2, r3, acme, job1, job2, job3

OneVenture  == [r \in Records |-> v1]
TwoVentures == [r \in Records |-> IF r = r2 THEN v2 ELSE v1]

\* Two records of one company share its entity.
SharedCompany ==
  [r \in Records |->
    CASE r = r1 -> {job1, acme} [] r = r2 -> {job2, acme} [] OTHER -> {job3}]

\* Threads are interchangeable; only used where no liveness is checked.
WorkerSymmetry == Permutations(Workers)
=============================================================================
