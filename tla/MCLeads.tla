------------------------------ MODULE MCLeads -------------------------------
(***************************************************************************)
(* A roster of three boards, the first of an ATS that nobody knows; the    *)
(* others list two postings each, one of them a mismatch and one without   *)
(* a URL.                                                                  *)
(***************************************************************************)
EXTENDS Leads, TLC

CONSTANTS t1, t2, workday, lever, ashby, writer, editor, plumber, ghost

Boards ==
  (workday :> <<>>) @@ (lever :> <<plumber, writer>>) @@ (ashby :> <<editor, ghost>>)
Scanned == <<workday, lever, ashby>>
=============================================================================
