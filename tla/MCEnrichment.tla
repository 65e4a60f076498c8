---------------------------- MODULE MCEnrichment ----------------------------
(***************************************************************************)
(* Small instances of Enrichment: one or two automatic batches and at most  *)
(* one request of a recruiter, numbered 1, 2 and 3.                         *)
(***************************************************************************)
EXTENDS Enrichment
=============================================================================
