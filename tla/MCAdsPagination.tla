-------------------------- MODULE MCAdsPagination ---------------------------
(***************************************************************************)
(* AdsPagination for TLC.  Ads may share one of two times, so the order of *)
(* ids matters; pages of one or two items cut between them and at the end. *)
(***************************************************************************)
EXTENDS AdsPagination

CONSTANTS me, other
=============================================================================
