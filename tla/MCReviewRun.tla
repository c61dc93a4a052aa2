---------------------------- MODULE MCReviewRun ----------------------------
(* ReviewRun alone, for one process. *)
EXTENDS ReviewRun
=============================================================================
