----------------------------- MODULE SourceMirror -----------------------------
(***************************************************************************)
(* What the review sidecar promises about the portfolio ledger it mirrors: *)
(* it moves from one published version of the source to a larger one, in   *)
(* one step, and it never shows rows of two versions.                      *)
(*                                                                         *)
(* ReviewSyncService implements it (SourceSync), and the automation        *)
(* coordinator relies on it (CatchUpRuns).                                 *)
(***************************************************************************)
VARIABLES
    source,     \* the rows of the portfolio ledger
    published,  \* every version of the source there has been
    mirror      \* the rows of the sidecar

Init ==
    /\ source \in published
    /\ mirror = {}

\* The ledger changes, as an append or by hand.
Publish ==
    /\ source' # source
    /\ published' = published \cup {source'}
    /\ UNCHANGED mirror

\* The mirror catches up with a version, not always the latest one.
CatchUp ==
    /\ \E version \in published :
           mirror \subseteq version /\ mirror' = version
    /\ UNCHANGED <<source, published>>

Next == Publish \/ CatchUp

Spec == Init /\ [][Next]_<<source, published, mirror>>
=============================================================================
