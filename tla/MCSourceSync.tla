---------------------------- MODULE MCSourceSync ----------------------------
(* Instances of SourceSync for TLC: trades are numbered by their date. *)
EXTENDS SourceSync

\* Trade n occurred on day n.
MCDateOf == [t \in Trades |-> t]
=============================================================================
