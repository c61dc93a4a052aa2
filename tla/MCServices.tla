----------------------------- MODULE MCServices -----------------------------
(***************************************************************************)
(* One service at a time: the dashboard's write commands, market context,  *)
(* the periodic reports, the review worker or the review runs.  They share *)
(* no state in these models; the initial states say which of them runs,    *)
(* and the others stay as they are.                                        *)
(***************************************************************************)
EXTENDS ReviewCommands, MarketCache, PeriodicReports, ReviewWorker, ReviewRun, TLC

CONSTANTS h1, h2, h3, t1, t2, a, b, c, dash, cli, c1, c2, shell, daemon

VARIABLE service
vars == <<service, commandVars, marketVars, periodicVars, workerVars, runVars>>

\* h3 is a thread of another dashboard.
MCProcessOf == [h \in Handlers |-> IF h = h3 THEN 2 ELSE 1]
\* Both human reviews are about one finding, or the same one comes twice.
MCTarget == [r \in ReviewRequests |-> r]
MCWanted == [r \in Requirements |-> IF r = "s" THEN <<"daily", "factor">> ELSE <<"daily">>]
MCLocalCovers == << {}, {"daily"} >>
MCHeld == << <<"x">>, <<"x">>, <<>> >>
MCPeriods == << "weekly" >>
MCWindow == [p \in {"weekly"} |-> [d \in Days |-> IF d = 1 THEN {} ELSE {1, 2}]]

\* The threads of one process are alike, those that resolve, the processes that
\* report or run reviews and the callers of the worker: all are exchanged at
\* once, since only one service runs.  So are the two runs that have a provider.
Exchange(x, y, really) == IF really THEN x :> y @@ y :> x ELSE x :> x @@ y :> y
Symmetry ==
    {Exchange(h1, h2, p) @@ Exchange(t1, t2, p) @@ Exchange(dash, cli, p)
        @@ Exchange(c1, c2, p) @@ Exchange(shell, daemon, p) @@ Exchange(a, b, q) :
     p, q \in BOOLEAN}

Init ==
    /\ service \in {"commands", "market", "periodic", "worker", "runs"}
    /\ CommandInit /\ MarketInit /\ PeriodicInit /\ WorkerInit /\ RunInit
    /\ service # "runs" => sidecar = [events |-> 0, decisions |-> 0, whole |-> FALSE,
                                   marked |-> FALSE]

Commands ==
    /\ service = "commands" /\ CommandNext
    /\ UNCHANGED <<service, marketVars, periodicVars, workerVars, runVars>>
Market ==
    /\ service = "market" /\ MarketNext
    /\ UNCHANGED <<service, commandVars, periodicVars, workerVars, runVars>>
Periodic ==
    /\ service = "periodic" /\ PeriodicNext
    /\ UNCHANGED <<service, commandVars, marketVars, workerVars, runVars>>
Worker ==
    /\ service = "worker" /\ WorkerNext
    /\ UNCHANGED <<service, commandVars, marketVars, periodicVars, runVars>>
ReviewRuns ==
    /\ service = "runs" /\ RunNext
    /\ UNCHANGED <<service, commandVars, marketVars, periodicVars, workerVars>>

Next == Commands \/ Market \/ Periodic \/ Worker \/ ReviewRuns

Spec == Init /\ [][Next]_vars

\* The type invariants of the four services that store something, which hold
\* also that no two rows of theirs share what they are looked up by.
ServiceTypes == CommandTypes /\ MarketTypes /\ PeriodicTypes /\ RunTypes
=============================================================================
