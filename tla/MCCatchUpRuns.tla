---------------------------- MODULE MCCatchUpRuns ----------------------------
(***************************************************************************)
(* CatchUpRuns on small sets of processes.  Everything may move in the     *)
(* module; to stay small, an instance lets half of it move at a time: the  *)
(* initial states say which half, and have the bounds of the other spent.  *)
(***************************************************************************)
EXTENDS CatchUpRuns

\* Commits, enqueues, crashes and failures; no decisions, and the market stays.
CommitsMove ==
    /\ source \in StartVersions /\ faults = 0
    /\ decisions = MaxDecisions /\ flips = MaxFlips

\* Decisions and the market; no commits and no faults, and the ledger may be empty.
SidecarMoves ==
    /\ source \in {0, MaxSource} /\ faults = MaxFaults
    /\ decisions = 0 /\ flips = 0

\* The markets are alike: it does not matter which one is first.
HalfInit ==
    /\ market = NoKey.market
    /\ sidecar = 0 /\ runs = {} /\ events = {} /\ newest = 0 /\ clock = 0
    /\ lease = NoOne
    /\ pc = [a \in Actors |-> "idle"]
    /\ task = [a \in Actors |-> NoTask]
    /\ held = [a \in Actors |-> {}]
    /\ retryUsed = [a \in Actors |-> FALSE]
    /\ CommitsMove \/ SidecarMoves

HalfSpec == HalfInit /\ [][Next]_vars /\ Fairness

\* An empty ledger stays empty here: nothing is committed beside SidecarMoves.
\* (A constraint on commits alone, which no fairness asks for.)
EmptyStaysEmpty == source = 0 => source' = 0
=============================================================================
