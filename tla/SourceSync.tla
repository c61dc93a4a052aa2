------------------------------ MODULE SourceSync ------------------------------
(***************************************************************************)
(* ReviewSyncService (src/src/investment_review/sync_service.py): callers  *)
(* that copy the portfolio ledger into the review sidecar, while commits   *)
(* land in the ledger and other callers do the same.                       *)
(*                                                                         *)
(* A call takes a snapshot, opens a run, imports the snapshot in one       *)
(* transaction, reads the sidecar back, saves the fee plan in another      *)
(* transaction, takes a second snapshot and closes the run; if the source  *)
(* has moved, it goes round once more.  Every arrow between two of these   *)
(* is a point where another caller, a commit or a crash may come in.       *)
(***************************************************************************)
EXTENDS Integers, Sequences, FiniteSets

CONSTANTS
    Syncers,    \* callers of sync
    Worker,     \* the caller that is the automation worker's plan
    Trades,     \* identities of the ledger rows, source_record_id
    DateOf,     \* when a trade occurred: its known_at and projected_at too
    Actual,     \* the trades whose source fee is an actual one
    Backdated,  \* may a commit bring a trade that is not the latest?
    Ties,       \* may two imports finish within one second of the clock?
    MaxEdits,   \* bound: rows of the ledger changed by hand
    MaxErrors,  \* bound: exceptions raised inside a call
    MaxCrashes  \* bound: deaths of a process inside a call

ASSUME SyncConstants ==
    /\ Worker \in Syncers
    /\ DateOf \in [Trades -> Nat]
    /\ Actual \subseteq Trades
    /\ Backdated \in BOOLEAN /\ Ties \in BOOLEAN
    /\ MaxEdits \in Nat /\ MaxErrors \in Nat /\ MaxCrashes \in Nat

\* A ledger row: an identity and a payload hash.
Row == [id : Trades, payload : {"original", "edited"}]
Ids(rows) == {r.id : r \in rows}

VARIABLES
    source,     \* the ledger's rows
    published,  \* every set of rows the ledger has had
    sidecar,    \* the sidecar's trade_events
    previous,   \* ids of the import that import_events takes for the last one
    fees,       \* the sidecar's fee_projections
    open,       \* callers with an open run created after the last closed one,
                \* in the order of the runs' rowids
    last,       \* terminal status of the latest run that has one
    pc, snap, attempt,  \* each caller's place, snapshot and attempt_number
    moves,      \* how often the source has changed since a call began
    edits, errors, crashes

vars == <<source, published, sidecar, previous, fees, open, last, pc, snap,
          attempt, moves, edits, errors, crashes>>
ledger == <<source, published, moves, edits>>
tables == <<sidecar, previous, fees>>
board == <<open, last>>
limits == <<errors, crashes>>

Labels == {"idle", "started", "import", "verify", "fees", "confirm",
           "retry", "succeed", "block", "fail"}

-----------------------------------------------------------------------------
(* Fee plans *)

\* _build_fee_plan: a trade without an actual fee is projected from the actual
\* ones known by then.  The result's identity covers the samples it used.
Samples(r, rows) ==
    IF r.id \in Actual THEN {}
    ELSE {x \in rows : x.id \in Actual /\ DateOf[x.id] <= DateOf[r.id]}

FeePlan(rows) == {[trade |-> r, samples |-> Samples(r, rows)] : r \in rows}

\* Mutant: A projection that was saved before is not skipped.
FeeConflictWithSaved(plan) == \E f \in fees, g \in plan : f.trade.id = g.trade.id

\* AMBIGUOUS_FEE_PROJECTION_TIME: the trade has another projection at its date.
FeeConflict(plan) ==
    \E f \in fees, g \in plan : f.trade.id = g.trade.id /\ f # g

-----------------------------------------------------------------------------
(* Runs, as status() reads them *)

IsOpen(s) == \E i \in DOMAIN open : open[i] = s
Place(s) == CHOOSE i \in DOMAIN open : open[i] = s

Before(s) == SubSeq(open, 1, Place(s) - 1)

\* Mutant: Runs ordered by when they finish, not by rowid.
AfterByFinish(s) == Before(s) \o SubSeq(open, Place(s) + 1, Len(open))
\* The runs created after that of s.
After(s) == SubSeq(open, Place(s) + 1, Len(open))

\* A run that closes counts only while no run created after it has closed.
Close(s, status) ==
    IF IsOpen(s)
    THEN open' = After(s) /\ last' = status
    ELSE UNCHANGED board

\* A run that stays partial or unknown never counts.
Abandon(s) ==
    /\ open' = IF IsOpen(s) THEN Before(s) \o After(s) ELSE open
    /\ UNCHANGED last

\* The status that status() reports.
Health ==
    IF last \in {"failed", "blocked"} THEN "failed"
    ELSE IF sidecar # source THEN "lagging" ELSE "healthy"

GoTo(s, label) == pc' = [pc EXCEPT ![s] = label]

-----------------------------------------------------------------------------
(* The ledger, which sync only reads *)

Publish(rows) ==
    /\ source' = rows
    /\ published' = published \cup {rows}
    /\ moves' = [s \in Syncers |->
           IF pc[s] = "idle" \/ moves[s] = 2 THEN moves[s] ELSE moves[s] + 1]

\* A statement's trades are inserted: the portfolio only ever appends.
Commit ==
    /\ \E new \in (SUBSET (Trades \ Ids(source))) \ {{}} :
           /\ Backdated \/ \A t \in new, u \in Ids(source) : DateOf[u] < DateOf[t]
           /\ Publish(source \cup [id : new, payload : {"original"}])
    /\ UNCHANGED <<tables, board, pc, snap, attempt, edits, limits>>

\* Somebody changes or removes a row by hand, outside the program.
Edit ==
    /\ edits < MaxEdits
    /\ \E r \in source :
           \/ Publish(source \ {r})
           \/ r.payload = "original"
              /\ Publish((source \ {r}) \cup {[r EXCEPT !.payload = "edited"]})
    /\ edits' = edits + 1
    /\ UNCHANGED <<tables, board, pc, snap, attempt, limits>>

-----------------------------------------------------------------------------
(* sync *)

\* The first snapshot; the fee plan is computed from it.
Start(s) ==
    /\ pc[s] = "idle"
    /\ snap' = [snap EXCEPT ![s] = source]
    /\ attempt' = [attempt EXCEPT ![s] = 1]
    /\ moves' = [moves EXCEPT ![s] = 0]
    /\ GoTo(s, "started")
    /\ UNCHANGED <<source, published, edits, tables, board, limits>>

\* _save_run.
OpenRun(s) ==
    /\ pc[s] = "started"
    /\ open' = Append(open, s)
    /\ GoTo(s, "import")
    /\ UNCHANGED <<ledger, tables, last, snap, attempt, limits>>

\* Mutant: Rows that went are only counted.
RemovedByCount(rows) == Cardinality(rows) < Cardinality(previous)

\* The snapshot lacks a row of the import that went before, ...
Removed(rows) == ~(previous \subseteq Ids(rows))

\* ... or has another payload for a row the sidecar has.
Changed(rows) == \E r \in rows, e \in sidecar : r.id = e.id /\ r # e

\* import_events, in one transaction.  Which completed import is the previous
\* one is decided by finished_at, in seconds, and within a second by run_id, a
\* random number: the one just made may lose.  Empty imports do not count.
Import(s) ==
    /\ pc[s] = "import"
    /\ IF Removed(snap[s]) \/ Changed(snap[s])
       THEN GoTo(s, "fail") /\ UNCHANGED tables
       ELSE /\ sidecar' = sidecar \cup snap[s]
            /\ previous' \in {Ids(snap[s])} \cup (IF Ties THEN {previous} ELSE {})
            /\ snap[s] = {} => previous' = previous
            /\ GoTo(s, "verify")
            /\ UNCHANGED fees
    /\ UNCHANGED <<ledger, board, snap, attempt, limits>>

\* _reconcile: the sidecar has to be exactly the snapshot.
Verify(s) ==
    /\ pc[s] = "verify"
    /\ GoTo(s, IF sidecar = snap[s] THEN "fees" ELSE "fail")
    /\ UNCHANGED <<ledger, tables, board, snap, attempt, limits>>

\* save_fee_plan, in one transaction of its own.
SaveFees(s) ==
    /\ pc[s] = "fees"
    /\ IF FeeConflict(FeePlan(snap[s]))
       THEN GoTo(s, "fail") /\ UNCHANGED fees
       ELSE fees' = fees \cup FeePlan(snap[s]) /\ GoTo(s, "confirm")
    /\ UNCHANGED <<ledger, sidecar, previous, board, snap, attempt, limits>>

\* Mutant: The second attempt is not confirmed.
ConfirmOnlyFirst(s) ==
    /\ pc[s] = "confirm"
    /\ IF source = snap[s] \/ attempt[s] = 2
       THEN GoTo(s, "succeed") /\ UNCHANGED snap
       ELSE GoTo(s, "retry") /\ snap' = [snap EXCEPT ![s] = source]
    /\ UNCHANGED <<ledger, tables, board, attempt, limits>>

\* Mutant: The second attempt keeps the first one's snapshot.
ConfirmKeepsSnapshot(s) ==
    /\ pc[s] = "confirm"
    /\ GoTo(s, IF source = snap[s] THEN "succeed"
               ELSE IF attempt[s] = 1 THEN "retry" ELSE "block")
    /\ UNCHANGED <<ledger, tables, board, snap, attempt, limits>>

\* The second snapshot: one moving cutoff is retried, a second one is not.
Confirm(s) ==
    /\ pc[s] = "confirm"
    /\ IF source = snap[s] THEN GoTo(s, "succeed") /\ UNCHANGED snap
       ELSE IF attempt[s] = 1
            THEN GoTo(s, "retry") /\ snap' = [snap EXCEPT ![s] = source]
            ELSE GoTo(s, "block") /\ UNCHANGED snap
    /\ UNCHANGED <<ledger, tables, board, attempt, limits>>

\* _save_run_status "partial", and the second attempt.
Retry(s) ==
    /\ pc[s] = "retry"
    /\ Abandon(s)
    /\ attempt' = [attempt EXCEPT ![s] = 2]
    /\ GoTo(s, "started")
    /\ UNCHANGED <<ledger, tables, snap, limits>>

\* Mutant: The second moving cutoff is recorded as the first one is.
StatusesAllPartial ==
    [succeed |-> "succeeded", block |-> "partial", fail |-> "failed"]

Statuses == [succeed |-> "succeeded", block |-> "blocked", fail |-> "failed"]

\* _save_run_status with a terminal status ends the call.
Finish(s) ==
    /\ pc[s] \in DOMAIN Statuses
    /\ Close(s, Statuses[pc[s]])
    /\ GoTo(s, "idle")
    /\ UNCHANGED <<ledger, tables, snap, attempt, limits>>

\* Any exception: with a run, it is recorded as failed if that works.
Raise(s) ==
    /\ pc[s] # "idle" /\ errors < MaxErrors
    /\ errors' = errors + 1
    /\ IF pc[s] \in {"started", "fail"}
       THEN GoTo(s, "idle") /\ Abandon(s)
       ELSE GoTo(s, "fail") /\ UNCHANGED board
    /\ UNCHANGED <<ledger, tables, snap, attempt, crashes>>

Crash(s) ==
    /\ pc[s] # "idle" /\ crashes < MaxCrashes
    /\ crashes' = crashes + 1
    /\ Abandon(s)
    /\ GoTo(s, "idle")
    /\ UNCHANGED <<ledger, tables, snap, attempt, errors>>

-----------------------------------------------------------------------------
Init ==
    /\ source = {} /\ published = {source}
    /\ sidecar = {} /\ previous = {} /\ fees = {}
    /\ open = <<>> /\ last = "none"
    /\ pc = [s \in Syncers |-> "idle"]
    /\ snap = [s \in Syncers |-> {}]
    /\ attempt = [s \in Syncers |-> 1]
    /\ moves = [s \in Syncers |-> 0]
    /\ edits = 0 /\ errors = 0 /\ crashes = 0

Step(s) ==
    \/ OpenRun(s) \/ Import(s) \/ Verify(s) \/ SaveFees(s)
    \/ Confirm(s) \/ Retry(s) \/ Finish(s)

Next ==
    \/ Commit \/ Edit
    \/ \E s \in Syncers : Start(s) \/ Step(s) \/ Raise(s) \/ Crash(s)

Spec == Init /\ [][Next]_vars

\* A call under way goes on, and the automation worker, which plans at every
\* interval, calls sync whenever status() is not healthy (_prepare_plan).
Fairness ==
    /\ \A s \in Syncers : WF_vars(Step(s))
    /\ WF_vars(Health # "healthy" /\ Start(Worker))

FairSpec == Spec /\ Fairness

-----------------------------------------------------------------------------
(* Properties *)

\* Shapes of the ledger rows, the sidecar's tables and each caller's locals.
TypeOK ==
    /\ source \in SUBSET Row /\ published \in SUBSET SUBSET Row
    /\ sidecar \in SUBSET Row /\ previous \in SUBSET Trades
    /\ fees \in SUBSET [trade : Row, samples : SUBSET Row]
    /\ open \in Seq(Syncers) /\ last \in {"none", "succeeded", "failed", "blocked"}
    /\ pc \in [Syncers -> Labels]
    /\ snap \in [Syncers -> SUBSET Row]
    /\ attempt \in [Syncers -> {1, 2}] /\ moves \in [Syncers -> 0 .. 2]
    /\ edits \in Nat /\ errors \in Nat /\ crashes \in Nat

\* The sidecar goes from one version of the ledger to a larger one, whole:
\* interleaved imports of different snapshots never leave a mixture of them,
\* and rows changed or removed by hand never get in (import_events).
Mirror == INSTANCE SourceMirror WITH mirror <- sidecar
MirrorsSource == Mirror!Spec

\* When a call finds that the source has not moved, every row of the ledger is
\* in the sidecar with the fee projection its plan gives, whatever other callers
\* imported meanwhile, and unless rows were changed by hand nothing else is
\* (sync, its confirmation).
SuccessIsCurrent ==
    [][\A s \in Syncers :
          pc[s] = "confirm" /\ pc'[s] = "succeed" =>
             /\ source \subseteq sidecar /\ FeePlan(source) \subseteq fees
             /\ edits = 0 => sidecar = source]_vars

\* A call is blocked as SOURCE_CONTINUED_CHANGING_DURING_SYNC only if the
\* source has changed twice since it began.
BlockedOnlyIfMovedTwice ==
    [][\A s \in Syncers :
          pc[s] = "confirm" /\ pc'[s] = "block" => moves[s] = 2]_vars

\* While nobody syncs and unless rows were changed by hand, a healthy sidecar
\* has all its fee projections: an exception between the import and the fee plan
\* shows up in status(), also when another caller's run closes after it.
HealthyHasFees ==
    Health = "healthy" /\ edits = 0 /\ (\A s \in Syncers : pc[s] = "idle") =>
        FeePlan(sidecar) \subseteq fees

\* Once commits and faults stop, status() becomes healthy and stays so, with
\* the sidecar equal to the ledger: no stale snapshot, failed or crashed call
\* keeps the automation from getting a reconciled cutoff.
SyncRecovers == <>[](Health = "healthy" /\ sidecar = source)
=============================================================================
