------------------------------ MODULE ReviewRun ------------------------------
(***************************************************************************)
(* One review run: ReviewRunner.run                                        *)
(* (src/src/investment_review/review_runner.py), called by the command     *)
(* line and by the coordinator's worker, in processes that share the       *)
(* portfolio file, the sidecar and the artifact directory.                 *)
(*                                                                         *)
(* A run is named by its key, the hash of what it reads: the portfolio     *)
(* file, the events and decisions of the sidecar, the cutoffs (one pair    *)
(* here).  Its artifacts and its receipt are files that are created or     *)
(* found to be equal, never replaced.  Its status is a ledger of events    *)
(* ordered by their time, of which the last one counts.  An attempt that   *)
(* fails may be made again: it comes to the same key if nothing it reads   *)
(* has changed, and then has to write the same bytes.                      *)
(*                                                                         *)
(* What a review says is not modelled: an artifact stands for the version  *)
(* of the file and the projection it was built from.  Runs that partly     *)
(* lack input ("partial") and those that do not ("succeeded") are both     *)
(* "completed".  Dry runs write nothing and are left out.                  *)
(***************************************************************************)
EXTENDS Naturals, FiniteSets

CONSTANTS
    Reviewers,      \* processes that run reviews; each has a trigger of its own
    MaxChanges,     \* bound: writes to the file, and decisions linked to events
    MaxAttempts,    \* bound: calls of run()
    MaxMishaps,     \* bound: stages that raise, and processes that die in a run
    MaxFetches,     \* bound: market requests an attempt makes
    LastSecond,     \* bound: seconds the clock shows
    Nil

ASSUME RunConstants ==
    /\ Nil \notin Reviewers
    /\ MaxChanges \in Nat /\ MaxAttempts \in Nat /\ MaxMishaps \in Nat
    /\ MaxFetches \in Nat /\ LastSecond \in Nat

VARIABLES
    file,       \* the portfolio file: two versions have one hash iff they are equal
    sidecar,    \* what the sidecar holds of it, whether the last sync was whole, and
                \* whether it carries the reviewability marker
    registered, \* rows of review_runs: a run, and the trigger that created it
    ledger,     \* rows of review_run_status_events
    artifacts,  \* artifact files, one set of them for each run directory
    receipts,   \* receipt.json of each run directory
    clock,
    pc, attempt,    \* where each process is, and the local variables of its call
    stable,     \* history: the runs that were completed ever since it was called
    spent      \* changes, calls and mishaps so far

runVars == <<file, sidecar, registered, ledger, artifacts, receipts, clock, pc, attempt,
             stable, spent>>
inputs == <<file, sidecar, clock>>
outputs == <<registered, ledger, artifacts, receipts>>

\* _sidecar_projection_state: the events and the decisions linked to them.
Projection == [events |-> sidecar.events, decisions |-> sidecar.decisions]

\* review_sync_status
Healthy == sidecar.whole /\ sidecar.events = file.trades

\* The run an attempt is filed under until its key is known.
Preflight(before) ==
    [phase |-> "preflight", source |-> before, projection |-> Nil, bound |-> Nil]

\* key_material.  With the marker, the reconstructions bind the hash that run()
\* took first and what they read of the file, and the key covers them.
KeyOf(j) ==
    [phase |-> "review", source |-> j.source, projection |-> j.projection,
     bound |-> IF sidecar.marked THEN <<j.before, j.baseline>> ELSE Nil]

Idle == [run |-> Nil, before |-> Nil, work |-> Nil, source |-> Nil,
         projection |-> Nil, baseline |-> Nil, requests |-> 0, trigger |-> Nil,
         content |-> Nil, next |-> Nil, at |-> 0]

RunInit ==
    /\ file = [trades |-> 1, other |-> 0]
    /\ sidecar \in [events : {0, 1}, decisions : {0}, whole : BOOLEAN, marked : BOOLEAN]
    /\ registered = {} /\ ledger = {} /\ artifacts = {} /\ receipts = {}
    /\ clock = 0
    /\ pc = [p \in Reviewers |-> "idle"]
    /\ attempt = [p \in Reviewers |-> Idle]
    /\ stable = [p \in Reviewers |-> {}]
    /\ spent = [changes |-> 0, calls |-> 0, mishaps |-> 0]

-----------------------------------------------------------------------------
\* The status of a run, get_review_run: its last event.

EventsOf(run) == {e \in ledger : e.run = run}
IsCurrent(e, run) == e \in EventsOf(run) /\ \A f \in EventsOf(run) : f.at <= e.at
Completed(run) == \E e \in ledger : IsCurrent(e, run) /\ e.status = "completed"
IsRegistered(run) == \E r \in registered : r.run = run

Event(p) ==
    [run |-> attempt[p].run,
     status |-> attempt[p].next.status, receipt |-> attempt[p].next.receipt,
     by |-> IF attempt[p].next.status = "completed" THEN Nil ELSE p, at |-> attempt[p].at]

Status(s, receipt) == [status |-> s, receipt |-> receipt]

\* _stable_sync_stage: what the sync stage of an attempt did.
Work(action, inserted) == [action |-> action, inserted |-> inserted]

Become(p, stage, new) ==
    pc' = [pc EXCEPT ![p] = stage] /\ attempt' = [attempt EXCEPT ![p] = new]

\* The exception handler: blocked for a gate or an immutable file, failed for
\* the rest.  Before the key is known the preflight's run is created for it; a
\* run whose key is known and that was not yet created is not recorded at all.
Handle(p, status) ==
    LET run == attempt[p].run IN
    IF run.phase = "preflight" \/ IsRegistered(run)
    THEN /\ Become(p, "stamp", [Idle EXCEPT !.run = run, !.next = Status(status, Nil)])
         /\ registered' = IF IsRegistered(run) THEN registered
                          ELSE registered \cup {[run |-> run, trigger |-> p]}
    ELSE Become(p, "idle", Idle) /\ UNCHANGED registered

Raise(p, status) ==
    /\ Handle(p, status)
    /\ UNCHANGED <<inputs, ledger, artifacts, receipts, stable, spent>>

-----------------------------------------------------------------------------
\* What goes on outside a run.

Spend(what, most) ==
    /\ spent[what] < most
    /\ spent' = [spent EXCEPT ![what] = @ + 1]

\* The portfolio is written: a trade, or a price that reviews do not read.
WriteFile(field) ==
    /\ Spend("changes", MaxChanges)
    /\ file' = [file EXCEPT ![field] = @ + 1]
    /\ UNCHANGED <<sidecar, clock, outputs, pc, attempt, stable>>

LinkDecision ==
    /\ sidecar.events > 0
    /\ Spend("changes", MaxChanges)
    /\ sidecar' = [sidecar EXCEPT !.decisions = @ + 1]
    /\ UNCHANGED <<file, clock, outputs, pc, attempt, stable>>

NextSecond ==
    /\ clock < LastSecond
    /\ clock' = clock + 1
    /\ UNCHANGED <<file, sidecar, outputs, pc, attempt, stable, spent>>

-----------------------------------------------------------------------------
\* run(): up to the key.

BeginRun(p) ==
    /\ pc[p] = "idle"
    /\ Spend("calls", MaxAttempts)
    /\ Become(p, "preview", [Idle EXCEPT !.run = Preflight(file), !.before = file])
    /\ stable' = [stable EXCEPT ![p] = {e.run : e \in {f \in ledger : Completed(f.run)}}]
    /\ UNCHANGED <<inputs, outputs>>

\* sync_review_events(dry_run=True): is there anything to import?
Preview(p) ==
    /\ pc[p] = "preview"
    /\ IF sidecar.events = file.trades
       THEN Become(p, "health", attempt[p])
       ELSE Become(p, "sync", [attempt[p] EXCEPT !.work = Work("reconciled", 0)])
    /\ UNCHANGED <<inputs, outputs, stable, spent>>

Health(p) ==
    /\ pc[p] = "health"
    /\ IF Healthy
       THEN Become(p, "project",
                [attempt[p] EXCEPT !.source = file, !.work = Work("already_reconciled", 0)])
       ELSE Become(p, "sync", [attempt[p] EXCEPT !.work = Work("health_reconciled", 0)])
    /\ UNCHANGED <<inputs, outputs, stable, spent>>

\* sync_review_events(dry_run=False), in one step: its retries are SourceSync's,
\* and so is a sidecar that still lags after them.
Sync(p) ==
    /\ pc[p] = "sync"
    /\ sidecar' = [sidecar EXCEPT !.events = file.trades, !.whole = TRUE]
    /\ Become(p, "project",
            [attempt[p] EXCEPT !.source = file,
                           !.work = Work(attempt[p].work.action,
                                             file.trades - sidecar.events)])
    /\ UNCHANGED <<file, clock, outputs, stable, spent>>

\* The process dies between the import and the fees.
DieInSync(p) ==
    /\ pc[p] = "sync"
    /\ Spend("mishaps", MaxMishaps)
    /\ sidecar' = [sidecar EXCEPT !.events = file.trades, !.whole = FALSE]
    /\ Become(p, "idle", Idle)
    /\ UNCHANGED <<file, clock, outputs, stable>>

\* The projection, then the reconstructions (the cash baseline is read from
\* the file) and the checkpoints, then the key.  How many requests the
\* checkpoints make of the market is outside the key: it depends on what is
\* frozen already and on what a batch has left of its budget.
Project(p) ==
    /\ pc[p] = "project"
    /\ Become(p, "baseline", [attempt[p] EXCEPT !.projection = Projection])
    /\ UNCHANGED <<inputs, outputs, stable, spent>>

BindKey(p) ==
    /\ pc[p] = "baseline"
    /\ \E n \in IF sidecar.marked THEN 0 .. MaxFetches ELSE {0} :
        LET bound == [attempt[p] EXCEPT !.baseline = IF sidecar.marked THEN file ELSE Nil,
                                        !.requests = n]
        IN  Become(p, "lookup", [bound EXCEPT !.run = KeyOf(bound)])
    /\ UNCHANGED <<inputs, outputs, stable, spent>>

-----------------------------------------------------------------------------
\* run(): the run ledger.

\* _existing_terminal_receipt: a completed run is not run again, its receipt is
\* returned, provided that the file is still the one the receipt is about.
ReplayReceipt(p) ==
    /\ pc[p] = "lookup" /\ Completed(attempt[p].run)
    /\ \E e \in ledger :
        /\ IsCurrent(e, attempt[p].run)
        /\ IF e.receipt.before = attempt[p].before /\ file = attempt[p].before
           THEN Become(p, "idle", Idle) /\ UNCHANGED <<inputs, outputs, stable, spent>>
           ELSE Raise(p, "failed")

\* Mutant: a run that is completed but partial is run again.
EnterAgain(p) ==
    /\ pc[p] = "lookup"
    /\ \/ /\ ~IsRegistered(attempt[p].run)
          /\ Become(p, "register", attempt[p])
       \/ \E r \in registered :
            /\ r.run = attempt[p].run
            /\ Become(p, "stamp", [attempt[p] EXCEPT !.trigger = r.trigger,
                                                !.next = Status("running", Nil)])
    /\ UNCHANGED <<inputs, outputs, stable, spent>>

\* Mutant: the receipt names the trigger of the attempt.
EnterAsCaller(p) ==
    /\ pc[p] = "lookup" /\ ~Completed(attempt[p].run)
    /\ IF IsRegistered(attempt[p].run)
       THEN Become(p, "stamp", [attempt[p] EXCEPT !.trigger = p,
                                                  !.next = Status("running", Nil)])
       ELSE Become(p, "register", attempt[p])
    /\ UNCHANGED <<inputs, outputs, stable, spent>>

EnterRun(p) ==
    /\ pc[p] = "lookup" /\ ~Completed(attempt[p].run)
    /\ \/ /\ ~IsRegistered(attempt[p].run)
          /\ Become(p, "register", attempt[p])
       \/ \E r \in registered :
            /\ r.run = attempt[p].run
            /\ Become(p, "stamp", [attempt[p] EXCEPT !.trigger = r.trigger,
                                                !.next = Status("running", Nil)])
    /\ UNCHANGED <<inputs, outputs, stable, spent>>

\* save_review_run, unless another attempt got there since the lookup: its row
\* has another trigger, and the two do not agree.
Register(p) ==
    /\ pc[p] = "register"
    /\ IF IsRegistered(attempt[p].run)
       THEN Raise(p, "failed")
       ELSE /\ registered' = registered \cup {[run |-> attempt[p].run, trigger |-> p]}
            /\ Become(p, "stamp", [attempt[p] EXCEPT !.trigger = p,
                                                !.next = Status("running", Nil)])
            /\ UNCHANGED <<inputs, ledger, artifacts, receipts, stable, spent>>

\* _append_status reads the history and takes a time that is later than all of it.
Stamp(p) ==
    /\ pc[p] = "stamp"
    /\ \E t \in clock .. clock + Cardinality(ledger) :
        LET later(s) == s >= clock /\ \A e \in EventsOf(attempt[p].run) : e.at < s
        IN  /\ later(t) /\ \A s \in clock .. t : later(s) => s = t
            /\ Become(p, "append", [attempt[p] EXCEPT !.at = t])
    /\ UNCHANGED <<inputs, outputs, stable, spent>>

\* append_review_run_status inserts it in a transaction of its own, which refuses
\* a time another event has taken meanwhile.  The handler swallows the refusal.
SecondTaken(p) == \E e \in EventsOf(attempt[p].run) : e.at = attempt[p].at /\ e # Event(p)

AppendStatus(p) ==
    /\ pc[p] = "append" /\ ~SecondTaken(p)
    /\ ledger' = ledger \cup {Event(p)}
    /\ IF attempt[p].next.status = "running" THEN Become(p, "fee", attempt[p])
                                         ELSE Become(p, "idle", Idle)
    /\ stable' = [q \in Reviewers |-> {run \in stable[q] : Completed(run)'}]
    /\ UNCHANGED <<inputs, registered, artifacts, receipts, spent>>

AppendRefused(p) ==
    /\ pc[p] = "append" /\ SecondTaken(p)
    /\ IF attempt[p].next.status \in {"failed", "blocked"}
       THEN Become(p, "idle", Idle) /\ UNCHANGED <<inputs, outputs, stable, spent>>
       ELSE Raise(p, "failed")

-----------------------------------------------------------------------------
\* run(): the stages.

\* project_review_fees refuses a sidecar that lags.
Fee(p) ==
    /\ pc[p] = "fee"
    /\ IF sidecar.events = file.trades
       THEN Become(p, "build", attempt[p]) /\ UNCHANGED <<inputs, outputs, stable, spent>>
       ELSE Raise(p, "failed")

\* Snapshots and contexts read the file again.  Each artifact is created, or
\* found to hold the same bytes (_immutable_write).
Content(p) == [run |-> attempt[p].run, read |-> file, projection |-> attempt[p].projection]

BuildArtifacts(p) ==
    /\ pc[p] = "build"
    /\ IF \E a \in artifacts : a.run = attempt[p].run /\ a # Content(p)
       THEN Raise(p, "blocked")
       ELSE /\ artifacts' = artifacts \cup {Content(p)}
            /\ Become(p, "gate", [attempt[p] EXCEPT !.content = Content(p)])
            /\ UNCHANGED <<inputs, registered, ledger, receipts, stable, spent>>

\* Neither the file nor the projection may have changed since they were read.
\* Mutant: only the sidecar is read again.
GateOnSidecar(p) ==
    /\ pc[p] = "gate"
    /\ IF Projection = attempt[p].projection
       THEN Become(p, "receipt", attempt[p]) /\ UNCHANGED <<inputs, outputs, stable, spent>>
       ELSE Raise(p, "blocked")

Gate(p) ==
    /\ pc[p] = "gate"
    /\ IF file = attempt[p].before /\ Projection = attempt[p].projection
       THEN Become(p, "receipt", attempt[p]) /\ UNCHANGED <<inputs, outputs, stable, spent>>
       ELSE Raise(p, "blocked")

\* The receipt names the trigger the run was created by, not the attempt's, and
\* what the sync stage of this attempt did and how often it asked the market
\* (market_request_budget).
Receipt(p) ==
    [run |-> attempt[p].run, trigger |-> attempt[p].trigger, before |-> attempt[p].before,
     work |-> attempt[p].work, requests |-> attempt[p].requests,
     content |-> attempt[p].content]

OtherReceipt(p) == \E r \in receipts : r.run = attempt[p].run /\ r # Receipt(p)

WriteReceipt(p) ==
    /\ pc[p] = "receipt"
    /\ IF OtherReceipt(p)
       THEN Raise(p, "blocked")
       ELSE /\ receipts' = receipts \cup {Receipt(p)}
            /\ Become(p, "stamp", [Idle EXCEPT !.run = attempt[p].run,
                                               !.next = Status("completed", Receipt(p))])
            /\ UNCHANGED <<inputs, registered, ledger, artifacts, stable, spent>>

\* A stage raises: a validator blocks, or something fails.
StageRaises(p) ==
    /\ pc[p] \notin {"idle", "stamp", "append"}
    /\ Spend("mishaps", MaxMishaps)
    /\ \E status \in {"failed", "blocked"} : Handle(p, status)
    /\ UNCHANGED <<inputs, ledger, artifacts, receipts, stable>>

\* The process dies, or the insert of a status fails and that of the failure too.
DieInRun(p) ==
    /\ pc[p] # "idle"
    /\ Spend("mishaps", MaxMishaps)
    /\ Become(p, "idle", Idle)
    /\ UNCHANGED <<inputs, outputs, stable>>

-----------------------------------------------------------------------------
Environment ==
    \/ WriteFile("trades") \/ WriteFile("other") \/ LinkDecision \/ NextSecond

Step(p) ==
    \/ BeginRun(p) \/ Preview(p) \/ Health(p) \/ Sync(p) \/ DieInSync(p)
    \/ Project(p) \/ BindKey(p) \/ ReplayReceipt(p) \/ EnterRun(p) \/ Register(p)
    \/ Stamp(p) \/ AppendStatus(p) \/ AppendRefused(p)
    \/ Fee(p) \/ BuildArtifacts(p) \/ Gate(p) \/ WriteReceipt(p)
    \/ StageRaises(p) \/ DieInRun(p)

RunNext == Environment \/ \E p \in Reviewers : Step(p)

RunSpec == RunInit /\ [][RunNext]_runVars

-----------------------------------------------------------------------------
\* Properties.

RunStages == {"idle", "preview", "health", "sync", "project", "baseline", "lookup",
           "register", "stamp", "append", "fee", "build", "gate", "receipt"}
RunStatuses == {"running", "completed", "failed", "blocked"}

Version == [trades : Nat, other : Nat]
View == [events : Nat, decisions : Nat]
Works == [action : {"already_reconciled", "reconciled", "health_reconciled"}, inserted : Nat]
RunKeys == [phase : {"preflight", "review"}, source : Version,
            projection : {Nil} \cup View, bound : {Nil} \cup (Version \X Version)]
Contents == [run : RunKeys, read : Version, projection : View]
Receipts == [run : RunKeys, trigger : Reviewers, before : Version, work : Works,
             requests : Nat, content : Contents]
Outcomes == [status : RunStatuses, receipt : {Nil} \cup Receipts]
Jobs == [run : {Nil} \cup RunKeys, before : {Nil} \cup Version, work : {Nil} \cup Works,
         source : {Nil} \cup Version, projection : {Nil} \cup View,
         baseline : {Nil} \cup Version, requests : Nat,
         trigger : {Nil} \cup Reviewers, content : {Nil} \cup Contents,
         next : {Nil} \cup Outcomes,
         at : Nat]

\* Every variable stays in its type, and an attempt has what its stage works on.
RunTypes ==
    /\ file \in Version
    /\ sidecar \in [events : Nat, decisions : Nat, whole : BOOLEAN, marked : BOOLEAN]
    /\ sidecar.events <= file.trades
    /\ registered \subseteq [run : RunKeys, trigger : Reviewers]
    /\ ledger \subseteq [run : RunKeys, status : RunStatuses, receipt : {Nil} \cup Receipts,
                         by : {Nil} \cup Reviewers, at : Nat]
    /\ artifacts \subseteq Contents
    /\ receipts \subseteq Receipts
    /\ clock \in Nat
    /\ pc \in [Reviewers -> RunStages]
    /\ attempt \in [Reviewers -> Jobs]
    /\ \A p \in Reviewers : pc[p] # "idle" => attempt[p].run \in RunKeys

\* A run that is recorded as completed has a receipt on disk, the one its event
\* names and no other, and all that receipt is about was read from one version
\* of the portfolio file and one projection, those the run's key is the hash of:
\* whoever wrote the file, synced or linked a decision while it ran, and however
\* many attempts of the run there were (the gates and create-or-compare writes).
CompletedIsOfItsKey ==
    \A e \in ledger : e.status = "completed" =>
        /\ {r \in receipts : r.run = e.run} = {e.receipt}
        /\ e.receipt.before = e.run.source
        /\ {a \in artifacts : a.run = e.run} = {e.receipt.content}
        /\ e.receipt.content.read = e.run.source
        /\ e.receipt.content.projection = e.run.projection

\* An attempt has found its run not completed, and has not finished.
Working(p) ==
    \/ pc[p] \in {"register", "fee", "build", "gate", "receipt"}
    \/ pc[p] \in {"stamp", "append"} /\ attempt[p].next.status = "running"

\* A call works on a run only if that run was not completed at some time since
\* the call: one for a run that is completed and stays so never enters it again,
\* whatever other attempts of the run append meanwhile.
CompletedIsNotRerun == \A p \in Reviewers : Working(p) => attempt[p].run \notin stable[p]

\* Two attempts of one run write different receipts only if their sync stages
\* did different work or they asked the market a different number of times:
\* whoever triggers the attempts, and whatever failed before.
EqualWorkEqualReceipt ==
    \A p \in Reviewers : pc[p] = "receipt" =>
        \A r \in receipts :
            /\ r.run = attempt[p].run
            /\ r.work = attempt[p].work /\ r.requests = attempt[p].requests
            => r = Receipt(p)

\* tests/test_investment_review_review_runner.py:2149: a retry of a run whose
\* receipt was written before its status could be recorded reuses that receipt.
RetryReusesReceipt == \A p \in Reviewers : pc[p] = "receipt" => ~OtherReceipt(p)
=============================================================================
