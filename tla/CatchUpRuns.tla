----------------------------- MODULE CatchUpRuns -----------------------------
(***************************************************************************)
(* The catch-up run ledger of the review automation coordinator            *)
(* (src/src/portfolio/review_integration.py) and everybody who writes it:  *)
(*                                                                         *)
(*   - consumers, the callers of run_once: under the automation lease they *)
(*     plan the current input, close stale runs, and run every scope;      *)
(*   - producers, the callers of the post-commit hook: they commit to the  *)
(*     portfolio ledger, sync the sidecar and enqueue, under the lease if  *)
(*     they get it within 50 ms and WITHOUT it otherwise;                  *)
(*   - people recording decisions straight in the sidecar, and the market  *)
(*     context, whose resolution may change at any time.                   *)
(*                                                                         *)
(* A run is named by its input (run_key is a hash of it), so a Key is that *)
(* input.  A status is never overwritten: the ledger is a set of dated     *)
(* events and a run's status is the one of its newest event.  Every actor  *)
(* computes the date of an event in one step and inserts it in another,    *)
(* as _append_status does.                                                 *)
(***************************************************************************)
EXTENDS Integers, FiniteSets

CONSTANTS
    Consumers,      \* callers of run_once, each its own process
    Producers,      \* callers of the post-commit hook, each its own process
    Markets,        \* the closed market manifests a plan may resolve to
    NumScopes,      \* scopes of one cycle (single, weekly, monthly in the code)
    ScopeResults,   \* what a scope may report
    StartVersions,  \* versions the portfolio ledger may start at
    MaxSource,      \* bound: the last version a commit reaches
    MaxDecisions,   \* bound: decisions recorded in the sidecar
    MaxFaults,      \* bound: crashes, exceptions and failing scopes
    MaxFlips,       \* bound: changes of the market resolution
    NoOne           \* the lease's holder when it is free

Actors == Consumers \cup Producers

Completed == {"succeeded", "partial"}
\* Mutant: a failed run counts as decided and is never retried.
TerminalWithFailed == Completed \cup {"blocked", "failed"}
Terminal == Completed \cup {"blocked"}
Pending == {"queued", "running", "failed"}
Statuses == Terminal \cup Pending

ASSUME CatchUpConstants ==
    /\ Consumers \cap Producers = {}
    /\ NoOne \notin Actors
    /\ Markets # {}
    /\ NumScopes \in Nat \ {0}
    /\ StartVersions \subseteq Nat
    /\ MaxSource \in Nat /\ MaxDecisions \in Nat
    /\ MaxFaults \in Nat /\ MaxFlips \in Nat
    /\ ScopeResults \subseteq (Terminal \cup {"failed"})

\* What a reader of the sidecar sees: the portfolio version it has been synced
\* to, and the decisions recorded in it.
Projection == [events : Nat, decisions : Nat]

\* The input one run is about: the source cutoff its sync reconciled, the
\* sidecar projection it read afterwards, and its market manifest.
Key == [cutoff : Nat, projection : Projection, market : Markets]

\* One row of review_run_status_events.  seen holds what the
\* scopes of a finished cycle read; attempt numbers the running events.
Event == [key : Key, at : Nat, status : Statuses,
          attempt : Nat, seen : SUBSET Projection]

VARIABLES
    source,     \* version of the portfolio ledger (append-only, so a number)
    sidecar,    \* version the review sidecar has been synced to
    decisions,  \* decisions recorded in the sidecar (append-only)
    market,     \* the market resolution a new plan would freeze
    runs,       \* keys with a row in review_runs
    events,     \* rows of review_run_status_events
    newest,     \* the largest occurred_at in events, 0 if there is none
    clock,      \* the largest date computed so far
    lease,      \* holder of the automation lease
    pc,         \* where each actor is
    task,       \* each actor's local variables
    held,       \* the event an actor has dated but not inserted: {} or {e}
    retryUsed,  \* each worker's immediate_drift_retry_used
    faults, flips

vars == <<source, sidecar, decisions, market, runs, events, newest, clock, lease, pc,
          task, held, retryUsed, faults, flips>>
inputs == <<source, sidecar, decisions, market, flips>>
ledger == <<runs, events, newest, clock>>

Labels == {"idle", "sync", "enqueue", "plan", "project", "list", "supersede",
           "closing", "ensure", "create", "created", "found", "queue",
           "queueing", "start", "starting", "scopes", "compare", "final",
           "finishing", "drifted", "recheck", "block", "blocking"}

Task == [key : Key, cut : Nat, todo : SUBSET Key, attempt : Nat,
         seen : SUBSET Projection, worst : Statuses, done : Nat, drift : BOOLEAN]

NoKey == [cutoff |-> 0, projection |-> [events |-> 0, decisions |-> 0],
          market |-> CHOOSE m \in Markets : TRUE]
NoTask == [key |-> NoKey, cut |-> 0, todo |-> {}, attempt |-> 0, seen |-> {},
           worst |-> "succeeded", done |-> 0, drift |-> FALSE]

-----------------------------------------------------------------------------
(* Reading the ledger *)

History(k) == {e \in events : e.key = k}

\* get_review_run: the status of the newest event, "unknown" without one.
Current(k) ==
    LET rows == History(k) IN
    IF rows = {} THEN "unknown"
    ELSE (CHOOSE e \in rows : \A f \in rows : f.at <= e.at).status

\* Mutant: attempts that failed are counted, one that crashed is not.
NextAttemptByFailures(k) ==
    1 + Cardinality({e \in History(k) : e.status = "failed"})
\* attempt: one more than the running events of the run so far.
NextAttempt(k) == 1 + Cardinality({e \in History(k) : e.status = "running"})

\* Mutant: a run a crash has left running is taken for a live one.
StaleButRunning(k) == {r \in runs \ {k} : Current(r) \in {"queued", "failed"}}
\* Mutant: the status filter is missing, completed runs are closed too.
StaleAnyStatus(k) == runs \ {k}
\* The pending runs about another input than k.
Stale(k) == {r \in runs \ {k} : Current(r) \in Pending}

\* The input a plan made now would be about.
CurrentKey ==
    [cutoff |-> source, market |-> market,
     projection |-> [events |-> source, decisions |-> decisions]]

\* _projection_state: the sidecar as it is now.
Sidecar == [events |-> sidecar, decisions |-> decisions]

-----------------------------------------------------------------------------
(* Pieces the actions are made of *)

GoTo(a, label) == pc' = [pc EXCEPT ![a] = label]

\* Mutant: whoever returns opens the lock, whether it holds it or not.
FreedByAnyone(a) == NoOne
\* Mutant: the lock outlives the process or the call that took it.
FreedNever(a) == lease
Freed(a) == IF lease = a THEN NoOne ELSE lease

\* Return, exception or crash: the lease is released and locals are gone.
Leave(a) ==
    /\ GoTo(a, "idle")
    /\ task' = [task EXCEPT ![a] = NoTask]
    /\ held' = [held EXCEPT ![a] = {}]
    /\ lease' = Freed(a)

\* The first half of _append_status: the date is the clock's, pushed past
\* every date the ledger shows now.
Date(a, k, status, attempt, seen) ==
    \E now \in {clock, clock + 1} :
        LET at == IF now > newest THEN now ELSE newest + 1 IN
        /\ clock' = at
        /\ held' = [held EXCEPT ![a] =
               {[key |-> k, at |-> at, status |-> status,
                 attempt |-> attempt, seen |-> seen]}]

\* UNIQUE (run_id, occurred_at, known_at): somebody took the same date.
SameDate(a) ==
    {pair \in held[a] \X events :
        pair[1].key = pair[2].key /\ pair[1].at = pair[2].at}

\* The second half of _append_status: the insert, in its own transaction.  A
\* row that is there already is skipped; two rows that look the same here may
\* differ in their trigger, so that InsertRefused is possible too.
Insert(a) ==
    /\ \A pair \in SameDate(a) : pair[1] = pair[2]
    /\ events' = events \cup held[a]
    /\ \E h \in held[a] : newest' = IF h.at > newest THEN h.at ELSE newest
    /\ UNCHANGED <<runs, clock>>

-----------------------------------------------------------------------------
(* Producers: a portfolio commit, its post-commit sync, and enqueue *)

Commit(p) ==
    /\ pc[p] = "idle" /\ source < MaxSource
    /\ source' = source + 1
    /\ GoTo(p, "sync")
    /\ UNCHANGED <<sidecar, decisions, market, flips, ledger, lease, task,
                   held, retryUsed, faults>>

\* sync_after_portfolio_commit never raises: enqueue runs even if it failed.
PostCommitSync(p) ==
    /\ pc[p] = "sync"
    /\ GoTo(p, "enqueue")
    /\ \/ sidecar' = source /\ UNCHANGED faults
       \/ /\ faults < MaxFaults
          /\ faults' = faults + 1
          /\ UNCHANGED sidecar
    /\ UNCHANGED <<source, decisions, market, flips, ledger, lease, task, held,
                   retryUsed>>

\* enqueue: a busy lease is not waited for, the plan is made without it.
EnterEnqueue(p) ==
    /\ pc[p] = "enqueue"
    /\ lease' = IF lease = NoOne THEN p ELSE lease
    /\ GoTo(p, "plan")
    /\ UNCHANGED <<inputs, ledger, task, held, retryUsed, faults>>

-----------------------------------------------------------------------------
(* What enqueue and run_once share *)

\* run_once waits for the lease; its timeout leaves it where it was.
Acquire(c) ==
    /\ pc[c] = "idle" /\ lease = NoOne
    /\ lease' = c
    /\ GoTo(c, "plan")
    /\ UNCHANGED <<inputs, ledger, task, held, retryUsed, faults>>

\* _prepare_plan, first half: sync until the sidecar equals the source.
Reconcile(a) ==
    /\ pc[a] = "plan"
    /\ sidecar' = source
    /\ task' = [task EXCEPT ![a].cut = source]
    /\ GoTo(a, "project")
    /\ UNCHANGED <<source, decisions, market, flips, ledger, lease, held,
                   retryUsed, faults>>

\* _prepare_plan, second half: the projection and the market manifest are
\* read from whatever the sidecar holds by now.
Project(a) ==
    /\ pc[a] = "project"
    /\ task' = [task EXCEPT ![a].key = [cutoff |-> task[a].cut,
                                        projection |-> Sidecar,
                                        market |-> market]]
    /\ GoTo(a, IF lease = a THEN "list" ELSE "ensure")
    /\ UNCHANGED <<inputs, ledger, lease, held, retryUsed, faults>>

\* _supersede_stale_pending reads every run once ...
ListStale(a) ==
    /\ pc[a] = "list"
    /\ task' = [task EXCEPT ![a].todo = Stale(task[a].key)]
    /\ GoTo(a, "supersede")
    /\ UNCHANGED <<inputs, ledger, lease, held, retryUsed, faults>>

\* ... and blocks those that were pending then, one by one.
DateClosing(a) ==
    /\ pc[a] = "supersede"
    /\ \E k \in task[a].todo :
           /\ Date(a, k, "blocked", 0, {})
           /\ task' = [task EXCEPT ![a].todo = @ \ {k}]
    /\ GoTo(a, "closing")
    /\ UNCHANGED <<inputs, runs, events, newest, lease, retryUsed, faults>>

InsertClosing(a) ==
    /\ pc[a] = "closing"
    /\ Insert(a)
    /\ held' = [held EXCEPT ![a] = {}]
    /\ GoTo(a, "supersede")
    /\ UNCHANGED <<inputs, lease, task, retryUsed, faults>>

StaleClosed(a) ==
    /\ pc[a] = "supersede" /\ task[a].todo = {}
    /\ GoTo(a, "ensure")
    /\ UNCHANGED <<inputs, ledger, lease, task, held, retryUsed, faults>>

\* What the status just read decides: a terminal run is deduplicated, a new
\* or failed one is queued, and a consumer goes on with a pending one.
Decide(a, created) ==
    LET k == task[a].key IN
    \/ /\ Current(k) \in Terminal
       /\ Leave(a)
    \/ /\ Current(k) \notin Terminal
       /\ created \/ Current(k) \notin {"queued", "running"}
       /\ GoTo(a, "queue")
       /\ UNCHANGED <<lease, task, held>>
    \/ /\ ~created /\ Current(k) \in {"queued", "running"}
       /\ IF a \in Consumers
          THEN /\ GoTo(a, "start")
               /\ task' = [task EXCEPT ![a].attempt = NextAttempt(k)]
               /\ UNCHANGED <<lease, held>>
          ELSE Leave(a)

\* _ensure_run: look the run up, ...
Ensure(a) ==
    /\ pc[a] = "ensure"
    /\ IF task[a].key \in runs
       THEN Decide(a, FALSE)
       ELSE GoTo(a, "create") /\ UNCHANGED <<lease, task, held>>
    /\ UNCHANGED <<inputs, ledger, retryUsed, faults>>

\* ... save it, unless another actor has created it since, ...
Create(a) ==
    /\ pc[a] = "create"
    /\ runs' = runs \cup {task[a].key}
    /\ \/ /\ GoTo(a, IF task[a].key \in runs THEN "found" ELSE "created")
          /\ UNCHANGED <<lease, task, held, retryUsed>>
       \/ /\ task[a].key \in runs       \* sqlite3.IntegrityError, not caught
          /\ Leave(a)
          /\ retryUsed' = [retryUsed EXCEPT ![a] = FALSE]
    /\ UNCHANGED <<inputs, events, newest, clock, faults>>

\* ... and read it back.
ReadBack(a) ==
    /\ pc[a] \in {"created", "found"}
    /\ Decide(a, pc[a] = "created")
    /\ UNCHANGED <<inputs, ledger, retryUsed, faults>>

DateQueued(a) ==
    /\ pc[a] = "queue"
    /\ Date(a, task[a].key, "queued", 0, {})
    /\ GoTo(a, "queueing")
    /\ UNCHANGED <<inputs, runs, events, newest, lease, task, retryUsed, faults>>

InsertQueued(a) ==
    /\ pc[a] = "queueing"
    /\ Insert(a)
    /\ IF a \in Consumers
       THEN /\ GoTo(a, "start")
            /\ held' = [held EXCEPT ![a] = {}]
            /\ task' = [task EXCEPT ![a].attempt = NextAttempt(task[a].key)]
            /\ UNCHANGED lease
       ELSE Leave(a)
    /\ UNCHANGED <<inputs, retryUsed, faults>>

-----------------------------------------------------------------------------
(* Consumers: one cycle of the scopes *)

DateRunning(c) ==
    /\ pc[c] = "start"
    /\ Date(c, task[c].key, "running", task[c].attempt, {})
    /\ GoTo(c, "starting")
    /\ UNCHANGED <<inputs, runs, events, newest, lease, task, retryUsed, faults>>

\* A plan without any event has nothing to review: NO_SOURCE_EVENTS.
InsertRunning(c) ==
    /\ pc[c] = "starting"
    /\ Insert(c)
    /\ held' = [held EXCEPT ![c] = {}]
    /\ IF task[c].key.projection.events = 0
       THEN /\ GoTo(c, "final")
            /\ task' = [task EXCEPT ![c].worst = "blocked"]
       ELSE GoTo(c, "scopes") /\ UNCHANGED task
    /\ UNCHANGED <<inputs, lease, retryUsed, faults>>

Severity == [succeeded |-> 0, partial |-> 1, blocked |-> 2, failed |-> 3]
\* Mutant: scopes that differ are reported as a status of its own.
WorseAsMixed(s, t) == IF s = t THEN s ELSE "mixed"
Worse(s, t) == IF Severity[s] < Severity[t] THEN t ELSE s

AfterScope(t, result) ==
    [t EXCEPT !.done = @ + 1,
              !.worst = Worse(@, result),
              !.seen = IF result = "failed" THEN @ ELSE @ \cup {Sidecar}]

\* runner.run reads the sidecar as it is when the scope runs.  A scope that
\* raises, whose market consumption does not verify, or that comes after a
\* stop request is reported as failed.
RunScope(c) ==
    /\ pc[c] = "scopes" /\ task[c].done < NumScopes
    /\ \E result \in ScopeResults :
           /\ result = "failed" => faults < MaxFaults
           /\ faults' = IF result = "failed" THEN faults + 1 ELSE faults
           /\ task' = [task EXCEPT ![c] = AfterScope(task[c], result)]
    /\ UNCHANGED <<inputs, ledger, lease, pc, held, retryUsed>>

\* The post-cycle plan: its sync, which may raise ...
Reverify(c) ==
    /\ pc[c] = "scopes" /\ task[c].done = NumScopes
    /\ \/ /\ sidecar' = source
          /\ task' = [task EXCEPT ![c].cut = source]
          /\ GoTo(c, "compare")
          /\ UNCHANGED faults
       \/ /\ faults < MaxFaults
          /\ faults' = faults + 1
          /\ task' = [task EXCEPT ![c].worst = "failed"]
          /\ GoTo(c, "final")
          /\ UNCHANGED sidecar
    /\ UNCHANGED <<source, decisions, market, flips, ledger, lease, held, retryUsed>>

\* Mutant: the cutoff of the post-cycle plan is not compared.
DriftedByProjection(c) == Sidecar # task[c].key.projection
\* Mutant: the two plans' generation times are compared too.
DriftedAlways(c) == TRUE
\* The run key the post-cycle plan gets, with the market manifest frozen,
\* differs from the one the cycle started with: AutomationInputDrift.
Drifted(c) ==
    \/ task[c].cut # task[c].key.cutoff
    \/ Sidecar # task[c].key.projection

Verdict(t, drifted) ==
    [t EXCEPT !.drift = drifted, !.worst = IF drifted THEN "failed" ELSE @]

\* ... and the comparison of its run key with the one the cycle is about.
Compare(c) ==
    /\ pc[c] = "compare"
    /\ task' = [task EXCEPT ![c] = Verdict(task[c], Drifted(c))]
    /\ GoTo(c, "final")
    /\ UNCHANGED <<inputs, ledger, lease, held, retryUsed, faults>>

DateFinal(c) ==
    /\ pc[c] = "final"
    /\ Date(c, task[c].key, task[c].worst, 0, task[c].seen)
    /\ GoTo(c, "finishing")
    /\ UNCHANGED <<inputs, runs, events, newest, lease, task, retryUsed, faults>>

\* The cycle returns.  The worker retries at once after a first drift; after
\* a second in a row it goes on to block the run it has just failed.
InsertFinal(c) ==
    /\ pc[c] = "finishing"
    /\ Insert(c)
    /\ IF task[c].drift /\ retryUsed[c]
       THEN /\ GoTo(c, "drifted")
            /\ held' = [held EXCEPT ![c] = {}]
            /\ lease' = Freed(c)
            /\ UNCHANGED task
       ELSE Leave(c)
    /\ retryUsed' = [retryUsed EXCEPT ![c] = task[c].drift /\ ~@]
    /\ UNCHANGED <<inputs, faults>>

-----------------------------------------------------------------------------
(* Consumers: _block_continuous_drift *)

AcquireToBlock(c) ==
    /\ pc[c] = "drifted"
    /\ \/ /\ lease = NoOne
          /\ lease' = c
          /\ GoTo(c, "recheck")
          /\ UNCHANGED <<task, held>>
       \/ lease # NoOne /\ Leave(c)          \* the lease timed out
    /\ UNCHANGED <<inputs, ledger, retryUsed, faults>>

Recheck(c) ==
    /\ pc[c] = "recheck"
    /\ IF Current(task[c].key) = "failed"
       THEN GoTo(c, "block") /\ UNCHANGED <<lease, task, held>>
       ELSE Leave(c)
    /\ UNCHANGED <<inputs, ledger, retryUsed, faults>>

DateBlocked(c) ==
    /\ pc[c] = "block"
    /\ Date(c, task[c].key, "blocked", 0, {})
    /\ GoTo(c, "blocking")
    /\ UNCHANGED <<inputs, runs, events, newest, lease, task, retryUsed, faults>>

InsertBlocked(c) ==
    /\ pc[c] = "blocking"
    /\ Insert(c)
    /\ Leave(c)
    /\ UNCHANGED <<inputs, retryUsed, faults>>

-----------------------------------------------------------------------------
(* Failures, and the environment *)

\* The insert is refused: the exception ends the call, no event is written.
InsertRefused(a) ==
    /\ SameDate(a) # {}
    /\ Leave(a)
    /\ retryUsed' = [retryUsed EXCEPT ![a] = FALSE]
    /\ UNCHANGED <<inputs, ledger, faults>>

\* Any other exception, or the death of the process, between two steps: the
\* operating system drops a dead process's lock as __exit__ drops a live one's.
Abort(a) ==
    /\ pc[a] # "idle" /\ faults < MaxFaults
    /\ faults' = faults + 1
    /\ Leave(a)
    /\ retryUsed' = [retryUsed EXCEPT ![a] = FALSE]
    /\ UNCHANGED <<inputs, ledger>>

RecordDecision ==
    /\ decisions < MaxDecisions
    /\ decisions' = decisions + 1
    /\ UNCHANGED <<source, sidecar, market, flips, ledger, lease, pc, task, held,
                   retryUsed, faults>>

MarketMoves ==
    /\ flips < MaxFlips
    /\ \E m \in Markets \ {market} : market' = m
    /\ flips' = flips + 1
    /\ UNCHANGED <<source, sidecar, decisions, ledger, lease, pc, task, held,
                   retryUsed, faults>>

-----------------------------------------------------------------------------
Init ==
    /\ source \in StartVersions /\ sidecar = 0 /\ decisions = 0
    /\ market \in Markets
    /\ runs = {} /\ events = {} /\ newest = 0 /\ clock = 0
    /\ lease = NoOne
    /\ pc = [a \in Actors |-> "idle"]
    /\ task = [a \in Actors |-> NoTask]
    /\ held = [a \in Actors |-> {}]
    /\ retryUsed = [a \in Actors |-> FALSE]
    /\ faults = 0 /\ flips = 0

PlanStep(a) ==
    \/ Reconcile(a) \/ Project(a) \/ ListStale(a)
    \/ DateClosing(a) \/ InsertClosing(a) \/ StaleClosed(a)
    \/ Ensure(a) \/ Create(a) \/ ReadBack(a)
    \/ DateQueued(a) \/ InsertQueued(a) \/ InsertRefused(a)

CycleStep(c) ==
    \/ Acquire(c) \/ DateRunning(c) \/ InsertRunning(c)
    \/ RunScope(c) \/ Reverify(c) \/ Compare(c)
    \/ DateFinal(c) \/ InsertFinal(c)
    \/ AcquireToBlock(c) \/ Recheck(c) \/ DateBlocked(c) \/ InsertBlocked(c)

EnqueueStep(p) == PostCommitSync(p) \/ EnterEnqueue(p)

Next ==
    \/ \E a \in Actors : PlanStep(a) \/ Abort(a)
    \/ \E c \in Consumers : CycleStep(c)
    \/ \E p \in Producers : Commit(p) \/ EnqueueStep(p)
    \/ RecordDecision \/ MarketMoves

Spec == Init /\ [][Next]_vars

\* A live process goes on with the call it is in, and the worker's loop comes
\* back every interval.  Nobody has to commit, to crash or to change the market.
Fairness ==
    /\ \A c \in Consumers : WF_vars(PlanStep(c) \/ CycleStep(c))
    /\ \A p \in Producers : WF_vars(PlanStep(p) \/ EnqueueStep(p))

FairSpec == Spec /\ Fairness

-----------------------------------------------------------------------------
(* Properties *)

\* Every variable has the shape the code gives it: rows of the run and status
\* tables, the lease's holder, and each caller's locals (review_integration.py).
TypeOK ==
    /\ source \in Nat /\ sidecar \in Nat /\ decisions \in Nat /\ market \in Markets
    /\ runs \subseteq Key
    /\ events \subseteq Event
    /\ newest \in Nat /\ clock \in Nat
    /\ lease \in Actors \cup {NoOne}
    /\ pc \in [Actors -> Labels]
    /\ task \in [Actors -> Task]
    /\ held \in [Actors -> SUBSET Event]
    /\ retryUsed \in [Actors -> BOOLEAN]
    /\ faults \in Nat /\ flips \in Nat

InCycle(c) == pc[c] \in {"starting", "scopes", "compare", "final", "finishing"}

\* Two processes never run the scopes of a catch-up cycle at the same time,
\* whatever producers enqueue beside them (run_once's _lease).
OneCycleAtATime ==
    \A c, d \in Consumers : InCycle(c) /\ InCycle(d) => c = d

\* A cycle that is recorded as complete read one version of the sidecar only,
\* the one its run key names, and that version is the reconciled source,
\* although the portfolio and the sidecar move under its scopes (the post-cycle verification of _run_once_local).
NoMixedCutoff ==
    \A e \in events : e.status \in Completed =>
        /\ e.key.projection.events = e.key.cutoff
        /\ e.seen \subseteq {e.key.projection}

\* While a cycle runs, no other run is left running or failed by an earlier
\* crash: _supersede_stale_pending has closed it.  (A lease-less enqueue may
\* add a queued one.)
StalePendingClosed ==
    \A c \in Consumers : InCycle(c) =>
        \A k \in runs \ {task[c].key} : Current(k) \notin {"running", "failed"}

\* The attempts of a run are numbered in the order they started, across
\* crashes, retries and processes (attempt in _run_once_local).
AttemptsInOrder ==
    \A e, f \in events :
        e.status = "running" /\ f.status = "running" /\ e.key = f.key =>
            (e.at < f.at <=> e.attempt < f.attempt)

\* A run that has reached succeeded, partial or blocked changes its status
\* only by the insert of a producer that enqueues without the lease: no step
\* under the lease reopens it.
OnlyLeaselessEnqueueReopens ==
    [][\A k \in runs :
          Current(k) \in Terminal /\ Current(k)' # Current(k) =>
             \E p \in Producers :
                lease # p /\ pc[p] = "queueing" /\ pc'[p] = "idle"]_events

\* A run that is closed as superseded is not the run of the current input:
\* "Close crash leftovers whose immutable input has been superseded"
\* (the docstring of _supersede_stale_pending).
ClosedInputsAreSuperseded ==
    [][\A a \in Actors :
          pc[a] = "closing" /\ pc'[a] = "supersede" =>
             \A h \in held[a] : h.key # CurrentKey]_vars

\* The block a worker writes after two drifts in a row never hits the run of
\* the current input, although the lease was released between the failure
\* and the block (_block_continuous_drift).
DriftBlockIsObsolete ==
    [][\A c \in Consumers :
          pc[c] = "blocking" /\ held[c] \subseteq events' =>
             task[c].key # CurrentKey]_events

\* Once commits, faults and market changes stop, the current input's run gets
\* a terminal status and keeps it: no crash leftover, drift, refused insert or
\* late lease-less enqueue leaves it waiting for ever.
StableInputSettles == <>[](Current(CurrentKey) \in Terminal)

\* If in addition every enqueue got the lease and the market did not move back
\* to where it was, that status is a completed review of the current input,
\* whatever crashed or drifted before.  (The run of a market that was left is
\* closed as superseded, and is found closed when the market comes back.)
EnqueuesAreLeased ==
    \A p \in Producers : pc[p] \notin {"idle", "sync", "enqueue"} => lease = p
LeasedEnqueuesAreReviewed ==
    [](EnqueuesAreLeased /\ flips < 2) =>
        <>[](source # 0 => Current(CurrentKey) \in Completed)
=============================================================================
