-------------------------- MODULE CatchUpRuns_proofs --------------------------
(***************************************************************************)
(* Theorems about the catch-up run ledger, for every number of consumers,  *)
(* producers, scopes and markets and for every bound:                      *)
(*                                                                         *)
(*   Typing             every variable keeps its type                      *)
(*   MutualExclusion    one catch-up cycle runs at a time                  *)
(*   UnmixedCutoffs     a completed cycle read one version of the sidecar  *)
(*   DriftBlocks        a cycle blocked for drift really is obsolete       *)
(*   StaleClosings      a pending run closed as stale was pending          *)
(*   AttemptOrder       the attempts of a run are numbered in their order  *)
(*   OnlyLeaselessReopens                                                  *)
(*                      who reopens a finished run came without the lease  *)
(*   LeasedClosings     what is closed as superseded is, if enqueues have  *)
(*                      the lease                                          *)
(*                                                                         *)
(* and about the worker thread that makes the cycles:                      *)
(*                                                                         *)
(*   NoLostWakeUp       it does not sleep on a request or on a stop         *)
(***************************************************************************)
EXTENDS CatchUpRuns, ReviewWorker, FiniteSetTheorems, TLAPS

-----------------------------------------------------------------------------
(* Typing.  NextAttempt counts rows, so the ledger has to stay finite. *)

TypeInv ==
    /\ TypeOK
    /\ IsFiniteSet(events)
    /\ \A a \in Actors : IsFiniteSet(held[a])

\* The six statuses of a catch-up run (_append_status's callers).
LEMMA StatusTypes ==
  {"succeeded", "partial", "blocked", "queued", "running", "failed"} \subseteq Statuses
  BY DEF Statuses, Terminal, Pending, Completed

\* The locals a call starts with are well typed (the locals of
\* _run_once_local and _enqueue_local before the plan is made).
LEMMA NoTaskType == NoTask \in Task
  BY CatchUpConstants DEF NoTask, NoKey, Task, Key, Projection, Statuses, Terminal,
     Completed

\* The attempt _run_once_local computes is a positive number, because a run
\* has finitely many status rows.
LEMMA NextAttemptType ==
  ASSUME TypeInv, NEW k \in Key
  PROVE  NextAttempt(k) \in Nat \ {0}
<1> DEFINE S == {e \in History(k) : e.status = "running"}
<1>1. IsFiniteSet(S)
  <2>1. S \subseteq events
    BY DEF History
  <2> QED BY <2>1, FS_Subset DEF TypeInv
<1>2. Cardinality(S) \in Nat
  BY <1>1, FS_CardinalityType
<1> QED BY <1>2 DEF NextAttempt

\* Leaving a call keeps the types of what it resets.
LEMMA LeaveType ==
  ASSUME TypeInv, NEW a \in Actors, Leave(a)
  PROVE  /\ pc' \in [Actors -> Labels]
         /\ task' \in [Actors -> Task]
         /\ held' \in [Actors -> SUBSET Event]
         /\ \A b \in Actors : IsFiniteSet(held'[b])
         /\ lease' \in Actors \cup {NoOne}
<1>1. pc' \in [Actors -> Labels]
  BY DEF Leave, GoTo, Labels, TypeInv, TypeOK
<1>2. task' \in [Actors -> Task]
  BY NoTaskType DEF Leave, TypeInv, TypeOK
<1>3. held' \in [Actors -> SUBSET Event]
  BY DEF Leave, TypeInv, TypeOK
<1>4. ASSUME NEW b \in Actors PROVE IsFiniteSet(held'[b])
  BY FS_EmptySet DEF Leave, TypeInv, TypeOK
<1>5. lease' \in Actors \cup {NoOne}
  BY DEF Leave, Freed, TypeInv, TypeOK
<1> QED BY <1>1, <1>2, <1>3, <1>4, <1>5

\* The first half of _append_status produces a well-typed row.
LEMMA DateType ==
  ASSUME TypeInv, NEW a \in Actors, NEW k \in Key, NEW s \in Statuses,
         NEW n \in Nat, NEW seen \in SUBSET Projection,
         Date(a, k, s, n, seen)
  PROVE  /\ clock' \in Nat
         /\ held' \in [Actors -> SUBSET Event]
         /\ \A b \in Actors : IsFiniteSet(held'[b])
<1>1. PICK now \in {clock, clock + 1} :
         LET at == IF now > newest THEN now ELSE newest + 1 IN
         /\ clock' = at
         /\ held' = [held EXCEPT ![a] =
                {[key |-> k, at |-> at, status |-> s,
                  attempt |-> n, seen |-> seen]}]
  BY DEF Date
<1> DEFINE at == IF now > newest THEN now ELSE newest + 1
           h == [key |-> k, at |-> at, status |-> s, attempt |-> n, seen |-> seen]
<1>2. at \in Nat
  BY DEF TypeInv, TypeOK
<1>3. h \in Event
  BY <1>2 DEF Event
<1>4. held' = [held EXCEPT ![a] = {h}]
  BY <1>1
<1> HIDE DEF h
<1>5. held' \in [Actors -> SUBSET Event]
  BY <1>3, <1>4 DEF TypeInv, TypeOK
<1>6. ASSUME NEW b \in Actors PROVE IsFiniteSet(held'[b])
  BY <1>4, FS_Singleton DEF TypeInv, TypeOK
<1> QED BY <1>1, <1>2, <1>5, <1>6

\* The second half of _append_status adds well-typed rows.
LEMMA InsertType ==
  ASSUME TypeInv, NEW a \in Actors, Insert(a)
  PROVE  /\ events' \in SUBSET Event
         /\ IsFiniteSet(events')
         /\ newest' \in Nat
         /\ runs' = runs /\ clock' = clock
<1>1. held[a] \in SUBSET Event /\ IsFiniteSet(held[a])
  BY DEF TypeInv, TypeOK
<1>2. events' = events \cup held[a]
  BY DEF Insert
<1>3. IsFiniteSet(events')
  BY <1>1, <1>2, FS_Union DEF TypeInv
<1>4. newest' \in Nat
  BY <1>1 DEF Insert, Event, TypeInv, TypeOK
<1> QED BY <1>1, <1>2, <1>3, <1>4 DEF Insert, TypeInv, TypeOK

\* Whatever the status read by _ensure_run decides, locals keep their types.
LEMMA DecideType ==
  ASSUME TypeInv, NEW a \in Actors, NEW created \in BOOLEAN, Decide(a, created)
  PROVE  /\ pc' \in [Actors -> Labels]
         /\ task' \in [Actors -> Task]
         /\ held' \in [Actors -> SUBSET Event]
         /\ \A b \in Actors : IsFiniteSet(held'[b])
         /\ lease' \in Actors \cup {NoOne}
<1> DEFINE k == task[a].key
<1>0. k \in Key
  BY DEF TypeInv, TypeOK, Task
<1>1. CASE Leave(a)
  BY <1>1, LeaveType
<1>2. CASE /\ GoTo(a, "queue")
           /\ UNCHANGED <<lease, task, held>>
  BY <1>2 DEF GoTo, Labels, TypeInv, TypeOK
<1>3. CASE /\ GoTo(a, "start")
           /\ task' = [task EXCEPT ![a].attempt = NextAttempt(k)]
           /\ UNCHANGED <<lease, held>>
  <2>1. NextAttempt(k) \in Nat
    BY <1>0, NextAttemptType
  <2>2. task' \in [Actors -> Task]
    BY <1>3, <2>1 DEF TypeInv, TypeOK, Task
  <2> QED BY <1>3, <2>2 DEF GoTo, Labels, TypeInv, TypeOK
<1> QED BY <1>1, <1>2, <1>3 DEF Decide

\* Each step of the coordinator, its callers and its environment keeps types.
LEMMA TypingStep ==
  ASSUME TypeInv, [Next]_vars
  PROVE  TypeInv'
<1> USE DEF TypeInv, TypeOK
<1> DEFINE Locals == /\ pc' \in [Actors -> Labels]
                     /\ task' \in [Actors -> Task]
                     /\ held' \in [Actors -> SUBSET Event]
                     /\ \A b \in Actors : IsFiniteSet(held'[b])
                     /\ lease' \in Actors \cup {NoOne}
<1>u. CASE UNCHANGED vars
  BY <1>u DEF vars
<1>t. \A a \in Actors : task[a] \in Task /\ task[a].key \in Key
  BY DEF Task
<1>a. ASSUME NEW a \in Actors, PlanStep(a) PROVE TypeInv'
  <2>1. CASE Reconcile(a)
    BY <2>1 DEF Reconcile, GoTo, Labels, ledger, Task
  <2>2. CASE Project(a)
    <3>1. [cutoff |-> task[a].cut, projection |-> Sidecar, market |-> market] \in Key
      BY <1>t DEF Key, Projection, Sidecar, Task
    <3>2. task' \in [Actors -> Task]
      BY <2>2, <3>1 DEF Project, Task
    <3> QED BY <2>2, <3>2 DEF Project, GoTo, Labels, ledger, inputs
  <2>3. CASE ListStale(a)
    <3>1. Stale(task[a].key) \in SUBSET Key
      BY DEF Stale
    <3>2. task' \in [Actors -> Task]
      BY <2>3, <3>1 DEF ListStale, Task
    <3> QED BY <2>3, <3>2 DEF ListStale, GoTo, Labels, ledger, inputs
  <2>4. CASE DateClosing(a)
    <3>1. PICK k \in task[a].todo : /\ Date(a, k, "blocked", 0, {})
                                    /\ task' = [task EXCEPT ![a].todo = @ \ {k}]
      BY <2>4 DEF DateClosing
    <3>2. k \in Key
      BY <1>t DEF Task
    <3>3. /\ clock' \in Nat
          /\ held' \in [Actors -> SUBSET Event]
          /\ \A b \in Actors : IsFiniteSet(held'[b])
      BY <3>1, <3>2, DateType DEF Statuses, Terminal
    <3>4. task' \in [Actors -> Task]
      BY <3>1 DEF Task
    <3> QED BY <2>4, <3>3, <3>4 DEF DateClosing, GoTo, Labels, inputs
  <2>5. CASE InsertClosing(a)
    <3>1. Insert(a)
      BY <2>5 DEF InsertClosing
    <3>2. \A b \in Actors : IsFiniteSet(held'[b])
      BY <2>5, FS_EmptySet DEF InsertClosing
    <3> QED BY <2>5, <3>1, <3>2, InsertType DEF InsertClosing, GoTo, Labels, inputs
  <2>6. CASE StaleClosed(a)
    BY <2>6 DEF StaleClosed, GoTo, Labels, inputs, ledger
  <2>7. CASE Ensure(a)
    <3>1. CASE Decide(a, FALSE)
      <4>1. Locals
        BY <3>1, DecideType
      <4> QED BY <2>7, <4>1 DEF Ensure, inputs, ledger
    <3>2. CASE GoTo(a, "create") /\ UNCHANGED <<lease, task, held>>
      BY <2>7, <3>2 DEF Ensure, GoTo, Labels, inputs, ledger
    <3> QED BY <2>7, <3>1, <3>2 DEF Ensure
  <2>8. CASE Create(a)
    <3>1. runs' \subseteq Key
      BY <2>8, <1>t DEF Create
    <3>2. CASE UNCHANGED retryUsed /\ UNCHANGED <<lease, task, held>> /\ (GoTo(a, "found") \/ GoTo(a, "created"))
      BY <2>8, <3>1, <3>2 DEF Create, GoTo, Labels, inputs
    <3>3. CASE Leave(a) /\ retryUsed' = [retryUsed EXCEPT ![a] = FALSE]
      <4>1. Locals
        BY <3>3, LeaveType
      <4>2. retryUsed' \in [Actors -> BOOLEAN]
        BY <3>3
      <4> QED BY <2>8, <3>1, <4>1, <4>2 DEF Create, inputs
    <3> QED BY <2>8, <3>2, <3>3 DEF Create
  <2>9. CASE ReadBack(a)
    <3>1. Locals
      BY <2>9, DecideType DEF ReadBack
    <3> QED BY <2>9, <3>1 DEF ReadBack, inputs, ledger
  <2>10. CASE DateQueued(a)
    <3>1. /\ clock' \in Nat
          /\ held' \in [Actors -> SUBSET Event]
          /\ \A b \in Actors : IsFiniteSet(held'[b])
      <4>1. Date(a, task[a].key, "queued", 0, {})
        BY <2>10 DEF DateQueued
      <4> QED BY <4>1, <1>t, DateType, StatusTypes
    <3> QED BY <2>10, <3>1 DEF DateQueued, GoTo, Labels, inputs
  <2>11. CASE InsertQueued(a)
    <3>1. Insert(a)
      BY <2>11 DEF InsertQueued
    <3>2. CASE a \in Consumers
      <4>1. NextAttempt(task[a].key) \in Nat
        BY <1>t, NextAttemptType
      <4>2. task' \in [Actors -> Task]
        BY <2>11, <3>2, <4>1 DEF InsertQueued, Task
      <4>3. \A b \in Actors : IsFiniteSet(held'[b])
        BY <2>11, <3>2, FS_EmptySet DEF InsertQueued
      <4> QED BY <2>11, <3>1, <3>2, <4>2, <4>3, InsertType
              DEF InsertQueued, GoTo, Labels, inputs
    <3>3. CASE a \notin Consumers
      <4>1. Locals
        BY <2>11, <3>3, LeaveType DEF InsertQueued
      <4> QED BY <2>11, <3>1, <4>1, InsertType DEF InsertQueued, inputs
    <3> QED BY <3>2, <3>3
  <2>12. CASE InsertRefused(a)
    <3>1. Locals
      BY <2>12, LeaveType DEF InsertRefused
    <3>2. retryUsed' \in [Actors -> BOOLEAN]
      BY <2>12 DEF InsertRefused
    <3> QED BY <2>12, <3>1, <3>2 DEF InsertRefused, inputs, ledger
  <2> QED BY <1>a, <2>1, <2>2, <2>3, <2>4, <2>5, <2>6, <2>7, <2>8, <2>9, <2>10,
             <2>11, <2>12 DEF PlanStep
<1>b. ASSUME NEW a \in Actors, Abort(a) PROVE TypeInv'
  <2>1. Locals
    BY <1>b, LeaveType DEF Abort
  <2>2. retryUsed' \in [Actors -> BOOLEAN] /\ faults' \in Nat
    BY <1>b DEF Abort
  <2> QED BY <1>b, <2>1, <2>2 DEF Abort, inputs, ledger
<1>c. ASSUME NEW c \in Consumers, CycleStep(c) PROVE TypeInv'
  <2> c \in Actors
    BY DEF Actors
  <2>1. CASE Acquire(c)
    BY <2>1 DEF Acquire, GoTo, Labels, inputs, ledger
  <2>2. CASE DateRunning(c)
    <3>1. /\ clock' \in Nat
          /\ held' \in [Actors -> SUBSET Event]
          /\ \A b \in Actors : IsFiniteSet(held'[b])
      <4>1. Date(c, task[c].key, "running", task[c].attempt, {})
        BY <2>2 DEF DateRunning
      <4>2. task[c].attempt \in Nat
        BY <1>t DEF Task
      <4> QED BY <4>1, <4>2, <1>t, DateType, StatusTypes
    <3> QED BY <2>2, <3>1 DEF DateRunning, GoTo, Labels, inputs
  <2>3. CASE InsertRunning(c)
    <3>1. Insert(c)
      BY <2>3 DEF InsertRunning
    <3>2. \A b \in Actors : IsFiniteSet(held'[b])
      BY <2>3, FS_EmptySet DEF InsertRunning
    <3>3. task' \in [Actors -> Task] /\ pc' \in [Actors -> Labels]
      <4>1. CASE task' = [task EXCEPT ![c].worst = "blocked"] /\ GoTo(c, "final")
        <5>1. task' \in [Actors -> Task]
          BY <4>1, StatusTypes DEF Task
        <5> QED BY <4>1, <5>1 DEF GoTo, Labels
      <4>2. CASE GoTo(c, "scopes") /\ UNCHANGED task
        BY <4>2 DEF GoTo, Labels
      <4> QED BY <2>3, <4>1, <4>2 DEF InsertRunning
    <3> QED BY <2>3, <3>1, <3>2, <3>3, InsertType DEF InsertRunning, inputs
  <2>4. CASE RunScope(c)
    <3>1. PICK result \in ScopeResults :
             /\ faults' = IF result = "failed" THEN faults + 1 ELSE faults
             /\ task' = [task EXCEPT ![c] = AfterScope(task[c], result)]
      BY <2>4 DEF RunScope
    <3>2. Worse(task[c].worst, result) \in Statuses
      <4>1. task[c].worst \in Statuses /\ result \in Statuses
        BY <1>t, CatchUpConstants, StatusTypes DEF Task, Statuses
      <4> QED BY <4>1 DEF Worse
    <3>3. Sidecar \in Projection
      BY DEF Sidecar, Projection
    <3>4. task' \in [Actors -> Task]
      <4>1. /\ task[c].done + 1 \in Nat
            /\ task[c].seen \in SUBSET Projection
            /\ task[c].seen \cup {Sidecar} \in SUBSET Projection
        BY <1>t, <3>3 DEF Task
      <4>2. AfterScope(task[c], result) \in Task
        BY <1>t, <4>1, <3>2 DEF Task, AfterScope
      <4> QED BY <3>1, <4>2
    <3> QED BY <2>4, <3>1, <3>4 DEF RunScope, inputs, ledger
  <2>5. CASE Reverify(c)
    <3>1. task' \in [Actors -> Task]
      <4>1. CASE task' = [task EXCEPT ![c].cut = source]
        BY <4>1 DEF Task
      <4>2. CASE task' = [task EXCEPT ![c].worst = "failed"]
        BY <4>2, StatusTypes DEF Task
      <4> QED BY <2>5, <4>1, <4>2 DEF Reverify
    <3> QED BY <2>5, <3>1 DEF Reverify, GoTo, Labels, ledger
  <2>6. CASE Compare(c)
    <3>1. Drifted(c) \in BOOLEAN
      BY DEF Drifted
    <3>2. task' \in [Actors -> Task]
      <4>1. Verdict(task[c], Drifted(c)) \in Task
        BY <1>t, <3>1, StatusTypes DEF Task, Verdict
      <4> QED BY <2>6, <4>1 DEF Compare
    <3> QED BY <2>6, <3>2 DEF Compare, GoTo, Labels, inputs, ledger
  <2>7. CASE DateFinal(c)
    <3>1. task[c].worst \in Statuses /\ task[c].seen \in SUBSET Projection
      BY <1>t DEF Task
    <3>2. /\ clock' \in Nat
          /\ held' \in [Actors -> SUBSET Event]
          /\ \A b \in Actors : IsFiniteSet(held'[b])
      BY <2>7, <3>1, <1>t, DateType DEF DateFinal
    <3> QED BY <2>7, <3>2 DEF DateFinal, GoTo, Labels, inputs
  <2>8. CASE InsertFinal(c)
    <3>1. Insert(c)
      BY <2>8 DEF InsertFinal
    <3>2. task[c].drift \in BOOLEAN /\ retryUsed' \in [Actors -> BOOLEAN]
      BY <2>8, <1>t DEF InsertFinal, Task
    <3>3. CASE task[c].drift /\ retryUsed[c]
      <4>1. \A b \in Actors : IsFiniteSet(held'[b])
        BY <2>8, <3>3, FS_EmptySet DEF InsertFinal
      <4> QED BY <2>8, <3>1, <3>2, <3>3, <4>1, InsertType
              DEF InsertFinal, GoTo, Freed, Labels, inputs
    <3>4. CASE ~(task[c].drift /\ retryUsed[c])
      <4>1. Locals
        BY <2>8, <3>4, LeaveType DEF InsertFinal
      <4> QED BY <2>8, <3>1, <3>2, <4>1, InsertType DEF InsertFinal, inputs
    <3> QED BY <3>3, <3>4
  <2>9. CASE AcquireToBlock(c)
    <3>1. CASE lease' = c /\ GoTo(c, "recheck") /\ UNCHANGED <<task, held>>
      BY <2>9, <3>1 DEF AcquireToBlock, GoTo, Labels, inputs, ledger
    <3>2. CASE Leave(c)
      <4>1. Locals
        BY <3>2, LeaveType
      <4> QED BY <2>9, <4>1 DEF AcquireToBlock, inputs, ledger
    <3> QED BY <2>9, <3>1, <3>2 DEF AcquireToBlock
  <2>10. CASE Recheck(c)
    <3>1. CASE GoTo(c, "block") /\ UNCHANGED <<lease, task, held>>
      BY <2>10, <3>1 DEF Recheck, GoTo, Labels, inputs, ledger
    <3>2. CASE Leave(c)
      <4>1. Locals
        BY <3>2, LeaveType
      <4> QED BY <2>10, <4>1 DEF Recheck, inputs, ledger
    <3> QED BY <2>10, <3>1, <3>2 DEF Recheck
  <2>11. CASE DateBlocked(c)
    <3>1. /\ clock' \in Nat
          /\ held' \in [Actors -> SUBSET Event]
          /\ \A b \in Actors : IsFiniteSet(held'[b])
      <4>1. Date(c, task[c].key, "blocked", 0, {})
        BY <2>11 DEF DateBlocked
      <4> QED BY <4>1, <1>t, DateType, StatusTypes
    <3> QED BY <2>11, <3>1 DEF DateBlocked, GoTo, Labels, inputs
  <2>12. CASE InsertBlocked(c)
    <3>1. Insert(c)
      BY <2>12 DEF InsertBlocked
    <3>2. Locals
      BY <2>12, LeaveType DEF InsertBlocked
    <3> QED BY <2>12, <3>1, <3>2, InsertType DEF InsertBlocked, inputs
  <2> QED BY <1>c, <2>1, <2>2, <2>3, <2>4, <2>5, <2>6, <2>7, <2>8, <2>9, <2>10,
             <2>11, <2>12 DEF CycleStep
<1>d. ASSUME NEW p \in Producers, Commit(p) \/ EnqueueStep(p) PROVE TypeInv'
  <2> p \in Actors
    BY DEF Actors
  <2>1. CASE Commit(p)
    BY <2>1 DEF Commit, GoTo, Labels, ledger
  <2>2. CASE PostCommitSync(p)
    BY <2>2 DEF PostCommitSync, GoTo, Labels, ledger
  <2>3. CASE EnterEnqueue(p)
    BY <2>3 DEF EnterEnqueue, GoTo, Labels, inputs, ledger
  <2> QED BY <1>d, <2>1, <2>2, <2>3 DEF EnqueueStep
<1>e. CASE RecordDecision
  BY <1>e DEF RecordDecision, ledger
<1>f. CASE MarketMoves
  BY <1>f DEF MarketMoves, ledger
<1> QED BY <1>u, <1>a, <1>b, <1>c, <1>d, <1>e, <1>f DEF Next

\* The finite ledger and its types are kept together.
LEMMA TypingInduction == Spec => []TypeInv
<1>1. Init => TypeInv
  <2> SUFFICES ASSUME Init PROVE TypeInv
    OBVIOUS
  <2>1. \A a \in Actors : IsFiniteSet(held[a])
    BY FS_EmptySet DEF Init
  <2> QED BY <2>1, NoTaskType, CatchUpConstants, FS_EmptySet
          DEF Init, TypeInv, TypeOK, Labels
<1>2. TypeInv /\ [Next]_vars => TypeInv'
  BY TypingStep
<1> QED BY <1>1, <1>2, PTL DEF Spec

\* Typing: every reachable state of the coordinator, its sidecar tables and
\* its callers has the types TypeOK gives (review_integration.py).
THEOREM Typing == Spec => []TypeOK
<1>1. TypeInv => TypeOK
  BY DEF TypeInv
<1> QED BY <1>1, TypingInduction, PTL

-----------------------------------------------------------------------------
(* One cycle at a time.  A consumer past the acquisition holds the lease, so *)
(* that two consumers in a cycle are one.  Producers that plan without the   *)
(* lease never give it away, because __exit__ releases only one's own.       *)

LeaseInv ==
    \A c \in Consumers : pc[c] \notin {"idle", "drifted"} => lease = c

\* A call that goes on, or that ends, leaves the lease with its holder.
LEMMA LeaseFrame ==
  ASSUME TypeOK, LeaseInv, NEW a \in Actors,
         \/ Leave(a)
         \/ /\ pc[a] \notin {"idle", "drifted"}
            /\ \E l \in Labels : GoTo(a, l)
            /\ lease' = lease
  PROVE  LeaseInv'
<1>1. CASE Leave(a)
  BY <1>1, CatchUpConstants DEF Leave, GoTo, Freed, LeaseInv, TypeOK, Actors
<1>2. CASE /\ pc[a] \notin {"idle", "drifted"}
           /\ \E l \in Labels : GoTo(a, l)
           /\ lease' = lease
  BY <1>2 DEF GoTo, LeaseInv, TypeOK, Actors
<1> QED BY <1>1, <1>2

\* Each step leaves the lease with the consumer that is past the acquisition
\* (_lease and the three methods that take it).
LEMMA LeaseStep ==
  ASSUME TypeOK, LeaseInv, [Next]_vars
  PROVE  LeaseInv'
<1> DEFINE GoesOn(a) == \/ Leave(a)
                        \/ /\ pc[a] \notin {"idle", "drifted"}
                           /\ \E l \in Labels : GoTo(a, l)
                           /\ lease' = lease
<1>u. CASE UNCHANGED vars
  BY <1>u DEF vars, LeaseInv
<1>a. ASSUME NEW a \in Actors, PlanStep(a) PROVE LeaseInv'
  <2>1. CASE Reconcile(a) \/ Project(a) \/ ListStale(a) \/ StaleClosed(a)
    <3>1. GoesOn(a)
      BY <2>1 DEF Reconcile, Project, ListStale, StaleClosed, Labels, inputs
    <3> QED BY <3>1, LeaseFrame
  <2>2. CASE DateClosing(a) \/ InsertClosing(a) \/ DateQueued(a)
    <3>1. GoesOn(a)
      BY <2>2 DEF DateClosing, InsertClosing, DateQueued, Labels
    <3> QED BY <3>1, LeaseFrame
  <2>3. CASE Ensure(a) \/ ReadBack(a)
    <3>1. pc[a] \notin {"idle", "drifted"}
      BY <2>3 DEF Ensure, ReadBack
    <3>2. ASSUME NEW created \in BOOLEAN, Decide(a, created) PROVE GoesOn(a)
      BY <3>1, <3>2 DEF Decide, Labels
    <3>3. CASE GoTo(a, "create") /\ UNCHANGED <<lease, task, held>>
      BY <3>1, <3>3, LeaseFrame DEF Labels
    <3>4. GoesOn(a) \/ (GoTo(a, "create") /\ UNCHANGED <<lease, task, held>>)
      BY <2>3, <3>2 DEF Ensure, ReadBack
    <3> QED BY <3>3, <3>4, LeaseFrame
  <2>4. CASE Create(a)
    <3>1. GoesOn(a)
      BY <2>4 DEF Create, Labels
    <3> QED BY <3>1, LeaseFrame
  <2>5. CASE InsertQueued(a) \/ InsertRefused(a)
    <3>1. GoesOn(a)
      BY <2>5 DEF InsertQueued, InsertRefused, Labels
    <3> QED BY <3>1, LeaseFrame
  <2> QED BY <1>a, <2>1, <2>2, <2>3, <2>4, <2>5 DEF PlanStep
<1>b. ASSUME NEW a \in Actors, Abort(a) PROVE LeaseInv'
  BY <1>b, LeaseFrame DEF Abort
<1>c. ASSUME NEW c \in Consumers, CycleStep(c) PROVE LeaseInv'
  <2> c \in Actors
    BY DEF Actors
  <2>1. CASE Acquire(c)
    BY <2>1, CatchUpConstants DEF Acquire, GoTo, LeaseInv, TypeOK, Actors
  <2>2. CASE DateRunning(c) \/ InsertRunning(c) \/ DateFinal(c) \/ DateBlocked(c)
    <3>1. GoesOn(c)
      BY <2>2 DEF DateRunning, InsertRunning, DateFinal, DateBlocked, Labels
    <3> QED BY <3>1, LeaseFrame
  <2>3. CASE Reverify(c) \/ Compare(c) \/ Recheck(c) \/ InsertBlocked(c)
    <3>1. GoesOn(c)
      BY <2>3 DEF Reverify, Compare, Recheck, InsertBlocked, Labels
    <3> QED BY <3>1, LeaseFrame
  <2>4. CASE RunScope(c)
    BY <2>4 DEF RunScope, LeaseInv
  <2>5. CASE InsertFinal(c)
    <3>1. CASE Leave(c)
      BY <3>1, LeaseFrame
    <3>2. CASE GoTo(c, "drifted") /\ lease' = Freed(c)
      BY <2>5, <3>2, CatchUpConstants
         DEF InsertFinal, GoTo, Freed, LeaseInv, TypeOK, Actors
    <3> QED BY <2>5, <3>1, <3>2 DEF InsertFinal
  <2>6. CASE AcquireToBlock(c)
    <3>1. CASE Leave(c)
      BY <3>1, LeaseFrame
    <3>2. CASE lease = NoOne /\ lease' = c /\ GoTo(c, "recheck")
      BY <3>2, CatchUpConstants DEF GoTo, LeaseInv, TypeOK, Actors
    <3> QED BY <2>6, <3>1, <3>2 DEF AcquireToBlock
  <2> QED BY <1>c, <2>1, <2>2, <2>3, <2>4, <2>5, <2>6 DEF CycleStep
<1>d. ASSUME NEW p \in Producers, Commit(p) \/ EnqueueStep(p) PROVE LeaseInv'
  <2>1. p \notin Consumers /\ p \in Actors
    BY CatchUpConstants DEF Actors
  <2>2. \A c \in Consumers : pc'[c] = pc[c]
    <3>1. \E l \in Labels : pc' = [pc EXCEPT ![p] = l]
      BY <1>d DEF Commit, EnqueueStep, PostCommitSync, EnterEnqueue, GoTo, Labels
    <3> QED BY <2>1, <3>1 DEF TypeOK, Actors
  <2>3. lease' = lease \/ lease = NoOne
    BY <1>d DEF Commit, EnqueueStep, PostCommitSync, EnterEnqueue
  <2> QED BY <2>2, <2>3, CatchUpConstants DEF LeaseInv, Actors
<1>e. CASE RecordDecision \/ MarketMoves
  BY <1>e DEF RecordDecision, MarketMoves, LeaseInv
<1> QED BY <1>u, <1>a, <1>b, <1>c, <1>d, <1>e DEF Next

\* Mutual exclusion: whatever producers enqueue beside them and whoever
\* crashes, two processes never run the scopes of a cycle at the same time
\* (run_once, _AutomationLease).
THEOREM MutualExclusion == Spec => []OneCycleAtATime
<1>1. Init => LeaseInv
  BY DEF Init, LeaseInv, Actors
<1>2. TypeOK /\ LeaseInv /\ [Next]_vars => LeaseInv'
  BY LeaseStep
<1>3. LeaseInv => OneCycleAtATime
  BY DEF LeaseInv, OneCycleAtATime, InCycle
<1> QED BY <1>1, <1>2, <1>3, Typing, PTL DEF Spec

-----------------------------------------------------------------------------
(* No mixed cutoff.  What an actor remembers is never ahead of the sidecar,  *)
(* a scope never reads less than the plan did, and the verifying plan's      *)
(* cutoff is at least the planned projection: if both compare equal, then    *)
(* everything in between was equal too.                                      *)

Ahead(p, q) == p.events <= q.events /\ p.decisions <= q.decisions

\* A completed event's run read one version of the sidecar, the reconciled one.
OneVersion(key, seen) ==
    key.projection.events = key.cutoff /\ seen \subseteq {key.projection}

Unmixed(e) == e.status \in Completed => OneVersion(e.key, e.seen)

Remembers(t) ==
    /\ t.key.cutoff <= t.key.projection.events
    /\ Ahead(t.key.projection, Sidecar)
    /\ \A s \in t.seen : Ahead(t.key.projection, s) /\ Ahead(s, Sidecar)

ActorInv(a) ==
    /\ Remembers(task[a])
    /\ pc[a] \in {"idle", "sync", "enqueue", "plan", "project"} => task[a].seen = {}
    /\ pc[a] \in {"project", "compare"} => task[a].cut <= sidecar
    /\ pc[a] = "compare" => task[a].key.projection.events <= task[a].cut
    /\ pc[a] \in {"final", "finishing"} /\ task[a].worst \in Completed =>
           OneVersion(task[a].key, task[a].seen)
    /\ \A h \in held[a] : Unmixed(h)

CutoffInv ==
    /\ sidecar <= source
    /\ \A e \in events : Unmixed(e)
    /\ \A a \in Actors : ActorInv(a)

\* What a step of a may do to everybody else: the inputs only grow, and nobody
\* else's locals change.
Frame(a) ==
    /\ sidecar' \in Nat /\ decisions' \in Nat
    /\ sidecar <= sidecar' /\ sidecar' <= source' /\ decisions <= decisions'
    /\ \A b \in Actors \ {a} :
          task'[b] = task[b] /\ pc'[b] = pc[b] /\ held'[b] = held[b]

\* An actor that does not move stays behind a sidecar that grows.
LEMMA OtherActor ==
  ASSUME TypeOK, NEW b \in Actors, ActorInv(b),
         task'[b] = task[b], pc'[b] = pc[b], held'[b] = held[b],
         sidecar' \in Nat, decisions' \in Nat,
         sidecar <= sidecar', decisions <= decisions'
  PROVE  ActorInv(b)'
<1> DEFINE t == task[b]
<1>1. t \in Task /\ t.key \in Key /\ t.key.projection \in Projection
      /\ t.cut \in Nat /\ t.seen \in SUBSET Projection
  BY DEF TypeOK, Task, Key
<1>2. sidecar \in Nat /\ decisions \in Nat
  BY DEF TypeOK
<1>3. Ahead(t.key.projection, Sidecar')
  BY <1>1, <1>2 DEF ActorInv, Remembers, Ahead, Sidecar, Projection
<1>4. \A s \in t.seen : Ahead(t.key.projection, s) /\ Ahead(s, Sidecar')
  BY <1>1, <1>2 DEF ActorInv, Remembers, Ahead, Sidecar, Projection
<1>5. pc[b] \in {"project", "compare"} => t.cut <= sidecar'
  BY <1>1, <1>2 DEF ActorInv
<1>6. Remembers(task[b])'
  BY <1>3, <1>4 DEF ActorInv, Remembers
<1> QED BY <1>5, <1>6 DEF ActorInv

\* So a step of a only has to be checked for a and for the row it inserts.
LEMMA OneActor ==
  ASSUME TypeOK, CutoffInv, NEW a \in Actors, Frame(a), ActorInv(a)',
         events' \subseteq events \cup held[a]
  PROVE  CutoffInv'
<1>1. ASSUME NEW b \in Actors PROVE ActorInv(b)'
  <2>1. CASE b = a
    BY <2>1
  <2>2. CASE b # a
    BY <2>2, OtherActor DEF Frame, CutoffInv
  <2> QED BY <2>1, <2>2
<1>2. \A e \in events' : Unmixed(e)
  BY DEF CutoffInv, ActorInv
<1> QED BY <1>1, <1>2 DEF CutoffInv, Frame

\* Nothing is remembered once the call is over.
LEMMA LeftActor ==
  ASSUME TypeOK, NEW a \in Actors, Leave(a), sidecar' \in Nat, decisions' \in Nat
  PROVE  ActorInv(a)'
<1>1. task'[a] = NoTask /\ pc'[a] = "idle" /\ held'[a] = {}
  BY DEF Leave, GoTo, TypeOK
<1> QED BY <1>1 DEF ActorInv, Remembers, Ahead, Sidecar, NoTask, NoKey

\* A step that keeps the planned input and what the scopes have read.
LEMMA SameInput ==
  ASSUME TypeOK, NEW a \in Actors, ActorInv(a), Frame(a),
         task'[a].key = task[a].key, task'[a].seen = task[a].seen,
         pc'[a] \notin {"idle", "sync", "enqueue", "plan", "project", "compare",
                       "final", "finishing"},
         \A h \in held'[a] : Unmixed(h)
  PROVE  ActorInv(a)'
<1> DEFINE t == task[a]
<1>1. t \in Task /\ t.key \in Key /\ t.key.projection \in Projection
      /\ t.seen \in SUBSET Projection
  BY DEF TypeOK, Task, Key
<1>2. sidecar \in Nat /\ decisions \in Nat
  BY DEF TypeOK
<1>3. Ahead(t.key.projection, Sidecar')
  BY <1>1, <1>2 DEF ActorInv, Remembers, Ahead, Sidecar, Projection, Frame
<1>4. \A s \in t.seen : Ahead(t.key.projection, s) /\ Ahead(s, Sidecar')
  BY <1>1, <1>2 DEF ActorInv, Remembers, Ahead, Sidecar, Projection, Frame
<1> QED BY <1>3, <1>4 DEF ActorInv, Remembers

\* A dated row that is not a completion, or whose run read one version.
LEMMA DatedUnmixed ==
  ASSUME TypeOK, NEW a \in Actors, NEW k, NEW s, NEW n, NEW seen,
         Date(a, k, s, n, seen), s \in Completed => OneVersion(k, seen)
  PROVE  \A h \in held'[a] : Unmixed(h)
  BY DEF Date, TypeOK, Unmixed

\* Every step keeps what actors remember behind the sidecar and the ledger
\* free of mixed completions (_prepare_plan, _run_once_local, _append_status).
LEMMA CutoffStep ==
  ASSUME TypeInv, CutoffInv, [Next]_vars
  PROVE  CutoffInv'
<1>0. TypeOK
  BY DEF TypeInv
<1> USE <1>0
<1>u. CASE UNCHANGED vars
  BY <1>u DEF vars, CutoffInv, ActorInv, Remembers, Sidecar
<1>n. /\ source \in Nat /\ sidecar \in Nat /\ decisions \in Nat /\ sidecar <= source
  BY DEF TypeOK, CutoffInv
<1>l. ASSUME NEW a \in Actors, Leave(a), UNCHANGED inputs,
             events' \subseteq events \cup held[a]
      PROVE  CutoffInv'
  <2>1. Frame(a)
    BY <1>l, <1>n DEF Frame, Leave, GoTo, TypeOK, inputs
  <2>2. ActorInv(a)'
    BY <1>l, <1>n, LeftActor DEF inputs
  <2> QED BY <1>l, <2>1, <2>2, OneActor
\* A step of a on the ledger, its lease or its place that keeps its input.
<1>s. ASSUME NEW a \in Actors, UNCHANGED inputs,
             NEW l \in Labels, GoTo(a, l),
             l \notin {"idle", "sync", "enqueue", "plan", "project", "compare",
                      "final", "finishing"},
             \A b \in Actors \ {a} : task'[b] = task[b] /\ held'[b] = held[b],
             task'[a].key = task[a].key, task'[a].seen = task[a].seen,
             \A h \in held'[a] : Unmixed(h),
             events' \subseteq events \cup held[a]
      PROVE  CutoffInv'
  <2>1. Frame(a) /\ pc'[a] = l
    BY <1>s, <1>n DEF Frame, GoTo, TypeOK, inputs
  <2>2. ActorInv(a)
    BY DEF CutoffInv
  <2>3. ActorInv(a)'
    BY <1>s, <2>1, <2>2, SameInput
  <2> QED BY <1>s, <2>1, <2>3, OneActor
<1>h. \A a \in Actors : /\ \A h \in held[a] : Unmixed(h)
                        /\ task[a] \in Task
                        /\ \A x : [task EXCEPT ![a] = x][a] = x
  BY DEF CutoffInv, ActorInv, TypeOK
<1> DEFINE Keeps(a) ==
             /\ \A b \in Actors \ {a} : task'[b] = task[b] /\ held'[b] = held[b]
             /\ task'[a].key = task[a].key /\ task'[a].seen = task[a].seen
<1>a. ASSUME NEW a \in Actors, PlanStep(a) PROVE CutoffInv'
  <2>0. ActorInv(a)
    BY DEF CutoffInv
  <2>1. CASE Reconcile(a)
    <3>1. /\ task' = [task EXCEPT ![a].cut = source]
          /\ pc' = [pc EXCEPT ![a] = "project"]
          /\ sidecar' = source /\ source' = source
          /\ UNCHANGED <<decisions, held, events>>
      BY <2>1 DEF Reconcile, GoTo, ledger
    <3>2. Frame(a)
      BY <3>1, <1>n DEF Frame, TypeOK
    <3>3. /\ task'[a].key = task[a].key /\ task'[a].seen = task[a].seen
          /\ task'[a].cut = source /\ pc'[a] = "project"
      BY <3>1, <1>h DEF Task, TypeOK
    <3>4. task[a].seen = {}
      BY <2>0, <2>1 DEF ActorInv, Reconcile
    <3>5. /\ task[a].key.projection.events \in Nat
          /\ task[a].key.projection.decisions \in Nat
      BY <1>h DEF Task, Key, Projection
    <3>6. ActorInv(a)'
      BY <2>0, <3>1, <3>3, <3>4, <3>5, <1>n
         DEF ActorInv, Remembers, Ahead, Sidecar
    <3> QED BY <3>1, <3>2, <3>6, OneActor
  <2>2. CASE Project(a)
    <3>1. /\ UNCHANGED <<source, sidecar, decisions, held, events>>
          /\ task' = [task EXCEPT ![a].key = [cutoff |-> task[a].cut,
                                             projection |-> Sidecar,
                                             market |-> market]]
          /\ pc' = [pc EXCEPT ![a] = IF lease = a THEN "list" ELSE "ensure"]
      BY <2>2 DEF Project, GoTo, ledger, inputs
    <3>2. Frame(a)
      BY <3>1, <1>n DEF Frame, TypeOK
    <3>3. /\ task'[a].key.cutoff = task[a].cut
          /\ task'[a].key.projection = Sidecar
          /\ task'[a].seen = task[a].seen
      BY <3>1, <1>h DEF Task, TypeOK
    <3>4. task[a].seen = {} /\ task[a].cut <= sidecar
      BY <2>0, <2>2 DEF ActorInv, Project
    <3>5. pc'[a] \in {"list", "ensure"}
      BY <3>1 DEF TypeOK
    <3>6. ActorInv(a)'
      BY <1>h, <1>n, <3>1, <3>3, <3>4, <3>5
         DEF ActorInv, Remembers, Ahead, Sidecar
    <3> QED BY <3>1, <3>2, <3>6, OneActor
  <2>3. CASE ListStale(a)
    <3>1. Keeps(a) /\ held'[a] = held[a]
      BY <2>3, <1>h DEF ListStale, Task, TypeOK
    <3> QED BY <2>3, <3>1, <1>s, <1>h DEF ListStale, Labels, ledger
  <2>4. CASE DateClosing(a)
    <3>1. PICK k \in task[a].todo : /\ Date(a, k, "blocked", 0, {})
                                    /\ task' = [task EXCEPT ![a].todo = @ \ {k}]
      BY <2>4 DEF DateClosing
    <3>2. Keeps(a)
      BY <3>1, <1>h DEF Date, Task, TypeOK
    <3>3. \A h \in held'[a] : Unmixed(h)
      BY <3>1, DatedUnmixed DEF Completed
    <3> QED BY <2>4, <3>2, <3>3, <1>s DEF DateClosing, Labels
  <2>5. CASE InsertClosing(a)
    <3>1. Keeps(a) /\ held'[a] = {} /\ events' \subseteq events \cup held[a]
      BY <2>5 DEF InsertClosing, Insert, TypeOK
    <3> QED BY <2>5, <3>1, <1>s DEF InsertClosing, Labels
  <2>6. CASE StaleClosed(a)
    BY <2>6, <1>s, <1>h DEF StaleClosed, Labels, ledger
  <2>7. ASSUME NEW created \in BOOLEAN, Decide(a, created), UNCHANGED <<inputs, ledger>>
        PROVE  CutoffInv'
    <3>1. CASE Leave(a)
      BY <2>7, <3>1, <1>l DEF ledger
    <3>2. CASE GoTo(a, "queue") /\ UNCHANGED <<task, held>>
      BY <2>7, <3>2, <1>s, <1>h DEF Labels, ledger
    <3>3. CASE /\ GoTo(a, "start") /\ UNCHANGED held
               /\ task' = [task EXCEPT ![a].attempt = NextAttempt(task[a].key)]
      <4>1. Keeps(a) /\ held'[a] = held[a]
        BY <3>3, <1>h DEF Task, TypeOK
      <4> QED BY <2>7, <3>3, <4>1, <1>s, <1>h DEF Labels, ledger
    <3> QED BY <2>7, <3>1, <3>2, <3>3 DEF Decide
  <2>8. CASE Ensure(a)
    <3>1. CASE Decide(a, FALSE)
      BY <2>7, <2>8, <3>1 DEF Ensure
    <3>2. CASE GoTo(a, "create") /\ UNCHANGED <<lease, task, held>>
      BY <2>8, <3>2, <1>s, <1>h DEF Ensure, Labels, ledger
    <3> QED BY <2>8, <3>1, <3>2 DEF Ensure
  <2>9. CASE Create(a)
    <3>1. CASE Leave(a)
      BY <2>9, <3>1, <1>l DEF Create
    <3>2. CASE (GoTo(a, "found") \/ GoTo(a, "created")) /\ UNCHANGED <<task, held>>
      BY <2>9, <3>2, <1>s, <1>h DEF Create, Labels
    <3> QED BY <2>9, <3>1, <3>2 DEF Create
  <2>10. CASE ReadBack(a)
    BY <2>7, <2>10 DEF ReadBack
  <2>11. CASE DateQueued(a)
    <3>1. Date(a, task[a].key, "queued", 0, {})
      BY <2>11 DEF DateQueued
    <3>2. Keeps(a)
      BY <2>11, <3>1 DEF DateQueued, Date, TypeOK
    <3>3. \A h \in held'[a] : Unmixed(h)
      BY <3>1, DatedUnmixed DEF Completed
    <3> QED BY <2>11, <3>2, <3>3, <1>s DEF DateQueued, Labels
  <2>12. CASE InsertQueued(a)
    <3>1. events' \subseteq events \cup held[a]
      BY <2>12 DEF InsertQueued, Insert
    <3>2. CASE Leave(a)
      BY <2>12, <3>1, <3>2, <1>l DEF InsertQueued
    <3>3. CASE /\ GoTo(a, "start")
               /\ held' = [held EXCEPT ![a] = {}]
               /\ task' = [task EXCEPT ![a].attempt = NextAttempt(task[a].key)]
      <4>1. Keeps(a) /\ held'[a] = {}
        BY <3>3, <1>h DEF Task, TypeOK
      <4> QED BY <2>12, <3>1, <3>3, <4>1, <1>s DEF InsertQueued, Labels
    <3> QED BY <2>12, <3>2, <3>3 DEF InsertQueued
  <2>13. CASE InsertRefused(a)
    BY <2>13, <1>l DEF InsertRefused, ledger
  <2> QED BY <1>a, <2>1, <2>2, <2>3, <2>4, <2>5, <2>6, <2>8, <2>9, <2>10, <2>11,
             <2>12, <2>13 DEF PlanStep
<1>b. ASSUME NEW a \in Actors, Abort(a) PROVE CutoffInv'
  BY <1>b, <1>l DEF Abort, ledger
<1>c. ASSUME NEW c \in Consumers, CycleStep(c) PROVE CutoffInv'
  <2> c \in Actors
    BY DEF Actors
  <2>0. ActorInv(c)
    BY DEF CutoffInv
  <2>k. /\ task[c].key.cutoff \in Nat
        /\ task[c].key.projection \in Projection
        /\ task[c].key.projection.events \in Nat
        /\ task[c].key.projection.decisions \in Nat
        /\ task[c].cut \in Nat /\ task[c].seen \in SUBSET Projection
    BY <1>h DEF Task, Key, Projection
  <2>1. CASE Acquire(c)
    <3>1. /\ UNCHANGED <<source, sidecar, decisions, held, events, task>>
          /\ pc[c] = "idle" /\ pc' = [pc EXCEPT ![c] = "plan"]
      BY <2>1 DEF Acquire, GoTo, inputs, ledger
    <3>2. Frame(c) /\ pc'[c] = "plan"
      BY <3>1, <1>n DEF Frame, TypeOK
    <3>3. ActorInv(c)'
      BY <2>0, <3>1, <3>2 DEF ActorInv, Remembers, Sidecar
    <3> QED BY <3>1, <3>2, <3>3, OneActor
  <2>2. CASE DateRunning(c)
    <3>1. Date(c, task[c].key, "running", task[c].attempt, {})
      BY <2>2 DEF DateRunning
    <3>2. Keeps(c)
      BY <2>2, <3>1 DEF DateRunning, Date, TypeOK
    <3>3. \A h \in held'[c] : Unmixed(h)
      BY <3>1, DatedUnmixed DEF Completed
    <3> QED BY <2>2, <3>2, <3>3, <1>s DEF DateRunning, Labels
  <2>3. CASE InsertRunning(c)
    <3>1. /\ events' \subseteq events \cup held[c]
          /\ UNCHANGED inputs /\ held' = [held EXCEPT ![c] = {}]
      BY <2>3 DEF InsertRunning, Insert
    <3>2. CASE GoTo(c, "scopes") /\ UNCHANGED task
      BY <3>1, <3>2, <1>s DEF Labels, TypeOK
    <3>3. CASE GoTo(c, "final") /\ task' = [task EXCEPT ![c].worst = "blocked"]
      <4>1. Frame(c)
        BY <3>1, <3>3, <1>n DEF Frame, GoTo, TypeOK, inputs
      <4>2. /\ task'[c].key = task[c].key /\ task'[c].seen = task[c].seen
            /\ task'[c].worst = "blocked" /\ pc'[c] = "final" /\ held'[c] = {}
        BY <3>1, <3>3, <1>h DEF GoTo, Task, TypeOK
      <4>3. ActorInv(c)'
        BY <2>0, <3>1, <4>2 DEF ActorInv, Remembers, Sidecar, inputs, Completed
      <4> QED BY <3>1, <4>1, <4>3, OneActor
    <3> QED BY <2>3, <3>2, <3>3 DEF InsertRunning
  <2>4. CASE RunScope(c)
    <3>1. PICK result \in ScopeResults :
             task' = [task EXCEPT ![c] = AfterScope(task[c], result)]
      BY <2>4 DEF RunScope
    <3>2. /\ UNCHANGED <<source, sidecar, decisions, held, events, pc>>
          /\ pc[c] = "scopes"
      BY <2>4 DEF RunScope, inputs, ledger
    <3>3. Frame(c)
      BY <3>1, <3>2, <1>n DEF Frame, TypeOK
    <3>4. /\ task'[c].key = task[c].key
          /\ task'[c].seen \subseteq task[c].seen \cup {Sidecar}
      BY <3>1, <1>h DEF AfterScope, Task, TypeOK
    <3>5. Ahead(Sidecar, Sidecar)
      BY <1>n DEF Ahead, Sidecar
    <3>6. ActorInv(c)'
      BY <2>0, <3>2, <3>4, <3>5 DEF ActorInv, Remembers, Sidecar
    <3> QED BY <3>2, <3>3, <3>6, OneActor
  <2>5. CASE Reverify(c)
    <3>1. /\ UNCHANGED <<source, decisions, held, events>> /\ pc[c] = "scopes"
      BY <2>5 DEF Reverify, ledger
    <3>2. CASE /\ sidecar' = source
               /\ task' = [task EXCEPT ![c].cut = source]
               /\ GoTo(c, "compare")
      <4>1. Frame(c)
        BY <3>1, <3>2, <1>n DEF Frame, GoTo, TypeOK
      <4>2. /\ task'[c].key = task[c].key /\ task'[c].seen = task[c].seen
            /\ task'[c].cut = source /\ pc'[c] = "compare"
        BY <3>2, <1>h DEF GoTo, Task, TypeOK
      <4>3. Remembers(task[c])
        BY <2>0 DEF ActorInv
      <4>4. task[c].key.projection.events <= source
        BY <2>k, <4>3, <1>n DEF Remembers, Ahead, Sidecar
      <4>5. /\ Ahead(task[c].key.projection, Sidecar')
            /\ \A x \in task[c].seen : Ahead(x, Sidecar')
        BY <2>k, <3>1, <3>2, <4>3, <1>n
           DEF Remembers, Ahead, Sidecar, Projection
      <4>6. ActorInv(c)'
        BY <2>0, <3>1, <3>2, <4>2, <4>3, <4>4, <4>5, <1>n DEF ActorInv, Remembers
      <4> QED BY <3>1, <4>1, <4>6, OneActor
    <3>3. CASE /\ UNCHANGED sidecar
               /\ task' = [task EXCEPT ![c].worst = "failed"]
               /\ GoTo(c, "final")
      <4>1. Frame(c)
        BY <3>1, <3>3, <1>n DEF Frame, GoTo, TypeOK
      <4>2. /\ task'[c].key = task[c].key /\ task'[c].seen = task[c].seen
            /\ task'[c].worst = "failed" /\ pc'[c] = "final"
        BY <3>3, <1>h DEF GoTo, Task, TypeOK
      <4>3. ActorInv(c)'
        BY <2>0, <3>1, <3>3, <4>2 DEF ActorInv, Remembers, Sidecar, Completed
      <4> QED BY <3>1, <4>1, <4>3, OneActor
    <3> QED BY <2>5, <3>2, <3>3 DEF Reverify
  <2>6. CASE Compare(c)
    <3>1. /\ UNCHANGED <<source, sidecar, decisions, held, events>>
          /\ pc[c] = "compare" /\ pc' = [pc EXCEPT ![c] = "final"]
          /\ task' = [task EXCEPT ![c] = Verdict(task[c], Drifted(c))]
      BY <2>6 DEF Compare, GoTo, inputs, ledger
    <3>2. Frame(c)
      BY <3>1, <1>n DEF Frame, TypeOK
    <3>3. /\ task'[c].key = task[c].key /\ task'[c].seen = task[c].seen
          /\ Drifted(c) => task'[c].worst = "failed"
          /\ pc'[c] = "final"
      BY <3>1, <1>h DEF Verdict, Task, TypeOK
    <3>4. ASSUME ~Drifted(c) PROVE OneVersion(task[c].key, task[c].seen)
      <4>1. task[c].cut = task[c].key.cutoff /\ Sidecar = task[c].key.projection
        BY <3>4 DEF Drifted
      <4>2. task[c].key.projection.events = task[c].key.cutoff
        BY <2>0, <2>k, <3>1, <4>1 DEF ActorInv, Remembers
      <4>3. ASSUME NEW x \in task[c].seen PROVE x = task[c].key.projection
        <5>1. x \in Projection /\ Sidecar \in Projection
          BY <2>k, <4>1
        <5>2. x.events = Sidecar.events /\ x.decisions = Sidecar.decisions
          BY <2>0, <4>1, <5>1 DEF ActorInv, Remembers, Ahead, Projection
        <5> QED BY <4>1, <5>1, <5>2 DEF Projection
      <4> QED BY <4>2, <4>3 DEF OneVersion
    <3>5. ActorInv(c)'
      BY <2>0, <3>1, <3>3, <3>4 DEF ActorInv, Remembers, Sidecar, Completed
    <3> QED BY <3>1, <3>2, <3>5, OneActor
  <2>7. CASE DateFinal(c)
    <3>1. /\ Date(c, task[c].key, task[c].worst, 0, task[c].seen)
          /\ UNCHANGED <<source, sidecar, decisions, events, task>>
          /\ pc[c] = "final" /\ pc' = [pc EXCEPT ![c] = "finishing"]
      BY <2>7 DEF DateFinal, GoTo, inputs
    <3>2. Frame(c) /\ pc'[c] = "finishing"
      BY <3>1, <1>n DEF Frame, Date, TypeOK
    <3>3. task[c].worst \in Completed => OneVersion(task[c].key, task[c].seen)
      BY <2>0, <3>1 DEF ActorInv
    <3>4. \A h \in held'[c] : Unmixed(h)
      BY <3>1, <3>3, DatedUnmixed
    <3>5. ActorInv(c)'
      BY <2>0, <3>1, <3>2, <3>3, <3>4 DEF ActorInv, Remembers, Sidecar
    <3> QED BY <3>1, <3>2, <3>5, OneActor
  <2>8. CASE InsertFinal(c)
    <3>1. events' \subseteq events \cup held[c] /\ UNCHANGED inputs
      BY <2>8 DEF InsertFinal, Insert
    <3>2. CASE Leave(c)
      BY <3>1, <3>2, <1>l
    <3>3. CASE /\ GoTo(c, "drifted") /\ held' = [held EXCEPT ![c] = {}]
               /\ UNCHANGED task
      BY <3>1, <3>3, <1>s DEF Labels, TypeOK
    <3> QED BY <2>8, <3>2, <3>3 DEF InsertFinal
  <2>9. CASE AcquireToBlock(c)
    <3>1. CASE Leave(c)
      BY <2>9, <3>1, <1>l DEF AcquireToBlock, ledger
    <3>2. CASE GoTo(c, "recheck") /\ UNCHANGED <<task, held>>
      BY <2>9, <3>2, <1>s, <1>h DEF AcquireToBlock, Labels, ledger
    <3> QED BY <2>9, <3>1, <3>2 DEF AcquireToBlock
  <2>10. CASE Recheck(c)
    <3>1. CASE Leave(c)
      BY <2>10, <3>1, <1>l DEF Recheck, ledger
    <3>2. CASE GoTo(c, "block") /\ UNCHANGED <<task, held>>
      BY <2>10, <3>2, <1>s, <1>h DEF Recheck, Labels, ledger
    <3> QED BY <2>10, <3>1, <3>2 DEF Recheck
  <2>11. CASE DateBlocked(c)
    <3>1. Date(c, task[c].key, "blocked", 0, {})
      BY <2>11 DEF DateBlocked
    <3>2. Keeps(c)
      BY <2>11, <3>1 DEF DateBlocked, Date, TypeOK
    <3>3. \A h \in held'[c] : Unmixed(h)
      BY <3>1, DatedUnmixed DEF Completed
    <3> QED BY <2>11, <3>2, <3>3, <1>s DEF DateBlocked, Labels
  <2>12. CASE InsertBlocked(c)
    BY <2>12, <1>l DEF InsertBlocked, Insert
  <2> QED BY <1>c, <2>1, <2>2, <2>3, <2>4, <2>5, <2>6, <2>7, <2>8, <2>9, <2>10,
             <2>11, <2>12 DEF CycleStep
<1>d. ASSUME NEW p \in Producers, Commit(p) \/ EnqueueStep(p) PROVE CutoffInv'
  <2> p \in Actors
    BY DEF Actors
  <2>0. ActorInv(p)
    BY DEF CutoffInv
  <2>k. /\ task[p].key.projection.events \in Nat
        /\ task[p].key.projection.decisions \in Nat
        /\ task[p].seen \in SUBSET Projection
    BY <1>h DEF Task, Key, Projection
  <2>1. /\ UNCHANGED <<decisions, held, events, task>>
        /\ (sidecar' = sidecar /\ source' \in {source, source + 1})
           \/ (sidecar' = source /\ source' = source)
        /\ pc[p] \in {"idle", "sync", "enqueue"}
        /\ \E l \in {"sync", "enqueue", "plan"} : pc' = [pc EXCEPT ![p] = l]
    BY <1>d DEF Commit, EnqueueStep, PostCommitSync, EnterEnqueue, GoTo, ledger, inputs
  <2>2. Frame(p) /\ pc'[p] \in {"sync", "enqueue", "plan"}
    BY <2>1, <1>n DEF Frame, TypeOK
  <2>3. task[p].seen = {}
    BY <2>0, <2>1 DEF ActorInv
  <2>4. Ahead(task[p].key.projection, Sidecar')
    BY <2>0, <2>1, <2>k, <1>n DEF ActorInv, Remembers, Ahead, Sidecar
  <2>5. ActorInv(p)'
    BY <2>0, <2>1, <2>2, <2>3, <2>4 DEF ActorInv, Remembers
  <2> QED BY <2>1, <2>2, <2>5, OneActor
<1>e. CASE RecordDecision \/ MarketMoves
  <2>1. /\ UNCHANGED <<source, sidecar, events, pc, task, held>>
        /\ decisions' \in Nat /\ decisions <= decisions'
    BY <1>e, <1>n DEF RecordDecision, MarketMoves, ledger
  <2>2. \A a \in Actors : ActorInv(a)'
    BY <2>1, <1>n, OtherActor DEF CutoffInv
  <2> QED BY <2>1, <2>2, <1>n DEF CutoffInv
<1> QED BY <1>u, <1>a, <1>b, <1>c, <1>d, <1>e DEF Next

\* What actors remember stays behind the sidecar, in every state of the
\* coordinator (_prepare_plan, _run_once_local).
LEMMA CutoffHolds == Spec => []CutoffInv
<1>1. Init => CutoffInv
  <2> SUFFICES ASSUME Init PROVE CutoffInv
    OBVIOUS
  <2>1. source \in Nat /\ sidecar = 0 /\ decisions = 0
    BY CatchUpConstants DEF Init
  <2>2. \A a \in Actors : ActorInv(a)
    BY <2>1 DEF Init, ActorInv, Remembers, Ahead, Sidecar, NoTask, NoKey
  <2> QED BY <2>1, <2>2 DEF Init, CutoffInv
<1>2. TypeInv /\ CutoffInv /\ [Next]_vars => CutoffInv'
  BY CutoffStep
<1> QED BY <1>1, <1>2, TypingInduction, PTL DEF Spec

\* No mixed cutoff: a run recorded as complete read one version of the sidecar
\* only, the one its run key names, and that is the reconciled source, however
\* many commits, syncs and decisions happened under its scopes
\* (the post-cycle verification of _run_once_local).
THEOREM UnmixedCutoffs == Spec => []NoMixedCutoff
<1>1. CutoffInv => NoMixedCutoff
  BY DEF CutoffInv, NoMixedCutoff, Unmixed, OneVersion
<1> QED BY <1>1, CutoffHolds, PTL
-----------------------------------------------------------------------------
(* A drift found is a drift for good.  What the post-cycle plan found to    *)
(* have moved only grows, so that the run's input is never current again.   *)

Obsolete(k) == k.cutoff < source \/ k.projection.decisions < decisions

DriftPlaces == {"final", "finishing", "drifted", "recheck", "block", "blocking"}

DriftOf(a) ==
    /\ task[a].drift => pc[a] \in DriftPlaces /\ Obsolete(task[a].key)
    /\ pc[a] \in {"drifted", "recheck", "block", "blocking"} => task[a].drift

DriftInv == \A a \in Actors : DriftOf(a)

\* The ledger and the decisions only grow (append-only tables).
LEMMA InputsGrow ==
  ASSUME TypeOK, [Next]_vars
  PROVE  /\ source \in Nat /\ source' \in Nat /\ source <= source'
         /\ decisions \in Nat /\ decisions' \in Nat /\ decisions <= decisions'
<1>0. source \in Nat /\ decisions \in Nat
  BY DEF TypeOK
<1>1. CASE UNCHANGED vars
  BY <1>0, <1>1 DEF vars
<1>2. ASSUME NEW a \in Actors, PlanStep(a) \/ Abort(a) PROVE UNCHANGED <<source, decisions>>
  BY <1>2 DEF PlanStep, Abort, Reconcile, Project, ListStale, DateClosing, InsertClosing,
     StaleClosed, Ensure, Create, ReadBack, DateQueued, InsertQueued, InsertRefused, inputs
<1>3. ASSUME NEW c \in Consumers, CycleStep(c) PROVE UNCHANGED <<source, decisions>>
  BY <1>3 DEF CycleStep, Acquire, DateRunning, InsertRunning, RunScope, Reverify, Compare,
     DateFinal, InsertFinal, AcquireToBlock, Recheck, DateBlocked, InsertBlocked, inputs
<1>4. ASSUME NEW p \in Producers, Commit(p) \/ EnqueueStep(p)
      PROVE  source' \in {source, source + 1} /\ decisions' = decisions
  BY <1>4 DEF Commit, EnqueueStep, PostCommitSync, EnterEnqueue, inputs
<1>5. CASE RecordDecision \/ MarketMoves
  BY <1>0, <1>5 DEF RecordDecision, MarketMoves
<1> QED BY <1>0, <1>1, <1>2, <1>3, <1>4, <1>5 DEF Next

\* A step that moves a and no other actor's locals.
Moves(a) ==
    \A b \in Actors \ {a} :
       task'[b] = task[b] /\ pc'[b] = pc[b] /\ held'[b] = held[b]

\* Whoever leaves, or has not come to the verdict yet, has no drift to speak of.
LEMMA DriftMoves ==
  ASSUME TypeOK, DriftInv, [Next]_vars, NEW a \in Actors, Moves(a), DriftOf(a)'
  PROVE  DriftInv'
<1> SUFFICES ASSUME NEW b \in Actors, b # a PROVE DriftOf(b)'
  BY DEF DriftInv
<1>1. task'[b] = task[b] /\ pc'[b] = pc[b] /\ DriftOf(b)
  BY DEF Moves, DriftInv
<1>2. task[b].key.cutoff \in Nat /\ task[b].key.projection.decisions \in Nat
  BY DEF TypeOK, Task, Key, Projection
<1>3. Obsolete(task[b].key) => Obsolete(task[b].key)'
  BY <1>1, <1>2, InputsGrow DEF Obsolete
<1> QED BY <1>1, <1>3 DEF DriftOf

\* Verdicts, retries and blocks keep the drift of every call
\* (_run_once_local's comparison, _block_continuous_drift).
LEMMA DriftStep ==
  ASSUME TypeInv, CutoffInv, DriftInv, [Next]_vars
  PROVE  DriftInv'
<1>0. TypeOK
  BY DEF TypeInv
<1>u. CASE UNCHANGED vars
  BY <1>u DEF vars, DriftInv, DriftOf, Obsolete
\* A call that ends.
<1>l. ASSUME NEW a \in Actors, Leave(a) PROVE DriftInv'
  <2>1. Moves(a) /\ task'[a] = NoTask /\ pc'[a] = "idle"
    BY <1>0, <1>l DEF Leave, GoTo, Moves, TypeOK
  <2>2. DriftOf(a)'
    BY <2>1 DEF DriftOf, NoTask
  <2> QED BY <1>0, <2>1, <2>2, DriftMoves
\* A step before the verdict.
<1>e. ASSUME NEW a \in Actors, NEW l \in Labels, Moves(a), pc'[a] = l,
             pc[a] \notin DriftPlaces, l \notin {"drifted", "recheck", "block", "blocking"},
             task'[a].drift = task[a].drift
      PROVE  DriftInv'
  <2>1. DriftOf(a)'
    BY <1>e DEF DriftOf, DriftInv
  <2> QED BY <1>0, <1>e, <2>1, DriftMoves
\* A step after the verdict.
<1>v. ASSUME NEW a \in Actors, NEW l \in DriftPlaces, GoTo(a, l),
             pc[a] \in DriftPlaces, task' = task, UNCHANGED inputs,
             \A b \in Actors \ {a} : held'[b] = held[b],
             l \in {"drifted", "recheck", "block", "blocking"} => task[a].drift
      PROVE  DriftInv'
  <2>1. Moves(a) /\ pc'[a] = l
    BY <1>0, <1>v DEF GoTo, Moves, TypeOK
  <2>2. DriftOf(a)'
    BY <1>v, <2>1 DEF DriftOf, DriftInv, Obsolete, inputs
  <2> QED BY <1>0, <2>1, <2>2, DriftMoves
<1>a. ASSUME NEW a \in Actors, PlanStep(a) PROVE DriftInv'
  <2>1. CASE Reconcile(a) \/ Project(a) \/ ListStale(a) \/ StaleClosed(a)
    <3>1. Moves(a) /\ pc[a] \notin DriftPlaces /\ task'[a].drift = task[a].drift
      BY <1>0, <2>1 DEF Reconcile, Project, ListStale, StaleClosed, GoTo, Moves, TypeOK,
         Task, DriftPlaces
    <3>2. pc'[a] \in {"project", "list", "ensure", "supersede"}
      BY <1>0, <2>1 DEF Reconcile, Project, ListStale, StaleClosed, GoTo, TypeOK
    <3> QED BY <1>e, <3>1, <3>2 DEF Labels
  <2>2. CASE DateClosing(a)
    <3>1. PICK k \in task[a].todo : /\ Date(a, k, "blocked", 0, {})
                                    /\ task' = [task EXCEPT ![a].todo = @ \ {k}]
      BY <2>2 DEF DateClosing
    <3>2. Moves(a) /\ task'[a].drift = task[a].drift /\ pc'[a] = "closing"
      BY <1>0, <2>2, <3>1 DEF DateClosing, Date, GoTo, Moves, TypeOK, Task
    <3> QED BY <1>e, <2>2, <3>2 DEF DateClosing, Labels, DriftPlaces
  <2>3. CASE InsertClosing(a) \/ DateQueued(a)
    <3>1. /\ Moves(a) /\ task' = task /\ pc'[a] \in {"supersede", "queueing"}
          /\ pc[a] \in {"closing", "queue"}
      BY <1>0, <2>3 DEF InsertClosing, DateQueued, Date, GoTo, Moves, TypeOK
    <3> QED BY <1>e, <3>1 DEF Labels, DriftPlaces
  <2>4. ASSUME NEW created \in BOOLEAN, Decide(a, created),
               pc[a] \in {"ensure", "created", "found"}
        PROVE  DriftInv'
    <3>1. CASE Leave(a)
      BY <1>l, <3>1
    <3>2. CASE GoTo(a, "queue") /\ UNCHANGED <<lease, task, held>>
      <4>1. Moves(a) /\ pc'[a] = "queue" /\ task' = task
        BY <1>0, <3>2 DEF GoTo, Moves, TypeOK
      <4> QED BY <1>e, <2>4, <4>1 DEF Labels, DriftPlaces
    <3>3. CASE /\ GoTo(a, "start")
               /\ task' = [task EXCEPT ![a].attempt = NextAttempt(task[a].key)]
               /\ UNCHANGED <<lease, held>>
      <4>1. Moves(a) /\ pc'[a] = "start" /\ task'[a].drift = task[a].drift
        BY <1>0, <3>3 DEF GoTo, Moves, TypeOK, Task
      <4> QED BY <1>e, <2>4, <4>1 DEF Labels, DriftPlaces
    <3> QED BY <2>4, <3>1, <3>2, <3>3 DEF Decide
  <2>5. CASE Ensure(a)
    <3>1. CASE GoTo(a, "create") /\ UNCHANGED <<lease, task, held>>
      <4>1. Moves(a) /\ pc'[a] = "create" /\ task' = task
        BY <1>0, <3>1 DEF GoTo, Moves, TypeOK
      <4> QED BY <1>e, <2>5, <4>1 DEF Ensure, Labels, DriftPlaces
    <3> QED BY <2>4, <2>5, <3>1 DEF Ensure
  <2>6. CASE Create(a)
    <3>1. CASE Leave(a)
      BY <1>l, <3>1
    <3>2. CASE GoTo(a, IF task[a].key \in runs THEN "found" ELSE "created")
               /\ UNCHANGED <<lease, task, held>>
      <4>1. Moves(a) /\ pc'[a] \in {"found", "created"} /\ task' = task
        BY <1>0, <3>2 DEF GoTo, Moves, TypeOK
      <4> QED BY <1>e, <2>6, <4>1 DEF Create, Labels, DriftPlaces
    <3> QED BY <2>6, <3>1, <3>2 DEF Create
  <2>7. CASE ReadBack(a)
    BY <2>4, <2>7 DEF ReadBack
  <2>8. CASE InsertQueued(a)
    <3>1. CASE Leave(a)
      BY <1>l, <3>1
    <3>2. CASE /\ GoTo(a, "start") /\ held' = [held EXCEPT ![a] = {}]
               /\ task' = [task EXCEPT ![a].attempt = NextAttempt(task[a].key)]
      <4>1. Moves(a) /\ pc'[a] = "start" /\ task'[a].drift = task[a].drift
        BY <1>0, <3>2 DEF GoTo, Moves, TypeOK, Task
      <4> QED BY <1>e, <2>8, <4>1 DEF InsertQueued, Labels, DriftPlaces
    <3> QED BY <2>8, <3>1, <3>2 DEF InsertQueued
  <2>9. CASE InsertRefused(a)
    BY <1>l, <2>9 DEF InsertRefused
  <2> QED BY <1>a, <2>1, <2>2, <2>3, <2>5, <2>6, <2>7, <2>8, <2>9 DEF PlanStep
<1>b. ASSUME NEW a \in Actors, Abort(a) PROVE DriftInv'
  BY <1>b, <1>l DEF Abort
<1>c. ASSUME NEW c \in Consumers, CycleStep(c) PROVE DriftInv'
  <2> c \in Actors
    BY DEF Actors
  <2>1. CASE Acquire(c) \/ DateRunning(c)
    <3>1. Moves(c) /\ task' = task /\ pc'[c] \in {"plan", "starting"} /\ pc[c] \in {"idle", "start"}
      BY <1>0, <2>1 DEF Acquire, DateRunning, Date, GoTo, Moves, TypeOK
    <3> QED BY <1>e, <3>1 DEF Labels, DriftPlaces
  <2>2. CASE InsertRunning(c)
    <3>1. /\ Moves(c) /\ task'[c].drift = task[c].drift
          /\ pc'[c] \in {"scopes", "final"} /\ pc[c] = "starting"
      BY <1>0, <2>2 DEF InsertRunning, GoTo, Moves, TypeOK, Task
    <3> QED BY <1>e, <3>1 DEF Labels, DriftPlaces
  <2>3. CASE RunScope(c)
    <3>1. PICK result \in ScopeResults : task' = [task EXCEPT ![c] = AfterScope(task[c], result)]
      BY <2>3 DEF RunScope
    <3>2. /\ Moves(c) /\ task'[c].drift = task[c].drift /\ pc'[c] = "scopes" /\ pc[c] = "scopes"
      BY <1>0, <2>3, <3>1 DEF RunScope, AfterScope, Moves, TypeOK, Task
    <3> QED BY <1>e, <3>2 DEF Labels, DriftPlaces
  <2>4. CASE Reverify(c)
    <3>1. /\ Moves(c) /\ task'[c].drift = task[c].drift
          /\ pc'[c] \in {"compare", "final"} /\ pc[c] = "scopes"
      BY <1>0, <2>4 DEF Reverify, GoTo, Moves, TypeOK, Task
    <3> QED BY <1>e, <3>1 DEF Labels, DriftPlaces
  <2>5. CASE Compare(c)
    <3>1. /\ Moves(c) /\ pc'[c] = "final" /\ UNCHANGED inputs
          /\ task'[c].drift = Drifted(c) /\ task'[c].key = task[c].key
      BY <1>0, <2>5 DEF Compare, Verdict, GoTo, Moves, TypeOK, Task
    <3>2. ASSUME Drifted(c) PROVE Obsolete(task[c].key)
      <4>1. /\ task[c].cut <= sidecar /\ sidecar <= source
            /\ Remembers(task[c]) /\ task[c].key.projection.events <= task[c].cut
        BY <2>5 DEF Compare, CutoffInv, ActorInv
      <4>2. /\ task[c].key.cutoff \in Nat /\ task[c].cut \in Nat
            /\ task[c].key.projection \in Projection
            /\ source \in Nat /\ sidecar \in Nat /\ decisions \in Nat
        BY <1>0 DEF TypeOK, Task, Key
      <4>3. /\ task[c].key.projection.events \in Nat /\ task[c].key.projection.decisions \in Nat
            /\ task[c].key.projection = [events |-> task[c].key.projection.events,
                                         decisions |-> task[c].key.projection.decisions]
        BY <4>2 DEF Projection
      <4>4. CASE task[c].cut # task[c].key.cutoff
        BY <4>1, <4>2, <4>3, <4>4 DEF Remembers, Ahead, Sidecar, Obsolete
      <4>5. CASE Sidecar # task[c].key.projection
        <5>1. sidecar # task[c].key.projection.events
              \/ decisions # task[c].key.projection.decisions
          BY <4>3, <4>5 DEF Sidecar
        <5> QED BY <4>1, <4>2, <4>3, <5>1 DEF Remembers, Ahead, Sidecar, Obsolete
      <4> QED BY <3>2, <4>4, <4>5 DEF Drifted
    <3>3. DriftOf(c)'
      BY <3>1, <3>2 DEF DriftOf, DriftPlaces, Obsolete, inputs
    <3> QED BY <1>0, <3>1, <3>3, DriftMoves
  <2>6. CASE DateFinal(c)
    BY <1>v, <2>6 DEF DateFinal, DriftPlaces, Date, TypeOK
  <2>7. CASE InsertFinal(c)
    <3>1. CASE Leave(c)
      BY <1>l, <3>1
    <3>2. CASE task[c].drift /\ GoTo(c, "drifted") /\ held' = [held EXCEPT ![c] = {}] /\ UNCHANGED task
      BY <1>0, <1>v, <2>7, <3>2 DEF InsertFinal, DriftPlaces, TypeOK
    <3> QED BY <2>7, <3>1, <3>2 DEF InsertFinal
  <2>8. CASE AcquireToBlock(c)
    <3>1. CASE Leave(c)
      BY <1>l, <3>1
    <3>2. CASE GoTo(c, "recheck") /\ UNCHANGED <<task, held>>
      <4>1. task[c].drift
        BY <2>8 DEF AcquireToBlock, DriftInv, DriftOf
      <4> QED BY <1>v, <2>8, <3>2, <4>1 DEF AcquireToBlock, DriftPlaces
    <3> QED BY <2>8, <3>1, <3>2 DEF AcquireToBlock
  <2>9. CASE Recheck(c)
    <3>1. CASE Leave(c)
      BY <1>l, <3>1
    <3>2. CASE GoTo(c, "block") /\ UNCHANGED <<task, held>>
      <4>1. task[c].drift
        BY <2>9 DEF Recheck, DriftInv, DriftOf
      <4> QED BY <1>v, <2>9, <3>2, <4>1 DEF Recheck, DriftPlaces
    <3> QED BY <2>9, <3>1, <3>2 DEF Recheck
  <2>10. CASE DateBlocked(c)
    <3>1. task[c].drift
      BY <2>10 DEF DateBlocked, DriftInv, DriftOf
    <3> QED BY <1>0, <1>v, <2>10, <3>1 DEF DateBlocked, DriftPlaces, Date, TypeOK
  <2>11. CASE InsertBlocked(c)
    BY <1>l, <2>11 DEF InsertBlocked
  <2> QED BY <1>c, <2>1, <2>2, <2>3, <2>4, <2>5, <2>6, <2>7, <2>8, <2>9, <2>10, <2>11
          DEF CycleStep
<1>d. ASSUME NEW p \in Producers, Commit(p) \/ EnqueueStep(p) PROVE DriftInv'
  <2> p \in Actors
    BY DEF Actors
  <2>1. /\ Moves(p) /\ task' = task /\ pc[p] \in {"idle", "sync", "enqueue"}
        /\ pc'[p] \in {"sync", "enqueue", "plan"}
    BY <1>0, <1>d DEF Commit, EnqueueStep, PostCommitSync, EnterEnqueue, GoTo, Moves, TypeOK
  <2> QED BY <1>e, <2>1 DEF Labels, DriftPlaces
<1>e2. CASE RecordDecision \/ MarketMoves
  <2>1. UNCHANGED <<pc, task, held>>
    BY <1>e2 DEF RecordDecision, MarketMoves
  <2>2. \A a \in Actors : task[a].key.cutoff \in Nat /\ task[a].key.projection.decisions \in Nat
    BY <1>0 DEF TypeOK, Task, Key, Projection
  <2>3. \A a \in Actors : Obsolete(task[a].key) => Obsolete(task[a].key)'
    BY <1>0, <2>1, <2>2, InputsGrow DEF Obsolete
  <2> QED BY <2>1, <2>3 DEF DriftInv, DriftOf
<1> QED BY <1>u, <1>a, <1>b, <1>c, <1>d, <1>e2 DEF Next

\* The block a worker writes after two drifts in a row never hits the run of
\* the current input, although the lease was free between the failure and the
\* block (_block_continuous_drift): what drifted never comes back.
THEOREM DriftBlocks == Spec => DriftBlockIsObsolete
<1>1. Init => DriftInv
  BY DEF Init, DriftInv, DriftOf, NoTask
<1>2. TypeInv /\ CutoffInv /\ DriftInv /\ [Next]_vars => DriftInv'
  BY DriftStep
<1>3. TypeInv /\ DriftInv =>
        [\A c \in Consumers :
          pc[c] = "blocking" /\ held[c] \subseteq events' =>
             task[c].key # CurrentKey]_events
  <2> SUFFICES ASSUME TypeInv, DriftInv, NEW c \in Consumers, pc[c] = "blocking"
               PROVE  task[c].key # CurrentKey
    OBVIOUS
  <2>1. c \in Actors
    BY DEF Actors
  <2>2. Obsolete(task[c].key)
    BY <2>1 DEF DriftInv, DriftOf
  <2>3. source \in Nat /\ decisions \in Nat
    BY DEF TypeInv, TypeOK
  <2> QED BY <2>2, <2>3 DEF Obsolete, CurrentKey
<1> QED BY <1>1, <1>2, <1>3, TypingInduction, CutoffHolds, PTL DEF Spec, DriftBlockIsObsolete

-----------------------------------------------------------------------------
(* The run ledger.  While an actor has the lease, nobody else inserts       *)
(* anything but a queued row: what it has read of a run's status is still   *)
(* true when it writes, up to such rows.                                    *)

Running(k) == {e \in History(k) : e.status = "running"}

IsTop(e, k) == e \in History(k) /\ \A f \in History(k) : f.at <= e.at

\* Every run with rows has a newest one, and only one.
RowsInv ==
    /\ \A e, f \in events : e.key = f.key /\ e.at = f.at => e = f
    /\ \A e \in events : e.at <= newest /\ e.key \in runs
    /\ \A e \in events : \E t \in events : IsTop(t, e.key)

AttemptInv ==
    /\ AttemptsInOrder
    /\ \A e \in events : e.status = "running" => e.attempt <= Cardinality(Running(e.key))

CyclePlaces == {"start", "starting", "scopes", "compare", "final", "finishing"}
BlockPlaces == {"recheck", "block", "blocking"}
AfterEnsure == {"queue", "queueing"} \cup CyclePlaces
AfterList == {"supersede", "closing", "ensure", "create", "created", "found"} \cup AfterEnsure
DatedPlaces == {"closing", "queueing", "starting", "finishing", "blocking"}

\* The row that is dated belongs to the run the actor is about, or is a
\* closing one of a stale run.
HeldRow(a, h) ==
    /\ h.key \in runs
    /\ pc[a] = "closing" => h.status = "blocked" /\ h.key \notin task[a].todo
    /\ pc[a] # "closing" => h.key = task[a].key
    /\ pc[a] = "queueing" => h.status = "queued"
    /\ h.status = "running" => pc[a] = "starting" /\ h.attempt = task[a].attempt

Placed(a) ==
    /\ pc[a] \in {"list", "supersede", "closing"} => lease = a
    /\ pc[a] \in CyclePlaces \cup BlockPlaces \cup {"drifted"} => a \in Consumers
    /\ pc[a] \in {"created", "found", "drifted"} \cup AfterEnsure \cup BlockPlaces =>
          task[a].key \in runs
    /\ task[a].todo \subseteq runs
    /\ pc[a] \notin {"supersede", "closing"} => task[a].todo = {}
    /\ task[a].worst # "running"
    /\ pc[a] \notin DatedPlaces => held[a] = {}
    /\ \A g, h \in held[a] : g = h
    /\ \A h \in held[a] : HeldRow(a, h)

HeldKeys(a) == {h.key : h \in held[a]}
Busy(a) == {task[a].key} \cup task[a].todo \cup HeldKeys(a)

\* What the holder of the lease knows of the runs.
Knows(a) ==
    /\ pc[a] \in AfterEnsure \cup {"block", "blocking"} => Current(task[a].key) \notin Terminal
    /\ \A k \in task[a].todo \cup HeldKeys(a) : Current(k) \notin Terminal
    /\ pc[a] \in AfterList =>
          \A k \in runs \ Busy(a) : Current(k) \notin {"running", "failed"}
    /\ pc[a] = "closing" =>
          \A h \in held[a] : \A e \in History(h.key) :
             h.at <= e.at => e.status \notin {"running", "failed"}
    /\ pc[a] \in {"start", "starting"} => task[a].attempt = NextAttempt(task[a].key)
    /\ pc[a] = "starting" =>
          \A h \in held[a] : h.status = "running" /\ \A e \in Running(h.key) : e.at < h.at

LedgerInv ==
    /\ RowsInv /\ AttemptInv
    /\ \A a \in Actors : Placed(a) /\ (lease = a => Knows(a))

\* The newest of some rows of a run is the one get_review_run reads.
LEMMA NewestIsRead ==
  ASSUME NEW R, \A e \in R : e.at \in Nat, \A e, f \in R : e.at = f.at => e = f,
         NEW t \in R, \A f \in R : f.at <= t.at
  PROVE  (CHOOSE e \in R : \A f \in R : f.at <= e.at) = t
<1> DEFINE c == CHOOSE e \in R : \A f \in R : f.at <= e.at
<1>1. c \in R /\ \A f \in R : f.at <= c.at
  OBVIOUS
<1> HIDE DEF c
<1>2. c.at <= t.at /\ t.at <= c.at /\ c.at \in Nat /\ t.at \in Nat
  BY <1>1
<1>3. c = t
  BY <1>1, <1>2
<1> QED BY <1>3 DEF c

\* A run's status and attempts depend on its own rows only.
LEMMA SameRows ==
  ASSUME NEW k, History(k)' = History(k)
  PROVE  /\ Current(k)' = Current(k) /\ NextAttempt(k)' = NextAttempt(k)
         /\ Running(k)' = Running(k)
  BY DEF Current, NextAttempt, Running

\* A key that names no run has no rows.
LEMMA NoRun ==
  ASSUME RowsInv, NEW k, k \notin runs
  PROVE  Current(k) = "unknown"
<1>1. History(k) = {}
  BY DEF RowsInv, History
<1> QED BY <1>1 DEF Current

\* The first half of _append_status dates a row after all that are there.
LEMMA DatedRow ==
  ASSUME TypeInv, RowsInv, NEW a \in Actors, NEW k, NEW s, NEW n, NEW seen,
         Date(a, k, s, n, seen)
  PROVE  \E h : /\ held' = [held EXCEPT ![a] = {h}]
                /\ h.key = k /\ h.status = s /\ h.attempt = n
                /\ h.at \in Nat /\ \A e \in events : e.at < h.at
<1>1. PICK now \in {clock, clock + 1} :
         held' = [held EXCEPT ![a] =
                {[key |-> k, at |-> IF now > newest THEN now ELSE newest + 1, status |-> s,
                  attempt |-> n, seen |-> seen]}]
  BY DEF Date
<1> DEFINE at == IF now > newest THEN now ELSE newest + 1
           h == [key |-> k, at |-> at, status |-> s, attempt |-> n, seen |-> seen]
<1>2. at \in Nat /\ at > newest /\ newest \in Nat
  BY DEF TypeInv, TypeOK
<1>3. \A e \in events : e.at \in Nat /\ e.at <= newest
  BY DEF TypeInv, TypeOK, Event, RowsInv
<1>4. \A e \in events : e.at < at
  <2> HIDE DEF at
  <2> QED BY <1>2, <1>3
<1>5. h.key = k /\ h.status = s /\ h.attempt = n /\ h.at = at /\ held' = [held EXCEPT ![a] = {h}]
  BY <1>1
<1> HIDE DEF at, h
<1> QED BY <1>2, <1>4, <1>5

\* The second half: the status of other runs stays, and that of the run in
\* question is the row's, unless a row at least as new has come in meanwhile.
LEMMA InsertedRow ==
  ASSUME TypeInv, RowsInv, NEW a \in Actors, Insert(a), NEW h, held[a] = {h}, h.key \in runs
  PROVE  /\ RowsInv' /\ events' = events \cup {h}
         /\ \A k : k # h.key => History(k)' = History(k)
         /\ \/ Current(h.key)' = h.status
            \/ /\ Current(h.key)' = Current(h.key)
               /\ \E e \in History(h.key) : h.at <= e.at /\ e.status = Current(h.key)
<1>1. /\ events' = events \cup {h} /\ runs' = runs
      /\ newest' = IF h.at > newest THEN h.at ELSE newest
  BY DEF Insert
<1>2. h \in Event /\ h.at \in Nat /\ newest \in Nat /\ \A e \in events : e.at \in Nat
  BY DEF TypeInv, TypeOK, Event
<1>3. ASSUME NEW f \in events, f.key = h.key, f.at = h.at PROVE f = h
  <2>1. <<h, f>> \in SameDate(a)
    BY <1>3 DEF SameDate
  <2> QED BY <2>1 DEF Insert
<1>4. \A k : k # h.key => History(k)' = History(k)
  BY <1>1 DEF History
<1>5. History(h.key)' = History(h.key) \cup {h}
  BY <1>1 DEF History
<1>6. \A e, f \in events' : e.key = f.key /\ e.at = f.at => e = f
  BY <1>1, <1>3 DEF RowsInv
<1>7. \A e \in events' : e.at <= newest' /\ e.key \in runs'
  BY <1>1, <1>2 DEF RowsInv
<1>8. ASSUME NEW t \in events, IsTop(t, h.key)
      PROVE  IF t.at < h.at THEN IsTop(h, h.key)' ELSE IsTop(t, h.key)'
  BY <1>2, <1>5, <1>8 DEF IsTop, History
<1>9. IsTop(h, h.key)' \/ \E t \in events : IsTop(t, h.key) /\ IsTop(t, h.key)' /\ h.at <= t.at
  <2>1. CASE \E t \in events : IsTop(t, h.key)
    BY <1>2, <1>8, <2>1
  <2>2. CASE ~ \E t \in events : IsTop(t, h.key)
    <3>1. History(h.key) = {}
      BY <2>2 DEF RowsInv, History
    <3> QED BY <1>2, <1>5, <3>1 DEF IsTop
  <2> QED BY <2>1, <2>2
<1>10. \A e \in events' : \E t \in events' : IsTop(t, e.key)'
  <2> SUFFICES ASSUME NEW e \in events' PROVE \E t \in events' : IsTop(t, e.key)'
    OBVIOUS
  <2>1. CASE e.key = h.key
    BY <1>1, <1>9, <2>1
  <2>2. CASE e.key # h.key
    <3>1. e \in events
      BY <1>1, <2>2
    <3>2. PICK t \in events : IsTop(t, e.key)
      BY <3>1 DEF RowsInv
    <3>3. IsTop(t, e.key)'
      BY <1>4, <2>2, <3>2 DEF IsTop
    <3> QED BY <1>1, <3>3
  <2> QED BY <2>1, <2>2
<1>11. RowsInv'
  BY <1>6, <1>7, <1>10 DEF RowsInv
<1>12. ASSUME NEW t \in events', IsTop(t, h.key)' PROVE Current(h.key)' = t.status
  <2> DEFINE R == {e \in events' : e.key = h.key}
  <2>1. (CHOOSE e \in R : \A f \in R : f.at <= e.at) = t
    <3>1. /\ \A e \in R : e.at \in Nat
          /\ \A e, f \in R : e.at = f.at => e = f
          /\ t \in R /\ \A f \in R : f.at <= t.at
      BY <1>1, <1>2, <1>6, <1>12 DEF IsTop, History
    <3> HIDE DEF R
    <3> QED BY <3>1, NewestIsRead
  <2>2. t \in R /\ History(h.key)' = R
    BY <1>12 DEF IsTop, History
  <2> HIDE DEF R
  <2> QED BY <2>1, <2>2 DEF Current
<1>13. ASSUME NEW t \in events, IsTop(t, h.key) PROVE Current(h.key) = t.status
  <2> DEFINE R == {e \in events : e.key = h.key}
  <2>1. (CHOOSE e \in R : \A f \in R : f.at <= e.at) = t
    <3>1. /\ \A e \in R : e.at \in Nat
          /\ \A e, f \in R : e.at = f.at => e = f
          /\ t \in R /\ \A f \in R : f.at <= t.at
      BY <1>2, <1>13 DEF IsTop, History, RowsInv
    <3> HIDE DEF R
    <3> QED BY <3>1, NewestIsRead
  <2>2. t \in R /\ History(h.key) = R
    BY <1>13 DEF IsTop, History
  <2> HIDE DEF R
  <2> QED BY <2>1, <2>2 DEF Current
<1>14. CASE IsTop(h, h.key)'
  BY <1>1, <1>4, <1>11, <1>12, <1>14
<1>15. ASSUME NEW t \in events, IsTop(t, h.key), IsTop(t, h.key)', h.at <= t.at
       PROVE  /\ Current(h.key)' = Current(h.key)
              /\ \E e \in History(h.key) : h.at <= e.at /\ e.status = Current(h.key)
  BY <1>1, <1>12, <1>13, <1>15 DEF IsTop
<1> QED BY <1>1, <1>4, <1>9, <1>11, <1>14, <1>15

\* Attempts are counted by the rows that are running ones (attempt).
LEMMA AttemptsInserted ==
  ASSUME TypeInv, AttemptInv, NEW h \in Event, events' = events \cup {h},
         h.status = "running" =>
            h.attempt = NextAttempt(h.key) /\ \A e \in Running(h.key) : e.at < h.at
  PROVE  /\ AttemptInv'
         /\ h.status # "running" =>
              \A k : Running(k)' = Running(k) /\ NextAttempt(k)' = NextAttempt(k)
<1>1. \A k : IsFiniteSet(Running(k))
  <2>1. \A k : Running(k) \subseteq events
    BY DEF Running, History
  <2> QED BY <2>1, FS_Subset DEF TypeInv
<1>2. \A k : Cardinality(Running(k)) \in Nat
  BY <1>1, FS_CardinalityType
<1>3. \A k : NextAttempt(k) = 1 + Cardinality(Running(k))
  BY DEF NextAttempt, Running
<1>4. \A k : NextAttempt(k)' = 1 + Cardinality(Running(k)')
  BY DEF NextAttempt, Running
<1>5. CASE h.status # "running"
  <2>1. \A k : Running(k)' = Running(k)
    BY <1>5 DEF Running, History
  <2>2. AttemptInv'
    BY <1>5, <2>1 DEF AttemptInv, AttemptsInOrder
  <2> QED BY <1>3, <1>4, <2>1, <2>2
<1>6. CASE h.status = "running"
  <2>1. h \notin Running(h.key) /\ h.at \in Nat
    BY <1>6 DEF Event
  <2>2. Running(h.key)' = Running(h.key) \cup {h}
    BY <1>6 DEF Running, History
  <2>3. \A k : k # h.key => Running(k)' = Running(k)
    BY DEF Running, History
  <2>4. Cardinality(Running(h.key)') = Cardinality(Running(h.key)) + 1
    BY <1>1, <2>1, <2>2, FS_AddElement
  <2>5. /\ h.attempt = Cardinality(Running(h.key)) + 1
        /\ \A e \in Running(h.key) : e.at < h.at
        /\ \A e \in Running(h.key) : e.attempt <= Cardinality(Running(h.key))
        /\ \A e \in Running(h.key) : e.attempt \in Nat /\ e.at \in Nat
    BY <1>2, <1>3, <1>6 DEF AttemptInv, Running, History, TypeInv, TypeOK, Event
  <2>6. ASSUME NEW e \in events', e.status = "running"
        PROVE  e.attempt <= Cardinality(Running(e.key)')
    <3>1. CASE e = h
      BY <1>2, <2>4, <2>5, <3>1
    <3>2. CASE e # h
      <4>1. e \in events /\ e.attempt <= Cardinality(Running(e.key)) /\ e.attempt \in Nat
        BY <2>6, <3>2 DEF AttemptInv, TypeInv, TypeOK, Event
      <4> QED BY <1>2, <2>3, <2>4, <4>1
    <3> QED BY <3>1, <3>2
  <2>7. AttemptsInOrder'
    <3> SUFFICES ASSUME NEW e \in events', NEW f \in events', e.status = "running",
                        f.status = "running", e.key = f.key
                 PROVE  e.at < f.at <=> e.attempt < f.attempt
      BY DEF AttemptsInOrder
    <3>1. CASE e \in events /\ f \in events
      BY <3>1 DEF AttemptInv, AttemptsInOrder
    <3>2. ASSUME NEW r \in events, r.status = "running", r.key = h.key
          PROVE  r.at < h.at /\ r.attempt < h.attempt /\ ~ (h.at < r.at) /\ ~ (h.attempt < r.attempt)
      <4>1. r \in Running(h.key)
        BY <3>2 DEF Running, History
      <4>2. r.at \in Nat /\ r.attempt \in Nat /\ r.at < h.at
            /\ r.attempt <= Cardinality(Running(h.key))
        BY <2>5, <4>1
      <4> QED BY <1>2, <2>1, <2>5, <4>2
    <3>3. e = h /\ f = h => ~ (e.at < f.at) /\ ~ (e.attempt < f.attempt)
      BY <1>2, <2>1, <2>5
    <3> QED BY <3>1, <3>2, <3>3
  <2>8. AttemptInv'
    BY <2>6, <2>7 DEF AttemptInv
  <2> QED BY <1>6, <2>8
<1> QED BY <1>5, <1>6

\* How a step of a may change the holder: a takes a free lease, or frees its own.
LeaseMoves(a) ==
    \/ lease' = lease
    \/ lease = NoOne /\ lease' = a
    \/ lease = a /\ lease' = NoOne

\* Whoever does not move stays where it is.
LEMMA OthersPlaced ==
  ASSUME NEW a \in Actors, NEW b \in Actors, b # a, Moves(a), LeaseMoves(a),
         runs \subseteq runs', Placed(b)
  PROVE  Placed(b)'
<1>1. task'[b] = task[b] /\ pc'[b] = pc[b] /\ held'[b] = held[b]
  BY DEF Moves
<1>2. lease = b => lease' = b
  BY CatchUpConstants DEF LeaseMoves
<1>3. \A h \in held[b] : HeldRow(b, h) => HeldRow(b, h)'
  BY <1>1 DEF HeldRow
<1> QED BY <1>1, <1>2, <1>3 DEF Placed

\* A step of a that inserts no row.
LEMMA QuietStep ==
  ASSUME TypeInv, LedgerInv, NEW a \in Actors, Moves(a), LeaseMoves(a),
         UNCHANGED <<events, newest>>, runs \subseteq runs',
         Placed(a)', lease' = a => Knows(a)'
  PROVE  LedgerInv'
<1>1. \A k : History(k)' = History(k)
  BY DEF History
<1>2. \A k : /\ Current(k)' = Current(k) /\ NextAttempt(k)' = NextAttempt(k)
             /\ Running(k)' = Running(k)
  BY <1>1, SameRows
<1>3. RowsInv'
  BY <1>1 DEF LedgerInv, RowsInv, IsTop
<1>4. AttemptInv'
  BY <1>2 DEF LedgerInv, AttemptInv, AttemptsInOrder
<1>5. ASSUME NEW b \in Actors, b # a PROVE Placed(b)' /\ (lease' = b => Knows(b)')
  <2>1. Placed(b)'
    BY <1>5, OthersPlaced DEF LedgerInv
  <2>2. ASSUME lease' = b PROVE Knows(b)'
    <3>1. lease = b /\ Knows(b)
      BY <1>5, <2>2, CatchUpConstants DEF LeaseMoves, LedgerInv
    <3>2. task'[b] = task[b] /\ pc'[b] = pc[b] /\ held'[b] = held[b]
      BY <1>5 DEF Moves
    <3>3. HeldKeys(b)' = HeldKeys(b) /\ Busy(b)' = Busy(b)
      BY <3>2 DEF HeldKeys, Busy
    <3>4. \A k \in runs' \ runs : Current(k) = "unknown"
      BY NoRun DEF LedgerInv
    <3> QED BY <1>1, <1>2, <3>1, <3>2, <3>3, <3>4 DEF Knows
  <2> QED BY <2>1, <2>2
<1> QED BY <1>3, <1>4, <1>5 DEF LedgerInv

\* A step of a that inserts a row: under the lease, or a queued one.
LEMMA InsertStep ==
  ASSUME TypeInv, LedgerInv, NEW a \in Actors, Moves(a), LeaseMoves(a),
         Insert(a), NEW h, held[a] = {h}, lease = a \/ h.status = "queued",
         Placed(a)', lease' = a => Knows(a)'
  PROVE  LedgerInv'
<1>0. /\ h \in Event /\ RowsInv /\ AttemptInv /\ h.key \in runs /\ HeldRow(a, h)
      /\ runs' = runs
  BY DEF TypeInv, TypeOK, LedgerInv, Placed, HeldRow, Insert
<1>1. /\ RowsInv' /\ events' = events \cup {h}
      /\ \A k : k # h.key => History(k)' = History(k)
      /\ \/ Current(h.key)' = h.status
         \/ Current(h.key)' = Current(h.key)
  BY <1>0, InsertedRow
<1>2. h.status = "running" =>
         h.attempt = NextAttempt(h.key) /\ \A e \in Running(h.key) : e.at < h.at
  BY <1>0 DEF LedgerInv, HeldRow, Knows
<1>3. /\ AttemptInv'
      /\ h.status # "running" =>
           \A k : Running(k)' = Running(k) /\ NextAttempt(k)' = NextAttempt(k)
  BY <1>0, <1>1, <1>2, AttemptsInserted
<1>4. \A k : k # h.key => Current(k)' = Current(k)
  BY <1>1, SameRows
<1>5. ASSUME NEW b \in Actors, b # a PROVE Placed(b)' /\ (lease' = b => Knows(b)')
  <2>1. Placed(b)'
    BY <1>0, <1>5, OthersPlaced DEF LedgerInv
  <2>2. ASSUME lease' = b PROVE Knows(b)'
    <3>1. lease = b /\ Knows(b) /\ h.status = "queued"
      BY <1>5, <2>2, CatchUpConstants DEF LeaseMoves, LedgerInv
    <3>2. task'[b] = task[b] /\ pc'[b] = pc[b] /\ held'[b] = held[b]
      BY <1>5 DEF Moves
    <3>3. HeldKeys(b)' = HeldKeys(b) /\ Busy(b)' = Busy(b)
      BY <3>2 DEF HeldKeys, Busy
    <3>4. \A k : Current(k)' = Current(k) \/ Current(k)' = "queued"
      BY <1>1, <1>4, <3>1
    <3>5. "queued" \notin Terminal
      BY DEF Terminal, Completed
    <3>6. \A k : Running(k)' = Running(k) /\ NextAttempt(k)' = NextAttempt(k)
      BY <1>3, <3>1
    <3>7. \A k : \A e \in History(k)' : e \in History(k) \/ e.status = "queued"
      BY <1>1, <3>1 DEF History
    <3> QED BY <1>0, <3>1, <3>2, <3>3, <3>4, <3>5, <3>6, <3>7 DEF Knows
  <2> QED BY <2>1, <2>2
<1> QED BY <1>1, <1>3, <1>5 DEF LedgerInv

\* A call that ends has nothing in hand (_lease's __exit__).
LEMMA LeftPlace ==
  ASSUME TypeOK, NEW a \in Actors, Leave(a)
  PROVE  Moves(a) /\ LeaseMoves(a) /\ Placed(a)' /\ lease' # a
<1>1. Moves(a) /\ task'[a] = NoTask /\ pc'[a] = "idle" /\ held'[a] = {}
  BY DEF Leave, GoTo, Moves, TypeOK
<1>2. LeaseMoves(a) /\ lease' # a
  BY CatchUpConstants DEF Leave, Freed, LeaseMoves
<1>3. Placed(a)'
  BY <1>1 DEF Placed, NoTask, CyclePlaces, BlockPlaces, AfterEnsure, DatedPlaces
<1> QED BY <1>1, <1>2, <1>3

\* A row that is inserted is the one row its actor has dated.
LEMMA TheRow ==
  ASSUME LedgerInv, NEW a \in Actors, Insert(a)
  PROVE  \E h : held[a] = {h} /\ h.key \in runs /\ HeldRow(a, h)
<1>1. PICK h \in held[a] : TRUE
  BY DEF Insert
<1>2. held[a] = {h} /\ HeldRow(a, h)
  BY <1>1 DEF LedgerInv, Placed
<1> QED BY <1>2 DEF HeldRow

\* Before the plan is made, and when the lease is taken to block, an actor
\* knows nothing of the runs.
LEMMA BeforePlan ==
  ASSUME TypeInv, LedgerInv, NEW a \in Actors, Moves(a), LeaseMoves(a),
         UNCHANGED <<events, newest, runs>>,
         NEW l \in {"sync", "enqueue", "plan", "project", "list", "ensure", "recheck"},
         pc'[a] = l, held'[a] = {}, task'[a].todo = {}, task'[a].worst # "running",
         l = "list" => lease' = a, l = "ensure" => lease' # a,
         l = "recheck" => a \in Consumers /\ task'[a].key \in runs
  PROVE  LedgerInv'
<1>1. Placed(a)'
  BY DEF Placed, CyclePlaces, BlockPlaces, AfterEnsure, DatedPlaces
<1>2. lease' = a => Knows(a)'
  BY DEF Knows, AfterEnsure, AfterList, CyclePlaces, HeldKeys
<1> QED BY <1>1, <1>2, QuietStep

\* From the stale runs that were closed to the cycle's end: whoever has the
\* lease keeps knowing that no other run is running or failed.
LEMMA UnderWay ==
  ASSUME TypeInv, LedgerInv, NEW a \in Actors, Moves(a), lease' = lease,
         UNCHANGED <<events, newest>>,
         runs' = runs \/ (runs' = runs \cup {task[a].key}),
         pc[a] \in AfterList, held[a] = {}, task[a].todo = {},
         NEW l \in AfterList \ (DatedPlaces \cup {"supersede"}), pc'[a] = l,
         held'[a] = {}, task'[a].todo = {}, task'[a].worst # "running",
         task'[a].key = task[a].key,
         l \in {"created", "found"} \cup AfterEnsure => task[a].key \in runs',
         l \in AfterEnsure => Current(task[a].key) \notin Terminal \/ lease # a,
         l \in CyclePlaces => a \in Consumers,
         l = "start" => task'[a].attempt = NextAttempt(task[a].key)
  PROVE  LedgerInv'
<1>1. Placed(a)'
  BY DEF Placed, BlockPlaces, AfterList, AfterEnsure, DatedPlaces, CyclePlaces
<1>2. \A k : History(k)' = History(k)
  BY DEF History
<1>3. \A k : Current(k)' = Current(k) /\ NextAttempt(k)' = NextAttempt(k)
  BY <1>2, SameRows
<1>4. ASSUME lease = a PROVE Knows(a)'
  <2>1. \A k \in runs \ {task[a].key} : Current(k) \notin {"running", "failed"}
    BY <1>4 DEF LedgerInv, Knows, Busy, HeldKeys
  <2>2. l \in AfterEnsure \cup {"block", "blocking"} => Current(task[a].key)' \notin Terminal
    BY <1>3, <1>4 DEF AfterList, AfterEnsure, CyclePlaces
  <2>3. HeldKeys(a)' = {} /\ Busy(a)' = {task[a].key}
    BY DEF HeldKeys, Busy
  <2>4. \A k \in runs' \ Busy(a)' : Current(k)' \notin {"running", "failed"}
    BY <1>3, <2>1, <2>3
  <2>5. l # "starting" /\ l # "closing"
    BY DEF DatedPlaces
  <2> QED BY <1>3, <2>2, <2>3, <2>4, <2>5 DEF Knows
<1>5. LeaseMoves(a)
  BY DEF LeaseMoves
<1> QED BY <1>1, <1>4, <1>5, QuietStep

\* The run a row is dated for has not changed but for queued rows
\* (_append_status's first half).
LEMMA DatedStep ==
  ASSUME TypeInv, LedgerInv, NEW a \in Actors,
         NEW s, NEW n, NEW seen, Date(a, task[a].key, s, n, seen),
         UNCHANGED <<events, newest, runs, lease, task>>,
         NEW l \in {"queueing", "starting", "finishing", "blocking"}, GoTo(a, l),
         pc[a] = CASE l = "queueing" -> "queue" [] l = "starting" -> "start"
                   [] l = "finishing" -> "final" [] l = "blocking" -> "block",
         l = "queueing" => s = "queued",
         l = "starting" <=> s = "running", l = "starting" => n = task[a].attempt
  PROVE  LedgerInv'
<1>1. PICK h : /\ held' = [held EXCEPT ![a] = {h}]
               /\ h.key = task[a].key /\ h.status = s /\ h.attempt = n
               /\ \A e \in events : e.at < h.at
  BY DatedRow DEF LedgerInv
<1>2. Moves(a) /\ pc'[a] = l /\ held'[a] = {h} /\ task' = task /\ LeaseMoves(a)
  BY <1>1 DEF GoTo, Moves, LeaseMoves, TypeInv, TypeOK
<1>3. pc[a] \in {"queue", "start", "final", "block"} /\ Placed(a)
  BY DEF LedgerInv
<1>4. /\ task[a].key \in runs /\ task[a].todo = {}
      /\ l # "queueing" => a \in Consumers
  BY <1>3 DEF Placed, AfterEnsure, BlockPlaces, CyclePlaces
<1>5. Placed(a)'
  BY <1>1, <1>2, <1>3, <1>4 DEF Placed, HeldRow, CyclePlaces, BlockPlaces, AfterEnsure, DatedPlaces
<1>6. \A k : History(k)' = History(k)
  BY DEF History
<1>7. \A k : /\ Current(k)' = Current(k) /\ NextAttempt(k)' = NextAttempt(k)
             /\ Running(k)' = Running(k)
  BY <1>6, SameRows
<1>8. ASSUME lease = a PROVE Knows(a)'
  <2>1. Current(task[a].key) \notin Terminal
    BY <1>3, <1>8 DEF LedgerInv, Knows, AfterEnsure, CyclePlaces
  <2>2. HeldKeys(a)' = {task[a].key} /\ Busy(a)' = {task[a].key}
    BY <1>1, <1>2, <1>4 DEF HeldKeys, Busy
  <2>3. l \in AfterList => \A k \in runs \ {task[a].key} : Current(k) \notin {"running", "failed"}
    <3>1. held[a] = {}
      BY <1>3 DEF Placed, DatedPlaces
    <3>2. l \in AfterList => pc[a] \in AfterList
      BY DEF AfterList, AfterEnsure, CyclePlaces
    <3> QED BY <1>4, <1>8, <3>1, <3>2 DEF LedgerInv, Knows, Busy, HeldKeys
  <2>4. l = "starting" => task[a].attempt = NextAttempt(task[a].key)
    BY <1>8 DEF LedgerInv, Knows
  <2>5. \A e \in Running(h.key)' : e.at < h.at
    BY <1>1 DEF Running, History
  <2> QED BY <1>1, <1>2, <1>4, <1>7, <2>1, <2>2, <2>3, <2>4, <2>5 DEF Knows
<1> QED BY <1>2, <1>5, <1>8, QuietStep

\* Closing a stale run leaves it blocked, or queued by a producer that came in
\* without the lease (_supersede_stale_pending).
LEMMA ClosingStep ==
  ASSUME TypeInv, LedgerInv, NEW a \in Actors, InsertClosing(a)
  PROVE  LedgerInv'
<1>1. /\ pc[a] = "closing" /\ Insert(a) /\ runs' = runs
      /\ UNCHANGED <<lease, task>> /\ lease = a /\ Knows(a) /\ Placed(a)
  BY DEF InsertClosing, Insert, LedgerInv, Placed
<1>2. PICK h : held[a] = {h} /\ h.key \in runs /\ HeldRow(a, h)
  BY <1>1, TheRow
<1>3. Moves(a) /\ pc'[a] = "supersede" /\ held'[a] = {} /\ LeaseMoves(a)
  BY <1>1 DEF InsertClosing, GoTo, Moves, LeaseMoves, TypeInv, TypeOK
<1>4. Placed(a)'
  BY <1>1, <1>3 DEF Placed, CyclePlaces, BlockPlaces, AfterEnsure, DatedPlaces
<1>5. /\ \A k : k # h.key => Current(k)' = Current(k)
      /\ \/ Current(h.key)' = "blocked"
         \/ \E e \in History(h.key) : h.at <= e.at /\ e.status = Current(h.key)'
  BY <1>1, <1>2, InsertedRow, SameRows DEF LedgerInv, HeldRow
<1>6. Current(h.key)' \notin {"running", "failed"}
  BY <1>1, <1>2, <1>5 DEF Knows
<1>7. h.key \notin task[a].todo
  BY <1>1, <1>2 DEF HeldRow
<1>8. Knows(a)'
  <2>1. HeldKeys(a)' = {} /\ Busy(a)' = {task[a].key} \cup task[a].todo
    BY <1>1, <1>3 DEF HeldKeys, Busy
  <2>2. \A k \in task[a].todo : Current(k)' \notin Terminal
    BY <1>1, <1>5, <1>7 DEF Knows
  <2>3. \A k \in runs \ Busy(a)' : Current(k)' \notin {"running", "failed"}
    <3>1. \A k \in runs \ Busy(a) : Current(k) \notin {"running", "failed"}
      BY <1>1 DEF Knows, AfterList
    <3>2. Busy(a) = Busy(a)' \cup {h.key}
      BY <1>2, <2>1 DEF Busy, HeldKeys
    <3> QED BY <1>5, <1>6, <3>1, <3>2
  <2> QED BY <1>1, <1>3, <2>1, <2>2, <2>3 DEF Knows, AfterEnsure, CyclePlaces
<1> QED BY <1>1, <1>2, <1>3, <1>4, <1>8, InsertStep

\* A call that goes on after its row is in: of the run it is about, the status
\* is that row's or what producers without the lease have made of it.
LEMMA GoesOnStep ==
  ASSUME TypeInv, LedgerInv, NEW a \in Consumers, Insert(a), Moves(a), lease = a,
         pc[a] \in {"queueing", "starting"}, lease' = a,
         NEW l \in {"start", "scopes", "final"}, pc'[a] = l, held'[a] = {},
         task'[a].key = task[a].key, task'[a].todo = task[a].todo,
         task'[a].worst # "running",
         l = "start" => pc[a] = "queueing" /\ task'[a].attempt = NextAttempt(task[a].key)
  PROVE  LedgerInv'
<1>1. /\ a \in Actors /\ Knows(a) /\ Placed(a) /\ LeaseMoves(a) /\ runs' = runs
      /\ RowsInv /\ AttemptInv /\ events' = events \cup held[a] /\ held[a] \subseteq Event
  BY DEF Actors, LedgerInv, LeaseMoves, Insert, TypeInv, TypeOK
<1>2. PICK h : held[a] = {h} /\ h.key \in runs /\ HeldRow(a, h)
  BY <1>1, TheRow
<1>3. /\ h.key = task[a].key /\ task[a].todo = {}
      /\ task[a].key \in runs
      /\ h.status = IF pc[a] = "queueing" THEN "queued" ELSE "running"
  BY <1>1, <1>2 DEF HeldRow, Placed, AfterEnsure, Knows
<1>4. Placed(a)'
  BY <1>1, <1>3 DEF Placed, CyclePlaces, BlockPlaces, AfterEnsure, DatedPlaces
<1>5. /\ \A k : k # h.key => Current(k)' = Current(k)
      /\ Current(h.key)' = h.status \/ Current(h.key)' = Current(h.key)
  BY <1>1, <1>2, InsertedRow, SameRows
<1>6. Current(task[a].key)' \notin Terminal
  <2>1. Current(task[a].key) \notin Terminal
    BY <1>1 DEF Knows, AfterEnsure, CyclePlaces
  <2> QED BY <1>3, <1>5, <2>1 DEF Terminal, Completed
<1>7. l = "start" => NextAttempt(task[a].key)' = NextAttempt(task[a].key)
  <2> SUFFICES ASSUME l = "start" PROVE NextAttempt(task[a].key)' = NextAttempt(task[a].key)
    OBVIOUS
  <2>1. h.status = "queued"
    BY <1>3
  <2> QED BY <1>1, <1>2, <2>1, AttemptsInserted
<1>8. Knows(a)'
  <2>1. HeldKeys(a)' = {} /\ Busy(a)' = {task[a].key} /\ Busy(a) = {task[a].key}
    BY <1>2, <1>3 DEF HeldKeys, Busy
  <2>2. \A k \in runs \ {task[a].key} : Current(k)' \notin {"running", "failed"}
    BY <1>1, <1>3, <1>5, <2>1 DEF Knows, AfterList, AfterEnsure, CyclePlaces
  <2> QED BY <1>1, <1>3, <1>6, <1>7, <2>1, <2>2 DEF Knows
<1> QED BY <1>1, <1>2, <1>4, <1>8, InsertStep

\* A call that ends with the insert of its row.
LEMMA EndsWithRow ==
  ASSUME TypeInv, LedgerInv, NEW a \in Actors, Insert(a), Leave(a),
         lease = a \/ pc[a] = "queueing"
  PROVE  LedgerInv'
<1>1. PICK h : held[a] = {h} /\ h.key \in runs /\ HeldRow(a, h)
  BY TheRow
<1>2. lease = a \/ h.status = "queued"
  BY <1>1 DEF HeldRow
<1>3. Moves(a) /\ LeaseMoves(a) /\ Placed(a)' /\ lease' # a
  BY LeftPlace DEF TypeInv
<1> QED BY <1>1, <1>2, <1>3, InsertStep

\* A call that ends without one.
LEMMA EndsQuietly ==
  ASSUME TypeInv, LedgerInv, NEW a \in Actors, Leave(a),
         UNCHANGED <<events, newest>>, runs \subseteq runs'
  PROVE  LedgerInv'
<1>1. Moves(a) /\ LeaseMoves(a) /\ Placed(a)' /\ lease' # a
  BY LeftPlace DEF TypeInv
<1> QED BY <1>1, QuietStep

\* The pending runs about another input are listed: what is not in the list
\* is not running and not failed (_supersede_stale_pending).
LEMMA ListingStep ==
  ASSUME TypeInv, LedgerInv, NEW a \in Actors, ListStale(a)
  PROVE  LedgerInv'
<1>1. /\ pc[a] = "list" /\ Placed(a) /\ lease = a /\ held[a] = {}
      /\ UNCHANGED <<runs, events, newest, lease, held>>
  BY DEF ListStale, ledger, LedgerInv, Placed, DatedPlaces
<1>2. /\ Moves(a) /\ LeaseMoves(a) /\ pc'[a] = "supersede"
      /\ task'[a].todo = Stale(task[a].key) /\ task'[a].key = task[a].key
      /\ task'[a].worst = task[a].worst
  BY <1>1 DEF ListStale, GoTo, Moves, LeaseMoves, TypeInv, TypeOK, Task
<1>3. Placed(a)'
  BY <1>1, <1>2 DEF Placed, Stale, CyclePlaces, BlockPlaces, AfterEnsure, DatedPlaces
<1>4. \A k : History(k)' = History(k)
  BY <1>1 DEF History
<1>5. \A k : Current(k)' = Current(k)
  BY <1>4, SameRows
<1>6. Knows(a)'
  <2>1. \A k \in Stale(task[a].key) : Current(k) \notin Terminal
    BY DEF Stale, Pending, Terminal, Completed
  <2>2. \A k \in runs \ ({task[a].key} \cup Stale(task[a].key)) : Current(k) \notin {"running", "failed"}
    BY DEF Stale, Pending
  <2> QED BY <1>1, <1>2, <1>5, <2>1, <2>2
          DEF Knows, HeldKeys, Busy, AfterEnsure, CyclePlaces
<1> QED BY <1>1, <1>2, <1>3, <1>6, QuietStep

\* One of them is taken off the list and dated.
LEMMA PickStep ==
  ASSUME TypeInv, LedgerInv, NEW a \in Actors, DateClosing(a)
  PROVE  LedgerInv'
<1>1. /\ pc[a] = "supersede" /\ Placed(a) /\ Knows(a) /\ lease = a /\ held[a] = {}
      /\ UNCHANGED <<runs, events, newest, lease>>
  BY DEF DateClosing, LedgerInv, Placed, DatedPlaces
<1>2. PICK k \in task[a].todo : /\ Date(a, k, "blocked", 0, {})
                                /\ task' = [task EXCEPT ![a].todo = @ \ {k}]
  BY DEF DateClosing
<1>3. PICK h : /\ held' = [held EXCEPT ![a] = {h}] /\ h.key = k /\ h.status = "blocked"
               /\ h.at \in Nat /\ \A e \in events : e.at < h.at
  BY <1>2, DatedRow DEF LedgerInv
<1>4. /\ Moves(a) /\ LeaseMoves(a) /\ pc'[a] = "closing" /\ held'[a] = {h}
      /\ task'[a].todo = task[a].todo \ {k} /\ task'[a].key = task[a].key
      /\ task'[a].worst = task[a].worst
  BY <1>1, <1>2, <1>3 DEF DateClosing, GoTo, Moves, LeaseMoves, TypeInv, TypeOK, Task
<1>5. Placed(a)'
  BY <1>1, <1>3, <1>4 DEF Placed, HeldRow, CyclePlaces, BlockPlaces, AfterEnsure, DatedPlaces
<1>6. \A r : History(r)' = History(r)
  BY <1>1 DEF History
<1>7. \A r : Current(r)' = Current(r)
  BY <1>6, SameRows
<1>8. Knows(a)'
  <2>1. HeldKeys(a)' = {k} /\ HeldKeys(a) = {}
    BY <1>1, <1>3, <1>4 DEF HeldKeys
  <2>2. Busy(a)' = Busy(a)
    BY <1>2, <1>4, <2>1 DEF Busy
  <2>3. \A e \in History(h.key) : ~ (h.at <= e.at)
    <3>1. \A e \in events : e.at \in Nat
      BY DEF TypeInv, TypeOK, Event
    <3> QED BY <1>3, <3>1 DEF History
  <2> QED BY <1>1, <1>2, <1>4, <1>6, <1>7, <2>1, <2>2, <2>3
          DEF Knows, AfterEnsure, AfterList, CyclePlaces
<1> QED BY <1>1, <1>4, <1>5, <1>8, QuietStep

\* Each step keeps what is known of the runs: whoever reads under the lease and
\* writes later writes what is still true (run_once, enqueue, _append_status).
LEMMA LedgerStep ==
  ASSUME TypeInv, LeaseInv, LedgerInv, [Next]_vars
  PROVE  LedgerInv'
<1>0. TypeOK
  BY DEF TypeInv
<1>u. CASE UNCHANGED vars
  <2>1. \A k : History(k)' = History(k)
    BY <1>u DEF vars, History
  <2>2. \A k : /\ Current(k)' = Current(k) /\ NextAttempt(k)' = NextAttempt(k)
               /\ Running(k)' = Running(k)
    BY <2>1, SameRows
  <2>3. RowsInv' /\ AttemptInv'
    BY <1>u, <2>1, <2>2 DEF vars, LedgerInv, RowsInv, IsTop, AttemptInv, AttemptsInOrder
  <2>4. \A a \in Actors : Placed(a)' /\ (lease' = a => Knows(a)')
    BY <1>u, <2>1, <2>2 DEF vars, LedgerInv, Placed, HeldRow, Knows, HeldKeys, Busy
  <2> QED BY <2>3, <2>4 DEF LedgerInv
<1>w. \A a \in Actors : Placed(a) /\ (lease = a => Knows(a)) /\ task[a] \in Task
  BY <1>0 DEF LedgerInv, TypeOK
<1>a. ASSUME NEW a \in Actors, PlanStep(a) PROVE LedgerInv'
  <2>1. CASE Reconcile(a)
    <3>1. /\ Moves(a) /\ LeaseMoves(a) /\ pc'[a] = "project" /\ held' = held
          /\ task'[a].todo = task[a].todo /\ task'[a].worst = task[a].worst
          /\ UNCHANGED <<events, newest, runs>> /\ pc[a] = "plan"
      BY <1>0, <2>1 DEF Reconcile, GoTo, Moves, LeaseMoves, TypeOK, Task, ledger
    <3> QED BY <1>w, <3>1, BeforePlan DEF Placed, DatedPlaces
  <2>2. CASE Project(a)
    <3>1. /\ Moves(a) /\ LeaseMoves(a) /\ held' = held /\ lease' = lease
          /\ pc'[a] = IF lease = a THEN "list" ELSE "ensure"
          /\ task'[a].todo = task[a].todo /\ task'[a].worst = task[a].worst
          /\ UNCHANGED <<events, newest, runs>> /\ pc[a] = "project"
      BY <1>0, <2>2 DEF Project, GoTo, Moves, LeaseMoves, TypeOK, Task, ledger
    <3> QED BY <1>w, <3>1, BeforePlan DEF Placed, DatedPlaces
  <2>3. CASE ListStale(a)
    BY <2>3, ListingStep
  <2>4. CASE DateClosing(a)
    BY <2>4, PickStep
  <2>5. CASE InsertClosing(a)
    BY <2>5, ClosingStep
  <2>6. CASE StaleClosed(a)
    <3>1. /\ Moves(a) /\ lease' = lease /\ held' = held /\ task' = task
          /\ UNCHANGED <<events, newest, runs>> /\ pc[a] = "supersede" /\ pc'[a] = "ensure"
      BY <1>0, <2>6 DEF StaleClosed, GoTo, Moves, TypeOK, ledger
    <3>2. held[a] = {} /\ task[a].todo = {} /\ task[a].worst # "running"
      BY <1>w, <2>6 DEF StaleClosed, Placed, DatedPlaces
    <3> QED BY <3>1, <3>2, UnderWay DEF AfterList, AfterEnsure, CyclePlaces, DatedPlaces
  <2>7. ASSUME NEW created \in BOOLEAN, Decide(a, created), UNCHANGED ledger,
               pc[a] \in {"ensure", "created", "found"}, task[a].key \in runs
        PROVE  LedgerInv'
    <3>0. /\ held[a] = {} /\ task[a].todo = {} /\ task[a].worst # "running"
          /\ UNCHANGED <<events, newest, runs>>
      BY <1>w, <2>7 DEF Placed, DatedPlaces, ledger
    <3>1. CASE Leave(a)
      BY <3>0, <3>1, EndsQuietly
    <3>2. CASE /\ Current(task[a].key) \notin Terminal
               /\ GoTo(a, "queue") /\ UNCHANGED <<lease, task, held>>
      <4>1. Moves(a) /\ pc'[a] = "queue"
        BY <1>0, <3>2 DEF GoTo, Moves, TypeOK
      <4> QED BY <2>7, <3>0, <3>2, <4>1, UnderWay
              DEF AfterList, AfterEnsure, CyclePlaces, DatedPlaces
    <3>3. CASE /\ Current(task[a].key) \in {"queued", "running"} /\ a \in Consumers
               /\ GoTo(a, "start") /\ UNCHANGED <<lease, held>>
               /\ task' = [task EXCEPT ![a].attempt = NextAttempt(task[a].key)]
      <4>1. /\ Moves(a) /\ pc'[a] = "start" /\ task'[a].key = task[a].key
            /\ task'[a].todo = task[a].todo /\ task'[a].worst = task[a].worst
            /\ task'[a].attempt = NextAttempt(task[a].key)
        BY <1>0, <3>3 DEF GoTo, Moves, TypeOK, Task
      <4>2. Current(task[a].key) \notin Terminal
        BY <3>3 DEF Terminal, Completed
      <4> QED BY <2>7, <3>0, <3>3, <4>1, <4>2, UnderWay
              DEF AfterList, AfterEnsure, CyclePlaces, DatedPlaces
    <3> QED BY <2>7, <3>1, <3>2, <3>3 DEF Decide
  <2>8. CASE Ensure(a)
    <3>1. CASE task[a].key \in runs
      BY <2>7, <2>8, <3>1 DEF Ensure
    <3>2. CASE GoTo(a, "create") /\ UNCHANGED <<lease, task, held>>
      <4>1. /\ Moves(a) /\ pc'[a] = "create" /\ pc[a] = "ensure"
            /\ UNCHANGED <<events, newest, runs>>
        BY <1>0, <2>8, <3>2 DEF Ensure, GoTo, Moves, TypeOK, ledger
      <4>2. held[a] = {} /\ task[a].todo = {} /\ task[a].worst # "running"
        BY <1>w, <4>1 DEF Placed, DatedPlaces
      <4> QED BY <3>2, <4>1, <4>2, UnderWay DEF AfterList, AfterEnsure, CyclePlaces, DatedPlaces
    <3> QED BY <2>8, <3>1, <3>2 DEF Ensure
  <2>9. CASE Create(a)
    <3>0. /\ pc[a] = "create" /\ runs' = runs \cup {task[a].key}
          /\ UNCHANGED <<events, newest>>
      BY <2>9 DEF Create
    <3>1. CASE Leave(a)
      BY <3>0, <3>1, EndsQuietly
    <3>2. CASE /\ GoTo(a, IF task[a].key \in runs THEN "found" ELSE "created")
               /\ UNCHANGED <<lease, task, held>>
      <4>1. Moves(a) /\ pc'[a] \in {"found", "created"}
        BY <1>0, <3>2 DEF GoTo, Moves, TypeOK
      <4>2. held[a] = {} /\ task[a].todo = {} /\ task[a].worst # "running"
        BY <1>w, <3>0 DEF Placed, DatedPlaces
      <4> QED BY <3>0, <3>2, <4>1, <4>2, UnderWay
              DEF AfterList, AfterEnsure, CyclePlaces, DatedPlaces
    <3> QED BY <2>9, <3>1, <3>2 DEF Create
  <2>10. CASE ReadBack(a)
    <3>1. task[a].key \in runs
      BY <1>w, <2>10 DEF ReadBack, Placed
    <3> QED BY <2>7, <2>10, <3>1 DEF ReadBack
  <2>11. CASE DateQueued(a)
    BY <2>11, DatedStep DEF DateQueued
  <2>12. CASE InsertQueued(a)
    <3>0. Insert(a) /\ pc[a] = "queueing"
      BY <2>12 DEF InsertQueued
    <3>1. CASE Leave(a)
      BY <3>0, <3>1, EndsWithRow
    <3>2. CASE /\ a \in Consumers /\ GoTo(a, "start") /\ held' = [held EXCEPT ![a] = {}]
               /\ task' = [task EXCEPT ![a].attempt = NextAttempt(task[a].key)]
               /\ UNCHANGED lease
      <4>1. /\ Moves(a) /\ pc'[a] = "start" /\ held'[a] = {} /\ task'[a].key = task[a].key
            /\ task'[a].todo = task[a].todo /\ task'[a].worst = task[a].worst
            /\ task'[a].attempt = NextAttempt(task[a].key)
        BY <1>0, <3>2 DEF GoTo, Moves, TypeOK, Task
      <4>2. lease = a /\ lease' = a /\ task[a].worst # "running"
        BY <1>w, <3>0, <3>2 DEF LeaseInv, Placed
      <4> QED BY <3>0, <3>2, <4>1, <4>2, GoesOnStep
    <3> QED BY <2>12, <3>1, <3>2 DEF InsertQueued
  <2>13. CASE InsertRefused(a)
    BY <2>13, EndsQuietly DEF InsertRefused, ledger
  <2> QED BY <1>a, <2>1, <2>2, <2>3, <2>4, <2>5, <2>6, <2>8, <2>9, <2>10, <2>11, <2>12, <2>13
          DEF PlanStep
<1>b. ASSUME NEW a \in Actors, Abort(a) PROVE LedgerInv'
  BY <1>b, EndsQuietly DEF Abort, ledger
<1>c. ASSUME NEW c \in Consumers, CycleStep(c) PROVE LedgerInv'
  <2> c \in Actors
    BY DEF Actors
  <2>0. pc[c] \notin {"idle", "drifted"} => lease = c
    BY DEF LeaseInv
  <2>p. Placed(c) /\ (lease = c => Knows(c))
    BY <1>w
  <2>1. CASE Acquire(c)
    <3>1. /\ Moves(c) /\ LeaseMoves(c) /\ pc'[c] = "plan" /\ held' = held /\ task' = task
          /\ UNCHANGED <<events, newest, runs>> /\ pc[c] = "idle"
      BY <1>0, <2>1 DEF Acquire, GoTo, Moves, LeaseMoves, TypeOK, ledger
    <3> QED BY <2>p, <3>1, BeforePlan DEF Placed, DatedPlaces
  <2>2. CASE DateRunning(c)
    BY <2>2, DatedStep DEF DateRunning
  <2>3. CASE InsertRunning(c)
    <3>1. /\ Insert(c) /\ Moves(c) /\ pc[c] = "starting" /\ pc'[c] \in {"scopes", "final"}
          /\ held'[c] = {} /\ lease' = lease
          /\ task'[c].key = task[c].key /\ task'[c].todo = task[c].todo
          /\ task'[c].worst = task[c].worst \/ task'[c].worst = "blocked"
      BY <1>0, <2>3 DEF InsertRunning, GoTo, Moves, TypeOK, Task
    <3> QED BY <2>0, <2>p, <3>1, GoesOnStep DEF Placed
  <2>c. ASSUME NEW l \in {"scopes", "compare", "final"}, pc'[c] = l,
               pc[c] \in {"scopes", "compare"}, Moves(c), UNCHANGED <<ledger, lease, held>>,
               task'[c].key = task[c].key, task'[c].todo = task[c].todo,
               task'[c].worst # "running"
        PROVE  LedgerInv'
    <3>1. held[c] = {} /\ task[c].todo = {} /\ task[c].key \in runs
      BY <2>c, <2>p DEF Placed, DatedPlaces, AfterEnsure, CyclePlaces
    <3>2. Current(task[c].key) \notin Terminal
      BY <2>0, <2>c, <2>p DEF Knows, AfterEnsure, CyclePlaces
    <3> QED BY <2>c, <3>1, <3>2, UnderWay
            DEF ledger, AfterList, AfterEnsure, CyclePlaces, DatedPlaces
  <2>4. CASE RunScope(c)
    <3>1. PICK result \in ScopeResults : task' = [task EXCEPT ![c] = AfterScope(task[c], result)]
      BY <2>4 DEF RunScope
    <3>2. /\ Moves(c) /\ task'[c].key = task[c].key /\ task'[c].todo = task[c].todo
          /\ task'[c].worst = Worse(task[c].worst, result)
      <4>1. Moves(c) /\ task'[c] = AfterScope(task[c], result)
        BY <1>0, <2>4, <3>1 DEF RunScope, Moves, TypeOK
      <4>2. task[c] \in Task
        BY <1>w
      <4>3. \A n, w, v : [task[c] EXCEPT !.done = n, !.worst = w, !.seen = v].key = task[c].key
        BY <4>2 DEF Task
      <4>4. \A n, w, v : [task[c] EXCEPT !.done = n, !.worst = w, !.seen = v].todo = task[c].todo
        BY <4>2 DEF Task
      <4>5. \A n, w, v : [task[c] EXCEPT !.done = n, !.worst = w, !.seen = v].worst = w
        BY <4>2 DEF Task
      <4> QED BY <4>1, <4>3, <4>4, <4>5 DEF AfterScope
    <3>3. result # "running"
      BY CatchUpConstants DEF Terminal, Completed
    <3>4. task'[c].worst # "running"
      BY <2>p, <3>2, <3>3 DEF Worse, Placed
    <3> QED BY <2>4, <2>c, <3>2, <3>4 DEF RunScope
  <2>5. CASE Reverify(c)
    <3>1. /\ Moves(c) /\ pc[c] = "scopes" /\ pc'[c] \in {"compare", "final"}
          /\ task'[c].key = task[c].key /\ task'[c].todo = task[c].todo
          /\ task'[c].worst = task[c].worst \/ task'[c].worst = "failed"
      BY <1>0, <2>5 DEF Reverify, GoTo, Moves, TypeOK, Task
    <3> QED BY <2>5, <2>c, <2>p, <3>1 DEF Reverify, Placed
  <2>6. CASE Compare(c)
    <3>1. /\ Moves(c) /\ pc[c] = "compare" /\ pc'[c] = "final"
          /\ task'[c].key = task[c].key /\ task'[c].todo = task[c].todo
          /\ task'[c].worst = task[c].worst \/ task'[c].worst = "failed"
      BY <1>0, <2>6 DEF Compare, Verdict, GoTo, Moves, TypeOK, Task
    <3> QED BY <2>6, <2>c, <2>p, <3>1 DEF Compare, Placed
  <2>7. CASE DateFinal(c)
    BY <2>7, <2>p, DatedStep DEF DateFinal, Placed
  <2>8. CASE InsertFinal(c)
    <3>0. Insert(c) /\ pc[c] = "finishing" /\ lease = c
      BY <2>0, <2>8 DEF InsertFinal
    <3>1. CASE Leave(c)
      BY <3>0, <3>1, EndsWithRow
    <3>2. CASE /\ GoTo(c, "drifted") /\ held' = [held EXCEPT ![c] = {}]
               /\ lease' = Freed(c) /\ UNCHANGED task
      <4>1. PICK h : held[c] = {h} /\ h.key \in runs /\ HeldRow(c, h)
        BY <3>0, TheRow
      <4>2. /\ Moves(c) /\ LeaseMoves(c) /\ lease' # c /\ pc'[c] = "drifted" /\ held'[c] = {}
            /\ runs' = runs
        BY <1>0, <3>0, <3>2, CatchUpConstants DEF GoTo, Moves, LeaseMoves, Freed, TypeOK, Insert
      <4>3. Placed(c)'
        BY <2>p, <3>0, <3>2, <4>2
           DEF Placed, CyclePlaces, BlockPlaces, AfterEnsure, DatedPlaces
      <4> QED BY <3>0, <4>1, <4>2, <4>3, InsertStep
    <3> QED BY <2>8, <3>1, <3>2 DEF InsertFinal
  <2>9. CASE AcquireToBlock(c)
    <3>0. UNCHANGED <<events, newest, runs>> /\ pc[c] = "drifted"
      BY <2>9 DEF AcquireToBlock, ledger
    <3>1. CASE Leave(c)
      BY <3>0, <3>1, EndsQuietly
    <3>2. CASE lease = NoOne /\ lease' = c /\ GoTo(c, "recheck") /\ UNCHANGED <<task, held>>
      <4>1. Moves(c) /\ LeaseMoves(c) /\ pc'[c] = "recheck"
        BY <1>0, <3>2 DEF GoTo, Moves, LeaseMoves, TypeOK
      <4> QED BY <2>p, <3>0, <3>2, <4>1, BeforePlan DEF Placed, DatedPlaces
    <3> QED BY <2>9, <3>1, <3>2 DEF AcquireToBlock
  <2>10. CASE Recheck(c)
    <3>0. UNCHANGED <<events, newest, runs>> /\ pc[c] = "recheck"
      BY <2>10 DEF Recheck, ledger
    <3>1. CASE Leave(c)
      BY <3>0, <3>1, EndsQuietly
    <3>2. CASE /\ Current(task[c].key) = "failed" /\ GoTo(c, "block")
               /\ UNCHANGED <<lease, task, held>>
      <4>1. Moves(c) /\ LeaseMoves(c) /\ pc'[c] = "block"
        BY <1>0, <3>2 DEF GoTo, Moves, LeaseMoves, TypeOK
      <4>2. held[c] = {} /\ task[c].todo = {}
        BY <2>p, <3>0 DEF Placed, DatedPlaces
      <4>3. Placed(c)'
        BY <2>p, <3>0, <3>2, <4>1, <4>2
           DEF Placed, CyclePlaces, BlockPlaces, AfterEnsure, DatedPlaces
      <4>4. History(task[c].key)' = History(task[c].key)
        BY <3>0, <3>2 DEF History
      <4>5. Current(task[c].key)' = "failed"
        BY <3>2, <4>4, SameRows
      <4>6. Knows(c)'
        BY <3>2, <4>1, <4>2, <4>5
           DEF Knows, HeldKeys, AfterList, AfterEnsure, CyclePlaces, Terminal, Completed
      <4> QED BY <3>0, <4>1, <4>3, <4>6, QuietStep
    <3> QED BY <2>10, <3>1, <3>2 DEF Recheck
  <2>11. CASE DateBlocked(c)
    BY <2>11, DatedStep DEF DateBlocked
  <2>12. CASE InsertBlocked(c)
    BY <2>0, <2>12, EndsWithRow DEF InsertBlocked
  <2> QED BY <1>c, <2>1, <2>2, <2>3, <2>4, <2>5, <2>6, <2>7, <2>8, <2>9, <2>10, <2>11, <2>12
          DEF CycleStep
<1>d. ASSUME NEW p \in Producers, Commit(p) \/ EnqueueStep(p) PROVE LedgerInv'
  <2> p \in Actors
    BY DEF Actors
  <2>1. /\ Moves(p) /\ LeaseMoves(p) /\ task' = task /\ held' = held
        /\ UNCHANGED <<events, newest, runs>>
        /\ pc[p] \in {"idle", "sync", "enqueue"} /\ pc'[p] \in {"sync", "enqueue", "plan"}
    BY <1>0, <1>d DEF Commit, EnqueueStep, PostCommitSync, EnterEnqueue, GoTo, Moves,
       LeaseMoves, TypeOK, ledger
  <2> QED BY <1>w, <2>1, BeforePlan DEF Placed, DatedPlaces
<1>e. CASE RecordDecision \/ MarketMoves
  <2>1. UNCHANGED <<runs, events, newest, lease, pc, task, held>>
    BY <1>e DEF RecordDecision, MarketMoves, ledger
  <2>2. \A k : History(k)' = History(k)
    BY <2>1 DEF History
  <2>3. \A k : /\ Current(k)' = Current(k) /\ NextAttempt(k)' = NextAttempt(k)
               /\ Running(k)' = Running(k)
    BY <2>2, SameRows
  <2>4. RowsInv' /\ AttemptInv'
    BY <2>1, <2>2, <2>3 DEF LedgerInv, RowsInv, IsTop, AttemptInv, AttemptsInOrder
  <2>5. \A a \in Actors : Placed(a)' /\ (lease' = a => Knows(a)')
    BY <2>1, <2>2, <2>3 DEF LedgerInv, Placed, HeldRow, Knows, HeldKeys, Busy
  <2> QED BY <2>4, <2>5 DEF LedgerInv
<1> QED BY <1>u, <1>a, <1>b, <1>c, <1>d, <1>e DEF Next

\* What is known of the runs, in every state of the coordinator.
LEMMA LedgerHolds == Spec => [](TypeInv /\ LeaseInv /\ LedgerInv)
<1>1. Init => LeaseInv /\ LedgerInv
  <2> SUFFICES ASSUME Init PROVE LeaseInv /\ LedgerInv
    OBVIOUS
  <2>1. LeaseInv
    BY DEF Init, LeaseInv, Actors
  <2>2. RowsInv /\ AttemptInv
    BY DEF Init, RowsInv, AttemptInv, AttemptsInOrder
  <2>3. \A a \in Actors : Placed(a) /\ lease # a
    BY CatchUpConstants DEF Init, Placed, NoTask, CyclePlaces, BlockPlaces, AfterEnsure, DatedPlaces
  <2> QED BY <2>1, <2>2, <2>3 DEF LedgerInv
<1>2. TypeInv /\ LeaseInv /\ [Next]_vars => LeaseInv'
  BY LeaseStep DEF TypeInv
<1>3. TypeInv /\ LeaseInv /\ LedgerInv /\ [Next]_vars => LedgerInv'
  BY LedgerStep
<1> QED BY <1>1, <1>2, <1>3, TypingInduction, PTL DEF Spec

\* While a cycle runs, no other run is left running or failed by an earlier
\* crash, whoever commits, enqueues or crashes beside it: the cycle closed them
\* before it started (_supersede_stale_pending).
THEOREM StaleClosings == Spec => []StalePendingClosed
<1>1. TypeInv /\ LeaseInv /\ LedgerInv => StalePendingClosed
  <2> SUFFICES ASSUME LeaseInv, LedgerInv, NEW c \in Consumers, InCycle(c),
                      NEW k \in runs \ {task[c].key}
               PROVE  Current(k) \notin {"running", "failed"}
    BY DEF StalePendingClosed
  <2>1. c \in Actors /\ lease = c /\ Knows(c) /\ Placed(c)
    BY DEF Actors, LeaseInv, LedgerInv, InCycle
  <2>2. Busy(c) = {task[c].key}
    BY <2>1 DEF Busy, HeldKeys, Placed, HeldRow, InCycle
  <2>3. pc[c] \in AfterList
    BY DEF InCycle, AfterList, AfterEnsure, CyclePlaces
  <2> QED BY <2>1, <2>2, <2>3 DEF Knows
<1> QED BY <1>1, LedgerHolds, PTL

\* The attempts of a run are numbered in the order they started, across
\* crashes, retries and processes (attempt in _run_once_local).
THEOREM AttemptOrder == Spec => []AttemptsInOrder
<1>1. LedgerInv => AttemptsInOrder
  BY DEF LedgerInv, AttemptInv
<1> QED BY <1>1, LedgerHolds, PTL

\* Rows come in one at a time, by whoever has dated one (_append_status).
LEMMA OneInserts ==
  ASSUME TypeOK, [Next]_vars, events' # events
  PROVE  \E a \in Actors : /\ Insert(a) /\ pc[a] \in DatedPlaces
                           /\ pc[a] = "queueing" /\ a \in Producers => pc'[a] = "idle"
<1>1. ~ UNCHANGED vars
  BY DEF vars
<1>2. ASSUME NEW a \in Actors, PlanStep(a) \/ Abort(a)
      PROVE  /\ Insert(a) /\ pc[a] \in DatedPlaces
             /\ pc[a] = "queueing" /\ a \in Producers => pc'[a] = "idle"
  <2>1. InsertClosing(a) \/ InsertQueued(a)
    BY <1>2 DEF PlanStep, Abort, Reconcile, Project, ListStale, DateClosing, StaleClosed,
       Ensure, Create, ReadBack, DateQueued, InsertRefused, ledger
  <2> QED BY <2>1, CatchUpConstants
          DEF InsertClosing, InsertQueued, DatedPlaces, Leave, GoTo, TypeOK
<1>3. ASSUME NEW c \in Consumers, CycleStep(c)
      PROVE  c \in Actors /\ c \notin Producers /\ Insert(c) /\ pc[c] \in DatedPlaces
  <2>1. InsertRunning(c) \/ InsertFinal(c) \/ InsertBlocked(c)
    BY <1>3 DEF CycleStep, Acquire, DateRunning, RunScope, Reverify, Compare,
       DateFinal, AcquireToBlock, Recheck, DateBlocked, ledger
  <2> QED BY <2>1, CatchUpConstants
          DEF InsertRunning, InsertFinal, InsertBlocked, DatedPlaces, Actors
<1>4. ~ \E p \in Producers : Commit(p) \/ EnqueueStep(p)
  BY DEF Commit, EnqueueStep, PostCommitSync, EnterEnqueue, ledger
<1>5. ~ (RecordDecision \/ MarketMoves)
  BY DEF RecordDecision, MarketMoves, ledger
<1> QED BY <1>1, <1>2, <1>3, <1>4, <1>5 DEF Next

\* A run that has reached succeeded, partial or blocked is reopened by nobody
\* but a producer that enqueues without the lease: under the lease, what was
\* read of a run before its row was dated is still true when the row comes in
\* (_ensure_run and _append_status).
THEOREM OnlyLeaselessReopens == Spec => OnlyLeaselessEnqueueReopens
<1>1. TypeInv /\ LeaseInv /\ LedgerInv /\ [Next]_vars =>
        [\A k \in runs :
          Current(k) \in Terminal /\ Current(k)' # Current(k) =>
             \E p \in Producers :
                lease # p /\ pc[p] = "queueing" /\ pc'[p] = "idle"]_events
  <2> SUFFICES ASSUME TypeInv, LeaseInv, LedgerInv, [Next]_vars, events' # events,
                      NEW k \in runs, Current(k) \in Terminal, Current(k)' # Current(k)
               PROVE  \E p \in Producers :
                         lease # p /\ pc[p] = "queueing" /\ pc'[p] = "idle"
    OBVIOUS
  <2>1. PICK a \in Actors : /\ Insert(a) /\ pc[a] \in DatedPlaces
                            /\ pc[a] = "queueing" /\ a \in Producers => pc'[a] = "idle"
    BY OneInserts DEF TypeInv
  <2>2. PICK h : held[a] = {h} /\ h.key \in runs /\ HeldRow(a, h)
    BY <2>1, TheRow
  <2>3. \A r : r # h.key => Current(r)' = Current(r)
    BY <2>1, <2>2, InsertedRow, SameRows DEF LedgerInv
  <2>4. Current(h.key) \in Terminal
    BY <2>3
  <2>5. lease # a
    BY <2>2, <2>4 DEF LedgerInv, Knows, HeldKeys
  <2>6. a \in Producers
    BY <2>1, <2>5 DEF LeaseInv, Actors, DatedPlaces
  <2>7. pc[a] = "queueing"
    <3>1. Placed(a) /\ a \notin Consumers
      BY <2>6, CatchUpConstants DEF LedgerInv
    <3> QED BY <2>1, <2>5, <3>1 DEF Placed, DatedPlaces, CyclePlaces, BlockPlaces
  <2> QED BY <2>1, <2>5, <2>6, <2>7
<1> QED BY <1>1, LedgerHolds, PTL DEF Spec, OnlyLeaselessEnqueueReopens

-----------------------------------------------------------------------------
(* What is closed as superseded.  While every planner has the lease, plans   *)
(* and runs come in one order: no run is ahead of the next plan.  A run that *)
(* is closed is behind its planner's input in some respect, and so it is     *)
(* behind the current one.  A market that has been left could come back, so  *)
(* this goes up to its second move.                                          *)

\* From the plan until the row of review_runs is there.
PlanPlaces == {"list", "supersede", "closing", "ensure", "create"}

Behind(k, l) == k.cutoff <= l.cutoff /\ Ahead(k.projection, l.projection)

Leads(a) ==
    /\ pc[a] = "project" => \A k \in runs : k.cutoff <= task[a].cut
    /\ pc[a] \in PlanPlaces => \A k \in runs : Behind(k, task[a].key)
    /\ pc[a] \in PlanPlaces /\ task[a].key.market # market =>
          flips # 0 /\ \A k \in runs : k.market = task[a].key.market
    /\ pc[a] \in {"supersede", "closing"} =>
          task[a].key \notin task[a].todo /\ \A h \in held[a] : h.key # task[a].key

RunsSeen ==
    \A k \in runs : /\ k.cutoff <= source /\ Ahead(k.projection, Sidecar)
                    /\ flips = 0 => k.market = market

PlanOrder == RunsSeen /\ \A a \in Actors : Leads(a)

\* The sidecar is only ever synced forwards.
LEMMA SidecarGrows ==
  ASSUME TypeOK, CutoffInv, [Next]_vars
  PROVE  sidecar \in Nat /\ sidecar' \in Nat /\ sidecar <= sidecar'
<1>0. sidecar \in Nat /\ source \in Nat /\ sidecar <= source
  BY DEF TypeOK, CutoffInv
<1>1. sidecar' \in {sidecar, source}
  <2>1. ASSUME NEW a \in Actors, PlanStep(a) \/ Abort(a) PROVE sidecar' \in {sidecar, source}
    BY <2>1 DEF PlanStep, Abort, Reconcile, Project, ListStale, DateClosing, InsertClosing,
       StaleClosed, Ensure, Create, ReadBack, DateQueued, InsertQueued, InsertRefused, inputs
  <2>2. ASSUME NEW c \in Consumers, CycleStep(c) PROVE sidecar' \in {sidecar, source}
    BY <2>2 DEF CycleStep, Acquire, DateRunning, InsertRunning, RunScope, Reverify, Compare,
       DateFinal, InsertFinal, AcquireToBlock, Recheck, DateBlocked, InsertBlocked, inputs
  <2>3. ASSUME NEW p \in Producers, Commit(p) \/ EnqueueStep(p)
        PROVE  sidecar' \in {sidecar, source}
    BY <2>3 DEF Commit, EnqueueStep, PostCommitSync, EnterEnqueue, inputs
  <2>4. CASE RecordDecision \/ MarketMoves
    BY <2>4 DEF RecordDecision, MarketMoves
  <2>5. CASE UNCHANGED vars
    BY <2>5 DEF vars
  <2> QED BY <2>1, <2>2, <2>3, <2>4, <2>5 DEF Next
<1> QED BY <1>0, <1>1

\* Who plans has the lease, if every enqueue has it.
LEMMA OnePlans ==
  ASSUME LeaseInv, EnqueuesAreLeased, NEW a \in Actors, pc[a] \in {"project"} \cup PlanPlaces
  PROVE  lease = a
  BY DEF LeaseInv, EnqueuesAreLeased, PlanPlaces, Actors

\* Runs stay behind a source and a sidecar that only grow.
LEMMA StillSeen ==
  ASSUME TypeOK, CutoffInv, RunsSeen, [Next]_vars, runs' = runs, market' = market, flips' = flips
  PROVE  RunsSeen'
<1> SUFFICES ASSUME NEW k \in runs
             PROVE  /\ k.cutoff <= source' /\ Ahead(k.projection, Sidecar')
                    /\ flips' = 0 => k.market = market'
  BY DEF RunsSeen
<1>1. k.cutoff \in Nat /\ k.projection.events \in Nat /\ k.projection.decisions \in Nat
  BY DEF TypeOK, Key, Projection
<1>2. /\ k.cutoff <= source /\ Ahead(k.projection, Sidecar)
      /\ flips = 0 => k.market = market
  BY DEF RunsSeen
<1> QED BY <1>1, <1>2, InputsGrow, SidecarGrows DEF Ahead, Sidecar

\* A step of a that leaves the runs and the market alone.
LEMMA OneLeads ==
  ASSUME TypeOK, CutoffInv, PlanOrder, [Next]_vars, NEW a \in Actors, Moves(a),
         runs' = runs, market' = market, flips' = flips, Leads(a)'
  PROVE  PlanOrder'
<1>1. RunsSeen'
  BY StillSeen DEF PlanOrder
<1>2. ASSUME NEW b \in Actors, b # a PROVE Leads(b)'
  BY <1>2 DEF PlanOrder, Moves, Leads
<1> QED BY <1>1, <1>2 DEF PlanOrder

\* Who is not planning after its step, or never was.
LEMMA PlansNot ==
  ASSUME TypeOK, NEW a \in Actors, pc'[a] \notin {"project"} \cup PlanPlaces
  PROVE  Leads(a)'
  BY DEF Leads, PlanPlaces

LEMMA OrderStep ==
  ASSUME TypeInv, CutoffInv, LeaseInv, LedgerInv, PlanOrder, [Next]_vars,
         EnqueuesAreLeased, flips' < 2
  PROVE  PlanOrder'
<1>t. TypeOK
  BY DEF TypeInv
<1>u. CASE UNCHANGED vars
  BY <1>u DEF vars, PlanOrder, RunsSeen, Leads, Sidecar
<1>a. ASSUME NEW a \in Actors, PlanStep(a) \/ Abort(a) PROVE PlanOrder'
  <2>m. Moves(a)
    BY <1>a, <1>t DEF PlanStep, Abort, Reconcile, Project, ListStale, DateClosing, InsertClosing,
       StaleClosed, Ensure, Create, ReadBack, DateQueued, InsertQueued, InsertRefused,
       Decide, Date, Leave, GoTo, Moves, TypeOK
  <2>k. /\ task[a] \in Task /\ task[a].key \in Key /\ task[a].key.projection \in Projection
        /\ task[a].cut \in Nat /\ source \in Nat /\ sidecar \in Nat /\ decisions \in Nat
        /\ \A k \in runs : k \in Key /\ k.projection \in Projection
    BY <1>t DEF TypeOK, Task, Key
  <2>l. Leads(a) /\ RunsSeen
    BY DEF PlanOrder
  <2>1. CASE Reconcile(a)
    <3>1. /\ pc'[a] = "project" /\ task'[a].cut = source /\ UNCHANGED <<runs, market, flips>>
      BY <2>1, <1>t DEF Reconcile, GoTo, TypeOK, ledger, Task
    <3>2. Leads(a)'
      BY <2>l, <3>1 DEF Leads, RunsSeen, PlanPlaces
    <3> QED BY <1>t, <2>m, <3>1, <3>2, OneLeads
  <2>2. CASE Project(a)
    <3>1. /\ pc[a] = "project" /\ pc'[a] \in {"list", "ensure"}
          /\ task'[a].key = [cutoff |-> task[a].cut, projection |-> Sidecar, market |-> market]
          /\ UNCHANGED <<runs, market, flips>>
      BY <2>2, <1>t DEF Project, GoTo, TypeOK, ledger, inputs, Task
    <3>2. \A k \in runs : Behind(k, task'[a].key)
      BY <2>l, <3>1 DEF Leads, RunsSeen, Behind
    <3>3. Leads(a)'
      BY <3>1, <3>2 DEF Leads, PlanPlaces
    <3> QED BY <1>t, <2>m, <3>1, <3>3, OneLeads
  <2>3. CASE ListStale(a)
    <3>1. /\ pc[a] = "list" /\ pc'[a] = "supersede" /\ held'[a] = held[a]
          /\ task'[a].key = task[a].key /\ task'[a].todo = Stale(task[a].key)
          /\ UNCHANGED <<runs, market, flips>>
      BY <2>3, <1>t DEF ListStale, GoTo, TypeOK, ledger, inputs, Task
    <3>2. held[a] = {}
      BY <3>1 DEF LedgerInv, Placed, DatedPlaces
    <3>3. Leads(a)'
      BY <2>l, <3>1, <3>2 DEF Leads, PlanPlaces, Stale
    <3> QED BY <1>t, <2>m, <3>1, <3>3, OneLeads
  <2>4. CASE DateClosing(a)
    <3>1. PICK r \in task[a].todo : /\ Date(a, r, "blocked", 0, {})
                                    /\ task' = [task EXCEPT ![a].todo = @ \ {r}]
      BY <2>4 DEF DateClosing
    <3>2. /\ pc[a] = "supersede" /\ pc'[a] = "closing" /\ UNCHANGED <<runs, market, flips>>
          /\ task'[a].key = task[a].key /\ task'[a].todo = task[a].todo \ {r}
          /\ \A h \in held'[a] : h.key = r
      BY <2>4, <3>1, <1>t DEF DateClosing, Date, GoTo, TypeOK, inputs, Task
    <3>3. Leads(a)'
      BY <2>l, <3>2 DEF Leads, PlanPlaces
    <3> QED BY <1>t, <2>m, <3>2, <3>3, OneLeads
  <2>5. CASE InsertClosing(a)
    <3>1. /\ pc[a] = "closing" /\ pc'[a] = "supersede" /\ UNCHANGED <<runs, market, flips, task>>
          /\ held'[a] = {}
      BY <2>5, <1>t DEF InsertClosing, Insert, GoTo, TypeOK, inputs
    <3>2. Leads(a)'
      BY <2>l, <3>1 DEF Leads, PlanPlaces
    <3> QED BY <1>t, <2>m, <3>1, <3>2, OneLeads
  <2>6. CASE StaleClosed(a) \/ (Ensure(a) /\ pc'[a] = "create")
    <3>1. /\ pc[a] \in PlanPlaces /\ pc'[a] \in {"ensure", "create"} /\ task'[a] = task[a]
          /\ UNCHANGED <<runs, market, flips>>
      BY <2>6, <1>t DEF StaleClosed, Ensure, Decide, Leave, GoTo, TypeOK, inputs, ledger, PlanPlaces
    <3>2. Leads(a)'
      BY <2>l, <3>1 DEF Leads, PlanPlaces
    <3> QED BY <1>t, <2>m, <3>1, <3>2, OneLeads
  <2>7. CASE Create(a)
    <3> DEFINE l == task[a].key
    <3>1. /\ pc[a] = "create" /\ pc'[a] \in {"idle", "created", "found"}
          /\ runs' = runs \cup {l}
          /\ UNCHANGED <<source, sidecar, decisions, market, flips>>
      BY <2>7, <1>t DEF Create, GoTo, Leave, TypeOK, inputs
    <3>2. l.cutoff <= l.projection.events /\ Ahead(l.projection, Sidecar) /\ sidecar <= source
      BY DEF CutoffInv, ActorInv, Remembers
    <3>3. l.cutoff <= source
      BY <2>k, <3>2 DEF Ahead, Sidecar, Projection, Key
    <3>4. flips = 0 => l.market = market
      BY <2>l, <3>1 DEF Leads, PlanPlaces
    <3>5. RunsSeen'
      BY <2>l, <3>1, <3>2, <3>3, <3>4 DEF RunsSeen, Sidecar
    <3>6. ASSUME NEW b \in Actors PROVE pc'[b] \notin {"project"} \cup PlanPlaces
      <4>1. CASE b = a
        BY <3>1, <4>1 DEF PlanPlaces
      <4>2. CASE b # a
        BY <2>m, <3>1, <4>2, OnePlans DEF Moves, PlanPlaces
      <4> QED BY <4>1, <4>2
    <3>7. \A b \in Actors : Leads(b)'
      BY <1>t, <3>6, PlansNot
    <3> QED BY <3>5, <3>7 DEF PlanOrder
  <2>8. CASE ReadBack(a) \/ (Ensure(a) /\ pc'[a] # "create") \/ DateQueued(a) \/ InsertQueued(a)
             \/ InsertRefused(a) \/ Abort(a)
    <3>1. UNCHANGED <<runs, market, flips>>
      BY <2>8 DEF ReadBack, Ensure, DateQueued, InsertQueued, Insert, InsertRefused, Abort,
         inputs, ledger
    <3>2. pc'[a] \in {"idle", "queue", "start", "queueing"}
      BY <2>8, <1>t DEF ReadBack, Ensure, Decide, DateQueued, InsertQueued, InsertRefused, Abort,
         Leave, GoTo, TypeOK
    <3>3. Leads(a)'
      BY <1>t, <3>2, PlansNot DEF PlanPlaces
    <3> QED BY <1>t, <2>m, <3>1, <3>3, OneLeads
  <2> QED BY <1>a, <2>1, <2>2, <2>3, <2>4, <2>5, <2>6, <2>7, <2>8 DEF PlanStep
<1>b. ASSUME NEW c \in Consumers, CycleStep(c) PROVE PlanOrder'
  <2>1. c \in Actors
    BY DEF Actors
  <2>2. /\ UNCHANGED <<runs, market, flips>> /\ Moves(c)
        /\ pc'[c] \notin {"project"} \cup PlanPlaces
    BY <1>b, <1>t, <2>1 DEF CycleStep, Acquire, DateRunning, InsertRunning, RunScope, Reverify,
       Compare, DateFinal, InsertFinal, AcquireToBlock, Recheck, DateBlocked, InsertBlocked,
       Date, Insert, Leave, GoTo, Moves, TypeOK, inputs, ledger, PlanPlaces
  <2> QED BY <1>t, <2>1, <2>2, PlansNot, OneLeads
<1>c. ASSUME NEW p \in Producers, Commit(p) \/ EnqueueStep(p) PROVE PlanOrder'
  <2>1. p \in Actors
    BY DEF Actors
  <2>2. /\ UNCHANGED <<runs, market, flips>> /\ Moves(p)
        /\ pc'[p] \notin {"project"} \cup PlanPlaces
    BY <1>c, <1>t, <2>1 DEF Commit, EnqueueStep, PostCommitSync, EnterEnqueue, GoTo, Moves,
       TypeOK, inputs, ledger, PlanPlaces
  <2> QED BY <1>t, <2>1, <2>2, PlansNot, OneLeads
<1>d. CASE RecordDecision
  <2>1. UNCHANGED <<runs, market, flips, pc, task, held>>
    BY <1>d DEF RecordDecision, ledger
  <2>2. RunsSeen'
    BY <1>t, <2>1, StillSeen DEF PlanOrder
  <2> QED BY <2>1, <2>2 DEF PlanOrder, Leads
<1>e. CASE MarketMoves
  <2>1. /\ UNCHANGED <<source, sidecar, decisions, runs, pc, task, held>>
        /\ market' # market /\ flips' = flips + 1 /\ flips \in Nat
    BY <1>e, <1>t DEF MarketMoves, ledger, TypeOK
  <2>2. flips = 0 /\ flips' # 0
    BY <2>1
  <2>3. RunsSeen'
    BY <2>1, <2>2 DEF PlanOrder, RunsSeen, Sidecar
  <2>4. ASSUME NEW a \in Actors PROVE Leads(a)'
    BY <2>1, <2>2 DEF PlanOrder, RunsSeen, Leads
  <2> QED BY <2>3, <2>4 DEF PlanOrder
<1> QED BY <1>u, <1>a, <1>b, <1>c, <1>d, <1>e DEF Next

\* As long as every enqueue gets the lease and the market has not moved twice,
\* what is closed as superseded is superseded: the current input is as new as its
\* closer's, which is newer than the closed run's (_supersede_stale_pending).
THEOREM LeasedClosings ==
  Spec /\ [](EnqueuesAreLeased /\ flips < 2) => ClosedInputsAreSuperseded
<1>1. Init => PlanOrder
  BY DEF Init, PlanOrder, RunsSeen, Leads, PlanPlaces
<1>2. /\ TypeInv /\ CutoffInv /\ LeaseInv /\ LedgerInv /\ PlanOrder /\ [Next]_vars
      /\ EnqueuesAreLeased /\ (flips < 2)'
      => PlanOrder'
  BY OrderStep
<1>3. TypeInv /\ CutoffInv /\ LedgerInv /\ PlanOrder =>
        [\A a \in Actors :
          pc[a] = "closing" /\ pc'[a] = "supersede" =>
             \A h \in held[a] : h.key # CurrentKey]_vars
  <2> SUFFICES ASSUME TypeInv, CutoffInv, LedgerInv, PlanOrder, NEW a \in Actors,
                      pc[a] = "closing", NEW h \in held[a], h.key = CurrentKey
               PROVE  FALSE
    OBVIOUS
  <2> DEFINE l == task[a].key
  <2>1. h.key \in runs /\ Leads(a) /\ h.key # l
    BY DEF LedgerInv, Placed, HeldRow, PlanOrder, Leads
  <2>2. Behind(h.key, l) /\ (l.market # market => h.key.market = l.market)
    BY <2>1 DEF Leads, PlanPlaces
  <2>3. /\ l \in Key /\ l.projection \in Projection
        /\ source \in Nat /\ sidecar \in Nat /\ decisions \in Nat
    BY DEF TypeInv, TypeOK, Task, Key
  <2>4. /\ l.cutoff <= l.projection.events /\ Ahead(l.projection, Sidecar) /\ sidecar <= source
    BY DEF CutoffInv, ActorInv, Remembers
  <2>5. /\ l.cutoff = source /\ l.projection.events = source /\ l.projection.decisions = decisions
    BY <2>2, <2>3, <2>4 DEF Behind, Ahead, Sidecar, CurrentKey, Key, Projection
  <2>6. l.market = market
    BY <2>2 DEF CurrentKey
  <2>7. l = CurrentKey
    BY <2>3, <2>5, <2>6 DEF CurrentKey, Key, Projection
  <2> QED BY <2>1, <2>7
<1>4. Spec => [](TypeInv /\ CutoffInv /\ LeaseInv /\ LedgerInv)
  BY LedgerHolds, CutoffHolds, PTL
<1> QED BY <1>1, <1>2, <1>3, <1>4, PTL DEF Spec, ClosedInputsAreSuperseded

-----------------------------------------------------------------------------
(* The review worker loses no wake-up, for any callers and any bounds.       *)

CallerTypes == caller \in [Callers -> {"idle", "wakes", "starts"}]

\* Somebody is between its first step and the event.
SomeoneBusy == \E c \in Callers : caller[c] # "idle"

\* What waits for a live worker has set its event, is about to, or is what the
\* worker comes to next.
Noticed ==
    Alive =>
        /\ triggers # {} => wake \/ SomeoneBusy \/ worker \in {"cleared", "taking", "drifted"}
        /\ stop => wake \/ SomeoneBusy \/ worker = "cleared"

WorkerInv == CallerTypes /\ Noticed

\* Whoever goes on to a label other than "idle" is busy.
LEMMA BusyCaller ==
  ASSUME CallerTypes, NEW c \in Callers, NEW label \in {"idle", "wakes", "starts"},
         CallerGoes(c, label)
  PROVE  CallerTypes' /\ (label # "idle" => SomeoneBusy')
<1>1. caller' = [caller EXCEPT ![c] = label]
  BY DEF CallerGoes
<1>2. CallerTypes'
  BY <1>1 DEF CallerTypes
<1>3. caller'[c] = label
  BY <1>1 DEF CallerTypes
<1> QED BY <1>2, <1>3 DEF SomeoneBusy

LEMMA WorkerInitial == WorkerInit => WorkerInv
<1> SUFFICES ASSUME WorkerInit PROVE WorkerInv
  OBVIOUS
<1>1. CallerTypes
  BY DEF WorkerInit, CallerTypes
<1>2. Noticed
  BY DEF WorkerInit, Noticed, Alive
<1> QED BY <1>1, <1>2 DEF WorkerInv

\* The steps of callers.  Each but the setting of the event leaves its caller
\* busy, and that one sets the event.
LEMMA CallerStep ==
  ASSUME WorkerInv, NEW c \in Callers,
         Request(c) \/ SetWake(c) \/ StartWorker(c) \/ RequestAtStart(c) \/ StopWorker(c)
  PROVE  WorkerInv'
<1>1. CASE SetWake(c)
  <2>1. CallerTypes'
    BY <1>1, BusyCaller DEF SetWake, WorkerInv
  <2>2. wake'
    BY <1>1 DEF SetWake
  <2> QED BY <2>1, <2>2 DEF WorkerInv, Noticed
<1>2. CASE Request(c) \/ StartWorker(c) \/ RequestAtStart(c) \/ StopWorker(c)
  <2>1. \E label \in {"wakes", "starts"} : CallerGoes(c, label)
    BY <1>2 DEF Request, StartWorker, RequestAtStart, StopWorker
  <2>2. CallerTypes' /\ SomeoneBusy'
    BY <2>1, BusyCaller DEF WorkerInv
  <2> QED BY <2>2 DEF WorkerInv, Noticed
<1> QED BY <1>1, <1>2

\* The steps of the worker leave the callers alone.
LEMMA WorkerStep ==
  ASSUME WorkerInv,
         \/ LoopTop \/ WaitEnds \/ ClearWake \/ CheckStop \/ TakeTriggers
         \/ CycleEnds \/ CycleDrifts \/ WakeSelf
  PROVE  WorkerInv'
<1>1. caller' = caller
  BY DEF LoopTop, WaitEnds, ClearWake, CheckStop, TakeTriggers, CycleEnds,
         CycleDrifts, WakeSelf
<1>2. CallerTypes' /\ SomeoneBusy' = SomeoneBusy
  BY <1>1 DEF WorkerInv, CallerTypes, SomeoneBusy
<1>3. Noticed'
  <2> USE DEF WorkerInv, Noticed, Alive
  <2>1. CASE LoopTop
    BY <2>1, <1>2 DEF LoopTop, flags
  <2>2. CASE WaitEnds
    BY <2>2, <1>2 DEF WaitEnds, flags
  <2>3. CASE ClearWake
    BY <2>3, <1>2 DEF ClearWake
  <2>4. CASE CheckStop
    BY <2>4, <1>2 DEF CheckStop, flags
  <2>5. CASE TakeTriggers
    BY <2>5, <1>2 DEF TakeTriggers, flags
  <2>6. CASE CycleEnds
    BY <2>6, <1>2 DEF CycleEnds, flags
  <2>7. CASE CycleDrifts
    BY <2>7, <1>2 DEF CycleDrifts, flags
  <2>8. CASE WakeSelf
    BY <2>8, <1>2 DEF WakeSelf
  <2> QED BY <2>1, <2>2, <2>3, <2>4, <2>5, <2>6, <2>7, <2>8
<1> QED BY <1>2, <1>3 DEF WorkerInv

LEMMA WorkerInvariant == WorkerSpec => []WorkerInv
<1>1. WorkerInv /\ [WorkerNext]_workerVars => WorkerInv'
  <2> SUFFICES ASSUME WorkerInv, [WorkerNext]_workerVars PROVE WorkerInv'
    OBVIOUS
  <2>1. CASE UNCHANGED workerVars
    BY <2>1 DEF workerVars, WorkerInv, CallerTypes, Noticed, Alive, SomeoneBusy
  <2>2. CASE WorkerNext
    BY <2>2, CallerStep, WorkerStep DEF WorkerNext
  <2> QED BY <2>1, <2>2
<1> QED BY WorkerInitial, <1>1, PTL DEF WorkerSpec

\* A worker that goes to sleep has left no request and no stop behind, for any
\* number of callers of request, start and stop (_worker clears the event
\* before it takes the triggers; request sets it after it adds one).
THEOREM NoLostWakeUp == WorkerSpec => []NothingOverslept
<1>1. WorkerInv => NothingOverslept
  BY DEF WorkerInv, Noticed, NothingOverslept, Alive, SomeoneBusy
<1> QED BY WorkerInvariant, <1>1, PTL
=============================================================================
