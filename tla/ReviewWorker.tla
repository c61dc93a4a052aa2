---------------------------- MODULE ReviewWorker ----------------------------
(***************************************************************************)
(* The background thread of ReviewAutomationCoordinator                    *)
(* (src/src/portfolio/review_integration.py): request, _worker, start and  *)
(* stop.  A request adds its trigger to a set, under a lock, and sets an   *)
(* event afterwards; the worker clears the event, which takes no lock, and *)
(* takes the set afterwards.  A worker that misses a request sleeps for an *)
(* interval.  What a cycle does is CatchUpRuns.                            *)
(***************************************************************************)
EXTENDS Integers, FiniteSets

CONSTANTS
    Callers,       \* threads that call request, start and stop
    MaxCommands,   \* bound: their calls
    MaxCycles      \* bound: cycles

ASSUME WorkerConstants == MaxCommands \in Nat /\ MaxCycles \in Nat

VARIABLES
    triggers,      \* _pending_triggers
    wake, stop,    \* the two events
    worker,        \* where the thread is
    caller,        \* where each caller is
    retried,       \* immediate_drift_retry_used
    commands, cycles

workerVars == <<triggers, wake, stop, worker, caller, retried, commands, cycles>>
flags == <<wake, stop>>

Alive == worker \notin {"none", "ended"}

CallerGoes(c, label) == caller' = [caller EXCEPT ![c] = label]

-----------------------------------------------------------------------------
(* Callers *)

\* request adds its trigger ...
Request(c) ==
    /\ caller[c] = "idle" /\ commands < MaxCommands
    /\ commands' = commands + 1
    /\ triggers' = triggers \cup {"post_commit"}
    /\ CallerGoes(c, "wakes")
    /\ UNCHANGED <<flags, worker, retried, cycles>>

\* ... and then wakes the worker; stop does the same.
SetWake(c) ==
    /\ caller[c] = "wakes"
    /\ wake' = TRUE
    /\ CallerGoes(c, "idle")
    /\ UNCHANGED <<triggers, stop, worker, retried, commands, cycles>>

\* start: a new thread unless there is one ...
StartWorker(c) ==
    /\ caller[c] = "idle" /\ commands < MaxCommands /\ ~ Alive
    /\ commands' = commands + 1
    /\ stop' = FALSE /\ worker' = "top"
    /\ CallerGoes(c, "starts")
    /\ UNCHANGED <<triggers, wake, retried, cycles>>

\* ... and a request of its own.
RequestAtStart(c) ==
    /\ caller[c] = "starts"
    /\ triggers' = triggers \cup {"startup_catch_up"}
    /\ CallerGoes(c, "wakes")
    /\ UNCHANGED <<flags, worker, retried, commands, cycles>>

\* stop sets its event and wakes the worker; whether the join times out makes
\* no difference to the worker.
StopWorker(c) ==
    /\ caller[c] = "idle" /\ commands < MaxCommands /\ worker # "none"
    /\ commands' = commands + 1
    /\ stop' = TRUE
    /\ CallerGoes(c, "wakes")
    /\ UNCHANGED <<triggers, wake, worker, retried, cycles>>

-----------------------------------------------------------------------------
(* _worker *)

LoopTop ==
    /\ worker = "top"
    /\ worker' = IF stop THEN "ended" ELSE "waiting"
    /\ retried' = (retried /\ ~ stop)
    /\ UNCHANGED <<triggers, flags, caller, commands, cycles>>

\* The wait ends with the event or with the interval.
WaitEnds ==
    /\ worker = "waiting" /\ cycles < MaxCycles
    /\ cycles' = cycles + 1
    /\ worker' = "awake"
    /\ UNCHANGED <<triggers, flags, caller, retried, commands>>

ClearWake ==
    /\ worker = "awake"
    /\ wake' = FALSE /\ worker' = "cleared"
    /\ UNCHANGED <<triggers, stop, caller, retried, commands, cycles>>

CheckStop ==
    /\ worker = "cleared"
    /\ worker' = IF stop THEN "ended" ELSE "taking"
    /\ retried' = (retried /\ ~ stop)
    /\ UNCHANGED <<triggers, flags, caller, commands, cycles>>

TakeTriggers ==
    /\ worker = "taking"
    /\ triggers' = {} /\ worker' = "running"
    /\ UNCHANGED <<flags, caller, retried, commands, cycles>>

\* Mutant: the event is cleared when the cycle is over.
CycleEndsClearing ==
    /\ worker = "running"
    /\ worker' = "top" /\ retried' = FALSE /\ wake' = FALSE
    /\ UNCHANGED <<triggers, stop, caller, commands, cycles>>
\* run_once without a drift of its input, or with the second in a row.
CycleEnds ==
    /\ worker = "running"
    /\ worker' = "top" /\ retried' = FALSE
    /\ UNCHANGED <<triggers, flags, caller, commands, cycles>>

\* The first drift: the worker asks itself for a second try ...
CycleDrifts ==
    /\ worker = "running" /\ ~ stop /\ ~ retried
    /\ retried' = TRUE
    /\ triggers' = triggers \cup {"input_drift_retry"}
    /\ worker' = "drifted"
    /\ UNCHANGED <<flags, caller, commands, cycles>>

\* ... and wakes itself.
WakeSelf ==
    /\ worker = "drifted"
    /\ wake' = TRUE /\ worker' = "top"
    /\ UNCHANGED <<triggers, stop, caller, retried, commands, cycles>>

-----------------------------------------------------------------------------
WorkerInit ==
    /\ triggers = {} /\ wake = FALSE /\ stop = FALSE
    /\ worker = "none" /\ retried = FALSE
    /\ caller = [c \in Callers |-> "idle"]
    /\ commands = 0 /\ cycles = 0

WorkerNext ==
    \/ \E c \in Callers : Request(c) \/ SetWake(c) \/ StartWorker(c)
                          \/ RequestAtStart(c) \/ StopWorker(c)
    \/ LoopTop \/ WaitEnds \/ ClearWake \/ CheckStop \/ TakeTriggers
    \/ CycleEnds \/ CycleDrifts \/ WakeSelf

WorkerSpec == WorkerInit /\ [][WorkerNext]_workerVars

-----------------------------------------------------------------------------
(* Properties *)

\* A worker that is left to sleep for an interval has nothing to do: every
\* request whose call has returned was taken by a cycle, and it was not told to
\* stop -- however requests, stops and restarts fell between its clearing of
\* the event and its taking of the triggers (_worker, request, stop).
NothingOverslept ==
    worker = "waiting" /\ ~ wake /\ (\A c \in Callers : caller[c] = "idle")
        => triggers = {} /\ ~ stop
=============================================================================
