----------------------------- MODULE MarketCache -----------------------------
(***************************************************************************)
(* Market context (src/src/investment_review/market_context_adapter.py,    *)
(* the v2 contract).  A review run resolves a requirement from the         *)
(* portfolio and from a cache that every run shares; what is missing it    *)
(* asks a provider, within the run's budget of attempts, and the           *)
(* resolution is frozen: a file that is created, never replaced.           *)
(*                                                                         *)
(* A requirement is resolved under a lease, of the thread and of the file  *)
(* system, which ends with its process.  Everything else interleaves:      *)
(* commits to the portfolio, other requirements of the same instrument     *)
(* whose entries are shared, other threads on the same budget.             *)
(*                                                                         *)
(* One instrument.  A legacy resolution counts as none: the repair file is *)
(* created in its place and read before it.  The provider is external.     *)
(***************************************************************************)
EXTENDS Integers, Sequences, FiniteSets

CONSTANTS
    Resolvers,      \* threads that resolve requirements
    Runs,           \* review runs, each a process of its own
    Connected,      \* runs that were given a provider
    Requirements,   \* what may be resolved
    Hindsight,      \* requirements of the system perspective
    Wanted,         \* its required components, in the order they are asked for
    LocalCovers,    \* what each version of the portfolio covers by itself
    MaxRequests,    \* max_requests_per_run
    MaxConcurrency, \* max_concurrency
    Attempts,       \* attempts of a request: one and max_retries
    MaxCalls,       \* bound: calls of resolve_market_context
    MaxFaults,      \* bound: errors and crashes
    Unresolved      \* no resolution

Components == UNION {{Wanted[r][i] : i \in DOMAIN Wanted[r]} : r \in Requirements}
Versions == DOMAIN LocalCovers

ASSUME MarketConstants ==
    /\ Connected \subseteq Runs
    /\ Wanted \in [Requirements -> Seq(Components)]
    /\ \A r \in Requirements : \A i, j \in DOMAIN Wanted[r] :
          Wanted[r][i] = Wanted[r][j] => i = j
    /\ Versions \subseteq Nat /\ 1 \in Versions
    /\ MaxRequests \in Nat /\ MaxConcurrency \in Nat /\ Attempts \in Nat
    /\ MaxCalls \in Nat /\ MaxFaults \in Nat

VARIABLES
    portfolio,  \* version of the portfolio file
    entries,    \* cache entries: what a provider said, and who asked
    frozen,     \* the resolution of each requirement
    used,       \* MarketRequestBudget of each run: attempts paid for,
    reserved,   \* attempts set aside for requests under way,
    slots,      \* and requests under way
    sent,       \* attempts that each run really sent
    at, work,   \* where each thread is, and what it knows
    told,       \* what resolve_market_context has returned
    calls, faults

marketVars == <<portfolio, entries, frozen, used, reserved, slots, sent, at,
                work, told, calls, faults>>
budget == <<used, reserved, slots>>

Stages == {"idle", "lease", "look", "read", "check", "cover", "reserve",
           "slot", "call", "persist", "settle", "freeze"}
Replies == {"none", "succeeded", "failed", "unavailable", "unknown"}
Statuses == {"none", "not_needed", "withheld", "unavailable", "exhausted",
             "failed", "succeeded"}
\* What an entry proves: one of two versions of a row, or nothing.
Proofs == {"p", "q", "nothing"}

Entry == [component : Components, origin : Requirements, proof : Proofs]
Resolution == [source : Versions, rows : Versions,
               covered : SUBSET Components, status : Statuses]

ASSUME ResolutionConstants ==
    /\ Unresolved \notin Resolution
    /\ LocalCovers \in [Versions -> SUBSET Components]

NoWork == [req |-> Unresolved, run |-> Unresolved, source |-> 1, rows |-> 1, known |-> {},
           left |-> {}, cap |-> 0, reply |-> "none", charged |-> 0,
           receipts |-> {}, status |-> "none"]

-----------------------------------------------------------------------------
(* Pieces the actions are made of *)

\* A run's threads that hold the lease of some requirement.
Holding(t) == at[t] \notin {"idle", "lease"}

MoveTo(t, stage, w) ==
    /\ at' = [at EXCEPT ![t] = stage]
    /\ work' = [work EXCEPT ![t] = w]

\* An exception: the lease is released and nothing is returned.
Fails(t) == MoveTo(t, "idle", NoWork) /\ UNCHANGED told

Returns(t, resolution) ==
    /\ MoveTo(t, "idle", NoWork)
    /\ told' = told \cup {[req |-> work[t].req, resolution |-> resolution]}

\* Components proven by entries; versions that contradict each other are
\* conflicted (_resolve_external_revision_conflicts_v2).
Proven(known) ==
    {c \in Components :
        Cardinality({e.proof : e \in {x \in known : x.component = c}} \ {"nothing"}) = 1}

\* _coverage_v2.  An entry is observed after the operation that a requirement
\* of the system perspective is about.
Covered(w) ==
    LocalCovers[w.rows] \cup (IF w.req \in Hindsight THEN {} ELSE Proven(w.known))

\* The request a thread is at, of those that are left.
First(w) == CHOOSE i \in w.left : \A j \in w.left : i <= j
Asked(w) == Wanted[w.req][First(w)]

\* The resolution that a thread would freeze.
Assembled(w) == [source |-> w.source, rows |-> w.rows, covered |-> Covered(w),
                 status |-> w.status]

FallbackStatus(receipts) ==
    IF "succeeded" \in receipts THEN "succeeded"
    ELSE IF "attempted" \in receipts THEN "failed" ELSE "unavailable"

-----------------------------------------------------------------------------
(* resolve_market_context_v2 *)

Commit ==
    /\ portfolio + 1 \in Versions /\ portfolio' = portfolio + 1
    /\ UNCHANGED <<entries, frozen, budget, sent, at, work, told, calls, faults>>

Call(t) ==
    /\ at[t] = "idle" /\ calls < MaxCalls
    /\ calls' = calls + 1
    /\ \E r \in Requirements, run \in Runs :
          MoveTo(t, "lease", [NoWork EXCEPT !.req = r, !.run = run])
    /\ UNCHANGED <<portfolio, entries, frozen, budget, sent, told, faults>>

\* Mutant: only the lock of the threads, which another process does not see.
LeaseFreeInRun(t) ==
    \A g \in Resolvers :
        work[g].run = work[t].run /\ Holding(g) => work[g].req # work[t].req
LeaseFree(t) == \A g \in Resolvers : Holding(g) => work[g].req # work[t].req

\* _MarketRequirementLease.__enter__
Enter(t) ==
    /\ at[t] = "lease" /\ LeaseFree(t)
    /\ MoveTo(t, "look", work[t])
    /\ UNCHANGED <<portfolio, entries, frozen, budget, sent, told, calls, faults>>

\* Mutant: only a resolution that succeeded is found.
FoundIfSucceeded(r) == frozen[r] # Unresolved /\ frozen[r].status = "succeeded"
\* The resolution, or what repairs it, is on disk, whatever it says.
Found(r) == frozen[r] # Unresolved

\* A resolution is returned as it is; else the source is hashed.
Look(t) ==
    /\ at[t] = "look"
    /\ IF Found(work[t].req)
       THEN Returns(t, frozen[work[t].req])
       ELSE /\ MoveTo(t, "read", [work[t] EXCEPT !.source = portfolio])
            /\ UNCHANGED told
    /\ UNCHANGED <<portfolio, entries, frozen, budget, sent, calls, faults>>

ReadRows(t) ==
    /\ at[t] = "read"
    /\ MoveTo(t, "check", [work[t] EXCEPT !.rows = portfolio])
    /\ UNCHANGED <<portfolio, entries, frozen, budget, sent, told, calls, faults>>

\* Mutant: the source is not hashed again.
SameSourceAssumed(w) == TRUE
SameSource(w) == portfolio = w.source

\* "portfolio market source changed during immutable read"
CheckSource(t) ==
    /\ at[t] = "check"
    /\ IF SameSource(work[t])
       THEN MoveTo(t, "cover", work[t]) /\ UNCHANGED told
       ELSE Fails(t)
    /\ UNCHANGED <<portfolio, entries, frozen, budget, sent, calls, faults>>

\* The entries are read, and it is decided whether to ask a provider.
Cover(t) ==
    LET w == [work[t] EXCEPT !.known = entries]
        missing == {i \in DOMAIN Wanted[w.req] : Wanted[w.req][i] \notin Covered(w)}
        Decide(status) == MoveTo(t, "freeze", [w EXCEPT !.status = status])
    IN
    /\ at[t] = "cover"
    /\ IF missing = {} THEN Decide("not_needed")
       ELSE IF w.req \in Hindsight THEN Decide("withheld")
       ELSE IF work[t].run \notin Connected THEN Decide("unavailable")
       ELSE MoveTo(t, "reserve", [w EXCEPT !.left = missing])
    /\ UNCHANGED <<portfolio, entries, frozen, budget, sent, told, calls, faults>>

-----------------------------------------------------------------------------
(* _controlled_gateway_fallback_v2 *)

Min2(m, n) == IF m <= n THEN m ELSE n

Capacity(run) == Min2(Attempts, MaxRequests - used[run] - reserved[run])

\* MarketRequestBudget.reserve
Reserve(t) ==
    LET run == work[t].run  cap == Capacity(run)  w == work[t] IN
    /\ at[t] = "reserve"
    /\ reserved' = [reserved EXCEPT ![run] = @ + cap]
    /\ IF cap > 0 THEN MoveTo(t, "slot", [w EXCEPT !.cap = cap])
       ELSE MoveTo(t, "freeze",
                   [w EXCEPT !.status = IF w.receipts = {} THEN "exhausted"
                                        ELSE FallbackStatus(w.receipts)])
    /\ UNCHANGED <<portfolio, entries, frozen, used, slots, sent, told, calls, faults>>

SlotFree(run) == slots[run] < MaxConcurrency

\* acquire_concurrency_slot
Acquire(t) ==
    LET run == work[t].run IN
    /\ at[t] = "slot" /\ SlotFree(run)
    /\ slots' = [slots EXCEPT ![run] = @ + 1]
    /\ MoveTo(t, "call", work[t])
    /\ UNCHANGED <<portfolio, entries, frozen, used, reserved, sent, told, calls, faults>>

\* What a provider may report after n attempts; "unknown" is a timeout, an
\* exception or an answer that makes no sense.
Reports(n) ==
    {"unknown"} \cup (IF n = 0 THEN {"unavailable"} ELSE {"succeeded", "failed"})

\* Mutant: an unknown number of attempts is charged as one.
ChargeOne(reply, n, cap) == IF reply = "unknown" THEN 1 ELSE n
\* An unknown number of attempts is charged as all of them.
Charge(reply, n, cap) == IF reply = "unknown" THEN cap ELSE n

\* _gateway_call
Gateway(t) ==
    LET w == work[t] IN
    /\ at[t] = "call"
    /\ \E n \in 0 .. w.cap : \E reply \in Reports(n) :
          /\ sent' = [sent EXCEPT ![work[t].run] = @ + n]
          /\ MoveTo(t, IF reply = "succeeded" THEN "persist" ELSE "settle",
                    [w EXCEPT !.reply = reply, !.charged = Charge(reply, n, w.cap)])
    /\ UNCHANGED <<portfolio, entries, frozen, budget, told, calls, faults>>

\* _external_entry_v2: the entry is there before the attempts are settled.
Persist(t) ==
    LET w == work[t] IN
    /\ at[t] = "persist"
    /\ \E proof \in Proofs :
          LET e == [component |-> Asked(w), origin |-> w.req, proof |-> proof] IN
          /\ entries' = entries \cup {e}
          /\ MoveTo(t, "settle", [w EXCEPT !.known = @ \cup {e}])
    /\ UNCHANGED <<portfolio, frozen, budget, sent, told, calls, faults>>

ReceiptOf(reply) ==
    CASE reply = "succeeded" -> "succeeded"
      [] reply = "unavailable" -> "zero"
      [] OTHER -> "attempted"

\* Mutant: the slot is released only after an answer that could be read.
SlotsWhenKnown(run, reply) == IF reply = "unknown" THEN slots[run] ELSE slots[run] - 1
SlotsAfter(run, reply) == slots[run] - 1

\* MarketRequestBudget.settle and release_concurrency_slot, one after the other
\* in every case, and the next request.
Settle(t) ==
    LET run == work[t].run
        w == work[t]
        receipts == w.receipts \cup {ReceiptOf(w.reply)}
        rest == w.left \ {First(w)}
        over == w.reply = "unavailable" \/ rest = {}
    IN
    /\ at[t] = "settle" /\ w.cap <= reserved[run]
    /\ used' = [used EXCEPT ![run] = @ + w.charged]
    /\ reserved' = [reserved EXCEPT ![run] = @ - w.cap]
    /\ slots' = [slots EXCEPT ![run] = SlotsAfter(run, w.reply)]
    /\ MoveTo(t, IF over THEN "freeze" ELSE "reserve",
              [w EXCEPT !.left = rest, !.cap = 0, !.reply = "none",
                        !.charged = 0, !.receipts = receipts,
                        !.status = IF over THEN FallbackStatus(receipts) ELSE @])
    /\ UNCHANGED <<portfolio, entries, frozen, sent, told, calls, faults>>

\* Mutant: a resolution for want of budget is told, and not kept.
KeptIfPaid(resolution) ==
    IF resolution.status = "exhausted" THEN Unresolved ELSE resolution
Kept(resolution) == resolution

\* _create_or_compare
Freeze(t) ==
    LET w == work[t]  resolution == Assembled(w) IN
    /\ at[t] = "freeze"
    /\ IF frozen[w.req] \in {Unresolved, resolution}
       THEN /\ frozen' = [frozen EXCEPT ![w.req] = Kept(resolution)]
            /\ Returns(t, resolution)
       ELSE Fails(t) /\ UNCHANGED frozen
    /\ UNCHANGED <<portfolio, entries, budget, sent, calls, faults>>

-----------------------------------------------------------------------------
(* Faults *)

\* A database, a file or the final validation fails; before a provider is
\* asked, or after.
Fault(t) ==
    /\ at[t] \in {"check", "freeze"} /\ faults < MaxFaults
    /\ faults' = faults + 1
    /\ Fails(t)
    /\ UNCHANGED <<portfolio, entries, frozen, budget, sent, calls>>

\* The process dies: its leases end and its budget is gone; the run that
\* starts instead has one of its own.
Crash(run) ==
    /\ \E t \in Resolvers : work[t].run = run /\ Holding(t)
    /\ faults < MaxFaults /\ faults' = faults + 1
    /\ at' = [t \in Resolvers |-> IF work[t].run = run THEN "idle" ELSE at[t]]
    /\ work' = [t \in Resolvers |-> IF work[t].run = run THEN NoWork ELSE work[t]]
    /\ used' = [used EXCEPT ![run] = 0]
    /\ reserved' = [reserved EXCEPT ![run] = 0]
    /\ slots' = [slots EXCEPT ![run] = 0]
    /\ sent' = [sent EXCEPT ![run] = 0]
    /\ UNCHANGED <<portfolio, entries, frozen, told, calls>>

-----------------------------------------------------------------------------
MarketInit ==
    /\ portfolio = 1 /\ entries = {}
    /\ frozen = [r \in Requirements |-> Unresolved]
    /\ used = [run \in Runs |-> 0] /\ reserved = [run \in Runs |-> 0]
    /\ slots = [run \in Runs |-> 0] /\ sent = [run \in Runs |-> 0]
    /\ at = [t \in Resolvers |-> "idle"]
    /\ work = [t \in Resolvers |-> NoWork]
    /\ told = {} /\ calls = 0 /\ faults = 0

Resolve(t) ==
    \/ Enter(t) \/ Look(t) \/ ReadRows(t) \/ CheckSource(t) \/ Cover(t)
    \/ Reserve(t) \/ Acquire(t) \/ Gateway(t) \/ Persist(t) \/ Settle(t)
    \/ Freeze(t)

MarketNext ==
    \/ Commit
    \/ \E t \in Resolvers : Call(t) \/ Resolve(t) \/ Fault(t)
    \/ \E run \in Runs : Crash(run)

MarketSpec == MarketInit /\ [][MarketNext]_marketVars

-----------------------------------------------------------------------------
(* Properties *)

\* Shapes of the cache, of the budgets and of each thread's work.
MarketTypes ==
    /\ portfolio \in Versions /\ entries \in SUBSET Entry
    /\ frozen \in [Requirements -> Resolution \cup {Unresolved}]
    /\ used \in [Runs -> Nat] /\ reserved \in [Runs -> Nat]
    /\ slots \in [Runs -> 0 .. MaxConcurrency] /\ sent \in [Runs -> Nat]
    /\ at \in [Resolvers -> Stages]
    /\ told \in SUBSET [req : Requirements, resolution : Resolution]
    /\ calls \in 0 .. MaxCalls /\ faults \in 0 .. MaxFaults

\* A run never sends more attempts than its cap, however many threads share
\* the budget and whatever a provider fails to report (MarketRequestBudget).
CapHolds == \A run \in Runs : sent[run] <= MaxRequests

\* Nothing leaks: a run none of whose threads has a request under way has no
\* attempt set aside and no slot taken, after errors as well
\* (_controlled_gateway_fallback_v2's except and finally).
UnderWay(run) == {t \in Resolvers :
    work[t].run = run /\ at[t] \in {"slot", "call", "persist", "settle"}}
NothingLeaks ==
    \A run \in Runs : UnderWay(run) = {} => reserved[run] = 0 /\ slots[run] = 0

\* What a requirement has once been answered, and what proves it, is not asked
\* for again: not by a thread that waited for the lease, not by another run,
\* and not by the run after a crash -- unless entries contradict each other
\* (resolve_market_context_v2, _cached_external_sources_v2).
Asking(t) == at[t] \in {"slot", "call"}
AskedOnce ==
    \A t \in Resolvers : Asking(t) =>
        /\ frozen[work[t].req] = Unresolved
        /\ \A e \in entries :
              e.origin = work[t].req /\ e.component = Asked(work[t]) =>
                  e.proof = "nothing" \/ e.component \notin Proven(entries)

\* Everybody who was told a resolution of a requirement was told the same one,
\* and it is the one on disk (_create_or_compare).
ToldIsFrozen == \A x \in told : frozen[x.req] = x.resolution

\* A resolution names the version of the portfolio its rows were read from
\* (source_read of _resolve_market_context_for_requirement_v2).
NamesItsSource ==
    \A r \in Requirements :
        frozen[r] # Unresolved => frozen[r].rows = frozen[r].source

\* Whoever is about to freeze a resolution finds none: no call fails with
\* "create-only market cache conflict" (_MarketRequirementLease).
NoConflict ==
    \A t \in Resolvers : at[t] = "freeze" => frozen[work[t].req] = Unresolved
=============================================================================
