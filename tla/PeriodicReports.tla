--------------------------- MODULE PeriodicReports ---------------------------
(***************************************************************************)
(* Catch-up of the periodic reports: PeriodicReportRunner.run_once         *)
(* (src/src/investment_review/periodic_runner.py), generate_daily_range,   *)
(* generate_periodic_summaries and PeriodicReportStore                     *)
(* (src/src/investment_review/periodic_reports.py).                        *)
(*                                                                         *)
(* A run stores the daily reports of every trading day after the last one  *)
(* of the portfolio, the portfolio's first and then each instrument's, and *)
(* aggregates the window that was completed last.  A report replaces the   *)
(* one of the same subject and period.  The dashboard's worker runs every  *)
(* quarter of an hour and is a daemon thread, which ends with its process  *)
(* in the middle of a run; the command line may run beside it.  Meanwhile  *)
(* closing prices and trades are committed to the portfolio.               *)
(*                                                                         *)
(* Days are numbered.  One is a trading day once it has a closing price;   *)
(* prices are refreshed up to any day, and arrive in any order.  Before    *)
(* the first action day 1 is stored.                                       *)
(***************************************************************************)
EXTENDS Integers, Sequences, FiniteSets

CONSTANTS
    Reporters,        \* processes that run: the dashboard and the command line
    LastDay,          \* bound: days
    Held,             \* instruments held or traded on each day, in order
    Portfolio,        \* the other subject of reports
    Periods,          \* the summaries, in the order they are made
    Window,           \* for each, the window that a cutoff day completed last
    MaxTrades,        \* bound: commits of something else than a day's first prices
    MaxRuns,          \* bound: runs
    MaxInterruptions  \* bound: errors and deaths

Days == 1 .. LastDay
Subjects(d) == <<Portfolio>> \o Held[d]
AllSubjects == UNION {{Subjects(d)[i] : i \in DOMAIN Subjects(d)} : d \in Days}
PeriodNames == {Periods[i] : i \in DOMAIN Periods}

ASSUME PeriodicConstants ==
    /\ LastDay \in Nat \ {0}
    /\ DOMAIN Held = Days /\ \A d \in Days : Held[d] \in Seq(AllSubjects \ {Portfolio})
    /\ Periods \in Seq(PeriodNames) /\ Window \in [PeriodNames -> [Days -> SUBSET Days]]
    /\ MaxTrades \in Nat /\ MaxRuns \in Nat /\ MaxInterruptions \in Nat

VARIABLES
    today,         \* the cutoff day of the clock
    priced,        \* the days with closing prices
    late,          \* history: those that got them when a later day was stored or
                   \* in the plan of a run
    source,        \* version of the portfolio file
    daily,         \* daily reports, with the version each was built from
    summaries,     \* weekly and monthly reports, with the days they cover
    state,         \* periodic_automation_status
    phase, task,   \* where each process is in run_once, and what it knows
    trades, runs, interruptions

periodicVars == <<today, priced, late, source, daily, summaries, state, phase, task,
                  trades, runs, interruptions>>
formal == <<today, priced, late, source, trades>>
stored == <<daily, summaries>>

Phases == {"idle", "plan", "build", "save", "after", "read", "aggregate", "done"}
NoTask == [cutoff |-> 1, days |-> {}, before |-> 0, built |-> <<>>, saved |-> 0,
           seen |-> {}, periods |-> <<>>, groups |-> {}]

-----------------------------------------------------------------------------
(* Reading and writing the store *)

Turn(p, label, t) ==
    /\ phase' = [phase EXCEPT ![p] = label]
    /\ task' = [task EXCEPT ![p] = t]

StoredDays(subject) == {r.day : r \in {x \in daily : x.subject = subject}}
LastOf(days) == CHOOSE d \in days : \A e \in days : e <= d
FirstOf(days) == CHOOSE d \in days : \A e \in days : d <= e

\* Mutant: a report is added to the ones of its day.
AddDaily(r) == daily' = daily \cup {r}
\* PeriodicReportStore.save: the identity is the subject and the period.
SaveDaily(r) ==
    daily' = {x \in daily : x.day # r.day \/ x.subject # r.subject} \cup {r}

SameIdentity(x, y) ==
    /\ x.period = y.period /\ x.subject = y.subject
    /\ FirstOf(x.days) = FirstOf(y.days) /\ LastOf(x.days) = LastOf(y.days)
SaveSummary(r) == summaries' = {x \in summaries : ~ SameIdentity(x, r)} \cup {r}

-----------------------------------------------------------------------------
(* The clock and the portfolio *)

Tick ==
    /\ today < LastDay /\ today' = today + 1
    /\ UNCHANGED <<priced, late, source, stored, state, phase, task, trades, runs,
                   interruptions>>

\* A later day is stored, or a run has it in its plan.
Behind(d) ==
    \/ \E e \in StoredDays(Portfolio) : e > d
    \/ \E p \in Reporters : \E e \in task[p].days : e > d

\* refresh-prices: the first closing prices of a day, at the latest of the one
\* after the cutoff day, which is over before its cutoff.
PriceDay ==
    \E d \in Days \ priced :
        /\ d <= today + 1
        /\ priced' = priced \cup {d} /\ source' = source + 1
        /\ late' = IF Behind(d) THEN late \cup {d} ELSE late
        /\ UNCHANGED <<today, stored, state, phase, task, trades, runs, interruptions>>

TradeCommit ==
    /\ trades < MaxTrades
    /\ trades' = trades + 1 /\ source' = source + 1
    /\ UNCHANGED <<today, priced, late, stored, state, phase, task, runs, interruptions>>

-----------------------------------------------------------------------------
(* run_once *)

Begin(p) ==
    /\ phase[p] = "idle" /\ runs < MaxRuns
    /\ runs' = runs + 1
    /\ state' = "running"
    /\ Turn(p, "plan", [NoTask EXCEPT !.cutoff = today, !.periods = Periods])
    /\ UNCHANGED <<formal, stored, interruptions>>

\* The day after the last daily report of the portfolio.
StartDay == LastOf(StoredDays(Portfolio)) + 1

\* The trading days to do up to the cutoff (_trading_dates), and the hash of the
\* file that generate_daily_range takes.
Plan(p) ==
    LET t == task[p]
        todo == {d \in priced : StartDay <= d /\ d <= t.cutoff}
    IN
    /\ phase[p] = "plan"
    /\ IF todo = {} THEN Turn(p, "read", t)
       ELSE Turn(p, "build", [t EXCEPT !.before = source, !.days = todo])
    /\ UNCHANGED <<formal, stored, state, runs, interruptions>>

\* Mutant: the newest day first.
NewestFirst(t) == LastOf(t.days)
\* ORDER BY trade_date.
NextDay(t) == FirstOf(t.days)

\* build_daily_report_set: every report of the day is built, each from the file
\* as it is then, before the first is stored.
Build(p) ==
    LET t == task[p]
        built == Append(t.built, source)
    IN
    /\ phase[p] = "build"
    /\ Turn(p, IF Len(built) = Len(Subjects(NextDay(t))) THEN "save" ELSE "build",
            [t EXCEPT !.built = built, !.seen = @ \cup {source}])
    /\ UNCHANGED <<formal, stored, state, runs, interruptions>>

DayIsDone(t) == t.saved + 1 = Len(Subjects(NextDay(t)))

\* The next report of the day is stored.
Save(p) ==
    LET t == task[p]
        d == NextDay(t)
        i == t.saved + 1
    IN
    /\ phase[p] = "save"
    /\ SaveDaily([day |-> d, subject |-> Subjects(d)[i], version |-> t.built[i]])
    /\ IF ~ DayIsDone(t) THEN Turn(p, "save", [t EXCEPT !.saved = i])
       ELSE Turn(p, IF t.days = {d} THEN "after" ELSE "build",
                 [t EXCEPT !.days = @ \ {d}, !.built = <<>>, !.saved = 0])
    /\ UNCHANGED <<formal, summaries, state, runs, interruptions>>

\* Mutant: the hash is not compared.
UnchangedAssumed(t) == TRUE
SourceUnchanged(t) == source = t.before

\* "formal portfolio database changed during daily range generation": the run
\* fails, what it stored stays.
CheckAfter(p) ==
    /\ phase[p] = "after"
    /\ IF SourceUnchanged(task[p]) THEN Turn(p, "read", task[p]) /\ UNCHANGED state
       ELSE Turn(p, "idle", NoTask) /\ state' = "failed"
    /\ UNCHANGED <<formal, stored, runs, interruptions>>

\* generate_periodic_summaries: the stored daily reports of the window by
\* subject; there may be none.
ReadWindow(p) ==
    LET t == task[p]
        window == Window[t.periods[1]][t.cutoff]
        covered == {s \in AllSubjects : StoredDays(s) \cap window # {}}
    IN
    /\ phase[p] = "read"
    /\ IF t.periods = <<>> THEN Turn(p, "done", t)
       ELSE IF covered = {} THEN Turn(p, "read", [t EXCEPT !.periods = Tail(@)])
       ELSE Turn(p, "aggregate",
                 [t EXCEPT !.groups = {[period |-> t.periods[1], subject |-> s,
                                        days |-> StoredDays(s) \cap window] : s \in covered}])
    /\ UNCHANGED <<formal, stored, state, runs, interruptions>>

\* One summary is stored.
Aggregate(p) ==
    LET t == task[p] IN
    /\ phase[p] = "aggregate"
    /\ \E g \in t.groups :
          /\ SaveSummary(g)
          /\ IF t.groups = {g}
             THEN Turn(p, "read", [t EXCEPT !.groups = {}, !.periods = Tail(@)])
             ELSE Turn(p, "aggregate", [t EXCEPT !.groups = @ \ {g}])
    /\ UNCHANGED <<formal, daily, state, runs, interruptions>>

Finish(p) ==
    /\ phase[p] = "done"
    /\ state' = "succeeded"
    /\ Turn(p, "idle", NoTask)
    /\ UNCHANGED <<formal, stored, runs, interruptions>>

-----------------------------------------------------------------------------
(* Interruptions *)

Interrupt ==
    /\ interruptions < MaxInterruptions
    /\ interruptions' = interruptions + 1

\* An exception is recorded ...
RunFails(p) ==
    /\ phase[p] # "idle" /\ Interrupt
    /\ state' = "failed"
    /\ Turn(p, "idle", NoTask)
    /\ UNCHANGED <<formal, stored, runs>>

\* ... and the end of the process is not.
ProcessEnds(p) ==
    /\ phase[p] # "idle" /\ Interrupt
    /\ Turn(p, "idle", NoTask)
    /\ UNCHANGED <<formal, stored, state, runs>>

-----------------------------------------------------------------------------
PeriodicInit ==
    /\ today = 1 /\ priced = {1} /\ late = {} /\ source = 1
    /\ daily = {[day |-> 1, subject |-> Subjects(1)[i], version |-> 1] :
                    i \in DOMAIN Subjects(1)}
    /\ summaries = {} /\ state = "succeeded"
    /\ phase = [p \in Reporters |-> "idle"]
    /\ task = [p \in Reporters |-> NoTask]
    /\ trades = 0 /\ runs = 0 /\ interruptions = 0

RunOnce(p) ==
    \/ Begin(p) \/ Plan(p) \/ Build(p) \/ Save(p) \/ CheckAfter(p)
    \/ ReadWindow(p) \/ Aggregate(p) \/ Finish(p)

PeriodicNext ==
    \/ Tick \/ PriceDay \/ TradeCommit
    \/ \E p \in Reporters : RunOnce(p) \/ RunFails(p) \/ ProcessEnds(p)

PeriodicSpec == PeriodicInit /\ [][PeriodicNext]_periodicVars

-----------------------------------------------------------------------------
(* Properties *)

DailyReport == [day : Days, subject : AllSubjects, version : Nat]
Summary == [period : PeriodNames, subject : AllSubjects, days : SUBSET Days]

\* Shapes of the store, which has one report of an identity, and of each run.
PeriodicTypes ==
    /\ today \in Days /\ priced \subseteq Days /\ late \subseteq priced /\ source \in Nat
    /\ daily \subseteq DailyReport /\ summaries \subseteq Summary
    /\ \A x, y \in daily : x.day = y.day /\ x.subject = y.subject => x = y
    /\ \A x, y \in summaries : SameIdentity(x, y) => x = y
    /\ state \in {"running", "succeeded", "failed"}
    /\ phase \in [Reporters -> Phases]
    /\ trades \in 0 .. MaxTrades /\ runs \in 0 .. MaxRuns
    /\ interruptions \in 0 .. MaxInterruptions

\* No trading day before the last daily report of the portfolio is left out,
\* wherever a run was interrupted and whichever run went on, in whatever order the
\* days got their prices (PeriodicReportRunner.run_once takes the days after the
\* last).  Only a day that got its first prices when a later one was stored or
\* planned is passed over, and no later run comes back to it.
NoDaySkipped ==
    \A d \in priced \ late :
        d < LastOf(StoredDays(Portfolio)) => d \in StoredDays(Portfolio)

Complete(d) ==
    \A i \in DOMAIN Subjects(d) : d \in StoredDays(Subjects(d)[i])
Saving(d) == \E p \in Reporters : phase[p] = "save" /\ NextDay(task[p]) = d
Incomplete == {d \in StoredDays(Portfolio) : ~ Complete(d) /\ ~ Saving(d)}

\* A run that goes on to the summaries has built all its daily reports from the
\* version of the portfolio whose hash it reports, whatever was committed
\* meanwhile (generate_daily_range).
OneVersionPerRun ==
    \A p \in Reporters :
        phase[p] \in {"read", "aggregate", "done"} => task[p].seen \subseteq {task[p].before}

Quiet == \A p \in Reporters : phase[p] = "idle"

\* "Generate missing daily reports" (PeriodicReportRunner): after a successful
\* run no stored day lacks a report of an instrument.
MissingAreGenerated == Quiet /\ state = "succeeded" => Incomplete = {}
=============================================================================
