------------------------ MODULE PeriodicReports_proofs ------------------------
(***************************************************************************)
(* Theorems about the periodic reports, for every number of processes that *)
(* run, every calendar, every set of instruments and every bound:          *)
(*                                                                         *)
(*   ReportTypes   every variable keeps its type, and the store has one    *)
(*                 report of an identity                                   *)
(*   NoGaps        no trading day priced in time is skipped                *)
(*   OneVersion    a run that goes on read one version of the portfolio    *)
(*   OneDayEach    an interruption leaves one day incomplete at most       *)
(***************************************************************************)
EXTENDS PeriodicReports, FiniteSetTheorems, WellFoundedInduction, TLAPS

-----------------------------------------------------------------------------
(* What a run knows, and where it is in the days it stores *)

Task == [cutoff : Days, days : SUBSET Days, before : Nat, built : Seq(Nat),
         saved : Nat, seen : SUBSET Nat, periods : Seq(PeriodNames),
         groups : SUBSET Summary]

TypeInv == PeriodicTypes /\ task \in [Reporters -> Task]

AtWork(p) == phase[p] \in {"build", "save"}

\* There is a day to do, and what is built and stored of the next one is less than
\* its reports, or all of it is built.
InPlace(p) ==
    LET t == task[p]
        n == Len(Subjects(NextDay(t)))
    IN
    /\ t.days # {}
    /\ phase[p] = "build" => t.saved = 0 /\ Len(t.built) < n
    /\ phase[p] = "save" => t.saved < n /\ Len(t.built) = n

ReportInv == TypeInv /\ \A p \in Reporters : AtWork(p) => InPlace(p)

\* Every day priced in time and before a stored one is stored, and one before a
\* day that a process has still to do is stored or to do as well: whoever stores
\* its next day leaves none out, whatever the others stored since the plan was made.
Timely == priced \ late
NoneLeftOut ==
    /\ StoredDays(Portfolio) # {}
    /\ \A d \in Timely, e \in StoredDays(Portfolio) : d < e => d \in StoredDays(Portfolio)
Continues(p) ==
    LET t == task[p] IN
    /\ \A d \in Timely, e \in t.days : d < e => d \in StoredDays(Portfolio) \cup t.days
    /\ t.saved > 0 => NextDay(t) \in StoredDays(Portfolio)

DayInv == NoneLeftOut /\ \A p \in Reporters : AtWork(p) => Continues(p)

\* Before the plan is made nothing is built, stored or read; while summaries are
\* stored there is a period they are of.
StageInv ==
    \A p \in Reporters :
        /\ phase[p] = "plan" =>
              task[p].saved = 0 /\ task[p].built = <<>> /\ task[p].seen = {}
        /\ phase[p] = "aggregate" => task[p].periods # <<>>

\* The versions a run has built from were current at some time since it took the
\* hash, and once the hash has been compared there was one.
Views(p) ==
    /\ AtWork(p) \/ phase[p] = "after" =>
          \A v \in task[p].seen : task[p].before <= v /\ v <= source
    /\ phase[p] \in {"read", "aggregate", "done"} =>
          task[p].seen \subseteq {task[p].before}
    /\ task[p].before <= source

SeenInv == \A p \in Reporters : Views(p)

-----------------------------------------------------------------------------
(* The reports of a day, and the store *)

\* The reports of a day begin with the portfolio's and have no second one of it.
LEMMA SubjectsType ==
  ASSUME NEW d \in Days
  PROVE  /\ Subjects(d) \in Seq(AllSubjects)
         /\ Len(Subjects(d)) \in Nat \ {0}
         /\ Subjects(d)[1] = Portfolio
         /\ \A i \in 2 .. Len(Subjects(d)) : Subjects(d)[i] # Portfolio
<1>1. Held[d] \in Seq(AllSubjects \ {Portfolio})
  BY PeriodicConstants
<1>2. \A i \in DOMAIN Subjects(d) : Subjects(d)[i] \in AllSubjects
  BY DEF AllSubjects
<1>3. Subjects(d) \in Seq({Portfolio} \cup (AllSubjects \ {Portfolio}))
  BY <1>1 DEF Subjects
<1>4. /\ Len(Subjects(d)) = 1 + Len(Held[d])
      /\ Subjects(d)[1] = Portfolio
      /\ \A i \in 2 .. Len(Subjects(d)) : Subjects(d)[i] = Held[d][i - 1]
  BY <1>1 DEF Subjects
<1>5. 1 \in DOMAIN Subjects(d)
  BY <1>1, <1>3, <1>4
<1>6. Portfolio \in AllSubjects
  BY <1>2, <1>4, <1>5
<1>7. Len(Held[d]) \in Nat
  BY <1>1
<1>8. \A i \in 2 .. Len(Subjects(d)) : Held[d][i - 1] \in AllSubjects \ {Portfolio}
  BY <1>1, <1>4, <1>7
<1> QED BY <1>3, <1>4, <1>6, <1>7, <1>8

\* A set of days with one in it has a first and a last.
LEMMA FirstDay ==
  ASSUME NEW S \in SUBSET Nat, S # {}
  PROVE  \E m \in S : \A k \in S : m <= k
<1> DEFINE T == {0 .. k : k \in S}
<1>1. T \subseteq FiniteSubsetsOf(Nat) /\ T # {}
  <2>1. \A k \in S : IsFiniteSet(0 .. k) /\ 0 .. k \subseteq Nat
    BY FS_Interval
  <2> QED BY <2>1 DEF FiniteSubsetsOf
<1>2. IsWellFoundedOn(StrictSubsetOrdering(Nat), FiniteSubsetsOf(Nat))
  BY FS_StrictSubsetOrderingWellFounded
<1>3. PICK A \in T : \A B \in T : ~ (<<B, A>> \in StrictSubsetOrdering(Nat))
  <2> HIDE DEF T
  <2> QED BY <1>1, <1>2, WFMin
<1>4. PICK m \in S : A = 0 .. m
  OBVIOUS
<1>5. ASSUME NEW k \in S, k < m PROVE FALSE
  <2>1. 0 .. k \subseteq 0 .. m /\ 0 .. k # 0 .. m
    <3>1. m \in 0 .. m /\ m \notin 0 .. k
      BY <1>5
    <3> QED BY <1>5, <3>1
  <2>2. <<0 .. k, A>> \in StrictSubsetOrdering(Nat)
    BY <1>4, <2>1 DEF StrictSubsetOrdering
  <2> QED BY <1>3, <2>2
<1> QED BY <1>5

LEMMA EndsOfDays ==
  ASSUME NEW S \in SUBSET Days, S # {}
  PROVE  /\ FirstOf(S) \in S /\ \A e \in S : FirstOf(S) <= e
         /\ LastOf(S) \in S /\ \A e \in S : e <= LastOf(S)
<1>1. LastDay \in Nat /\ \A d \in S : d \in Nat /\ d <= LastDay
  BY PeriodicConstants DEF Days
<1>2. \E d \in S : \A e \in S : d <= e
  BY <1>1, FirstDay
<1>3. \E d \in S : \A e \in S : e <= d
  <2> DEFINE R == {LastDay - d : d \in S}
  <2>1. R \in SUBSET Nat /\ R # {}
    BY <1>1
  <2> HIDE DEF R
  <2>2. PICK m \in R : \A k \in R : m <= k
    BY <2>1, FirstDay
  <2>3. PICK d \in S : m = LastDay - d
    BY DEF R
  <2>4. ASSUME NEW e \in S
        PROVE  e <= d
    <3>1. m <= LastDay - e
      BY <2>2 DEF R
    <3> QED BY <1>1, <2>3, <3>1
  <2> QED BY <2>4
<1> QED BY <1>2, <1>3 DEF FirstOf, LastOf

\* The next day of a run is the first of those it has to do (_trading_dates).
LEMMA NextIsFirst ==
  ASSUME NEW t, t.days \in SUBSET Days, t.days # {}
  PROVE  /\ NextDay(t) \in t.days /\ NextDay(t) \in Days
         /\ \A e \in t.days : NextDay(t) <= e
  BY EndsOfDays DEF NextDay

LEMMA DayOne == 1 \in Days
  BY PeriodicConstants DEF Days

LEMMA NoTaskType == NoTask \in Task
<1>1. 1 \in Days
  BY DayOne
<1> QED BY <1>1 DEF NoTask, Task

\* Storing a report adds its day to its subject's, and to no other's, and leaves
\* one report of an identity (PeriodicReportStore.save).
LEMMA SaveStores ==
  ASSUME PeriodicTypes, NEW r \in DailyReport, SaveDaily(r)
  PROVE  /\ daily' \subseteq DailyReport
         /\ \A x, y \in daily' : x.day = y.day /\ x.subject = y.subject => x = y
         /\ StoredDays(r.subject)' = StoredDays(r.subject) \cup {r.day}
         /\ \A s : s # r.subject => StoredDays(s)' = StoredDays(s)
<1>1. /\ daily \subseteq DailyReport
      /\ \A x, y \in daily : x.day = y.day /\ x.subject = y.subject => x = y
  BY DEF PeriodicTypes
<1>2. daily' = {x \in daily : x.day # r.day \/ x.subject # r.subject} \cup {r}
  BY DEF SaveDaily
<1>3. daily' \subseteq DailyReport
  BY <1>1, <1>2
<1>4. ASSUME NEW x \in daily', NEW y \in daily', x.day = y.day, x.subject = y.subject
      PROVE  x = y
  BY <1>1, <1>2, <1>4
<1>5. ASSUME NEW d
      PROVE  d \in StoredDays(r.subject)' <=> d \in StoredDays(r.subject) \cup {r.day}
  BY <1>2 DEF StoredDays
<1>6. ASSUME NEW s, s # r.subject, NEW d
      PROVE  d \in StoredDays(s)' <=> d \in StoredDays(s)
  BY <1>2, <1>6 DEF StoredDays
<1>7. \A s : s # r.subject => StoredDays(s)' = StoredDays(s)
  <2> SUFFICES ASSUME NEW s, s # r.subject PROVE StoredDays(s)' = StoredDays(s)
    OBVIOUS
  <2>1. \A d : d \in StoredDays(s)' <=> d \in StoredDays(s)
    BY <1>6
  <2> QED BY <2>1
<1>8. StoredDays(r.subject)' = StoredDays(r.subject) \cup {r.day}
  BY <1>5
<1> QED BY <1>3, <1>4, <1>7, <1>8

\* A summary replaces the one of its identity.
LEMMA SummaryStores ==
  ASSUME PeriodicTypes, NEW r \in Summary, SaveSummary(r)
  PROVE  /\ summaries' \subseteq Summary
         /\ \A x, y \in summaries' : SameIdentity(x, y) => x = y
<1>1. /\ summaries \subseteq Summary
      /\ \A x, y \in summaries : SameIdentity(x, y) => x = y
  BY DEF PeriodicTypes
<1>2. summaries' = {x \in summaries : ~ SameIdentity(x, r)} \cup {r}
  BY DEF SaveSummary
<1>3. \A x : SameIdentity(r, x) => SameIdentity(x, r)
  BY DEF SameIdentity
<1> QED BY <1>1, <1>2, <1>3

LEMMA StoredInDays ==
  ASSUME PeriodicTypes, NEW s
  PROVE  StoredDays(s) \subseteq Days
  BY DEF PeriodicTypes, StoredDays, DailyReport

-----------------------------------------------------------------------------
(* Typing, and the days a run goes through *)

Inv == ReportInv /\ DayInv

\* One process turns to a label and a task; the others stay where they are.
LEMMA TurnTypes ==
  ASSUME TypeInv, NEW p \in Reporters, NEW label \in Phases, NEW t \in Task,
         Turn(p, label, t)
  PROVE  /\ phase' \in [Reporters -> Phases] /\ task' \in [Reporters -> Task]
         /\ phase'[p] = label /\ task'[p] = t
         /\ \A q \in Reporters : q # p => phase'[q] = phase[q] /\ task'[q] = task[q]
  BY DEF TypeInv, PeriodicTypes, Turn

\* A step that stores no daily report, prices no day in time that is behind, and
\* lets nobody else begin to work on the days leaves none out.
LEMMA NothingStored ==
  ASSUME Inv, TypeInv', daily' = daily,
         \A d \in Timely' : d \in Timely \/ (d \in Days /\ ~ Behind(d)),
         \A q \in Reporters : phase'[q] \in {"build", "save"} =>
             phase'[q] = phase[q] /\ task'[q] = task[q]
  PROVE  Inv'
<1>1. \A s : StoredDays(s)' = StoredDays(s)
  BY DEF StoredDays
<1>2. /\ StoredDays(Portfolio) \subseteq Days
      /\ \A q \in Reporters : task[q].days \subseteq Days
  BY StoredInDays DEF Inv, ReportInv, TypeInv, Task
<1>3. Days \subseteq Int
  BY DEF Days
<1>4. NoneLeftOut'
  <2>1. NoneLeftOut
    BY DEF Inv, DayInv
  <2>2. ASSUME NEW d \in Timely', NEW e \in StoredDays(Portfolio), d < e
        PROVE  d \in StoredDays(Portfolio)
    <3>1. CASE d \in Timely
      BY <2>1, <2>2, <3>1 DEF NoneLeftOut
    <3>2. CASE d \in Days /\ ~ Behind(d)
      BY <1>2, <1>3, <2>2, <3>2 DEF Behind
    <3> QED BY <3>1, <3>2
  <2> QED BY <1>1, <2>1, <2>2 DEF NoneLeftOut
<1>5. ASSUME NEW q \in Reporters, AtWork(q)'
      PROVE  InPlace(q)' /\ Continues(q)'
  <2>1. AtWork(q) /\ phase'[q] = phase[q] /\ task'[q] = task[q]
    BY <1>5 DEF AtWork
  <2>2. InPlace(q) /\ Continues(q)
    BY <2>1 DEF Inv, ReportInv, DayInv
  <2>3. InPlace(q)'
    BY <2>1, <2>2 DEF InPlace, Subjects, NextDay, FirstOf
  <2>4. ASSUME NEW d \in Timely', NEW e \in task[q].days, d < e
        PROVE  d \in StoredDays(Portfolio) \cup task[q].days
    <3>1. CASE d \in Timely
      BY <2>2, <2>4, <3>1 DEF Continues
    <3>2. CASE d \in Days /\ ~ Behind(d)
      BY <1>2, <1>3, <2>4, <3>2 DEF Behind
    <3> QED BY <3>1, <3>2
  <2>5. task[q].saved > 0 => NextDay(task[q]) \in StoredDays(Portfolio)
    BY <2>2 DEF Continues
  <2>6. Continues(q)'
    BY <1>1, <2>1, <2>4, <2>5 DEF Continues, NextDay, FirstOf
  <2> QED BY <2>3, <2>6
<1> QED BY <1>4, <1>5 DEF Inv, ReportInv, DayInv

\* A process that turns elsewhere than to the days, and stores no daily report.
LEMMA TurnsAway ==
  ASSUME Inv, NEW p \in Reporters, NEW label \in Phases \ {"build", "save"},
         NEW t \in Task, Turn(p, label, t), PeriodicTypes', daily' = daily,
         UNCHANGED formal
  PROVE  Inv'
<1>1. TypeInv
  BY DEF Inv, ReportInv
<1>2. /\ task' \in [Reporters -> Task] /\ phase'[p] = label
      /\ \A q \in Reporters : q # p => phase'[q] = phase[q] /\ task'[q] = task[q]
  BY <1>1, TurnTypes
<1>3. TypeInv'
  BY <1>2 DEF TypeInv
<1>4. ASSUME NEW q \in Reporters, phase'[q] \in {"build", "save"}
      PROVE  phase'[q] = phase[q] /\ task'[q] = task[q]
  <2>1. q # p
    BY <1>2, <1>4
  <2> QED BY <1>2, <2>1
<1>5. Timely' = Timely
  BY DEF Timely, formal
<1> QED BY <1>3, <1>4, <1>5, NothingStored

LEMMA ClockStep ==
  ASSUME Inv, Tick \/ PriceDay \/ TradeCommit
  PROVE  Inv'
<1>1. TypeInv
  BY DEF Inv, ReportInv
<1>2. LastDay \in Nat \ {0} /\ MaxTrades \in Nat
  BY PeriodicConstants
<1>3. /\ today' \in Days /\ source' \in Nat /\ trades' \in 0 .. MaxTrades
  BY <1>1, <1>2 DEF Tick, PriceDay, TradeCommit, TypeInv, PeriodicTypes, Days, stored
<1>4. /\ priced' \subseteq Days /\ late' \subseteq priced'
      /\ \A d \in priced' \ late' : d \in priced \ late \/ (d \in Days /\ ~ Behind(d))
  <2>1. priced \subseteq Days /\ late \subseteq priced
    BY <1>1 DEF TypeInv, PeriodicTypes
  <2>2. CASE Tick \/ TradeCommit
    BY <2>1, <2>2 DEF Tick, TradeCommit
  <2>3. CASE PriceDay
    <3>1. PICK d \in Days \ priced : /\ priced' = priced \cup {d}
                                      /\ late' = IF Behind(d) THEN late \cup {d} ELSE late
      BY <2>3 DEF PriceDay
    <3>2. CASE Behind(d)
      BY <2>1, <3>1, <3>2
    <3>3. CASE ~ Behind(d)
      BY <2>1, <3>1, <3>3
    <3> QED BY <3>2, <3>3
  <2> QED BY <2>2, <2>3
<1>5. UNCHANGED <<stored, state, phase, task, runs, interruptions>>
  BY DEF Tick, PriceDay, TradeCommit
<1>6. PeriodicTypes'
  BY <1>1, <1>3, <1>4, <1>5 DEF TypeInv, PeriodicTypes, stored, SameIdentity, FirstOf, LastOf
<1>7. TypeInv'
  BY <1>1, <1>5, <1>6 DEF TypeInv
<1>8. \A d \in Timely' : d \in Timely \/ (d \in Days /\ ~ Behind(d))
  BY <1>4 DEF Timely
<1> QED BY <1>5, <1>7, <1>8, NothingStored DEF stored

\* What a step of a process leaves alone keeps its type.
LEMMA FormalKept ==
  ASSUME TypeInv, UNCHANGED formal, NEW p \in Reporters, NEW label \in Phases,
         NEW t \in Task, Turn(p, label, t),
         state' \in {"running", "succeeded", "failed"},
         runs' \in 0 .. MaxRuns, interruptions' \in 0 .. MaxInterruptions,
         daily' \subseteq DailyReport,
         \A x, y \in daily' : x.day = y.day /\ x.subject = y.subject => x = y,
         summaries' \subseteq Summary,
         \A x, y \in summaries' : SameIdentity(x, y) => x = y
  PROVE  PeriodicTypes'
<1>1. phase' \in [Reporters -> Phases]
  BY TurnTypes
<1>2. /\ today' \in Days /\ priced' \subseteq Days /\ late' \subseteq priced'
      /\ source' \in Nat /\ trades' \in 0 .. MaxTrades
  BY DEF TypeInv, PeriodicTypes, formal
<1> QED BY <1>1, <1>2 DEF PeriodicTypes

\* The same for a step that stores nothing.
LEMMA StoreKept ==
  ASSUME TypeInv, UNCHANGED <<formal, stored>>, NEW p \in Reporters,
         NEW label \in Phases, NEW t \in Task, Turn(p, label, t),
         state' \in {"running", "succeeded", "failed"},
         runs' \in 0 .. MaxRuns, interruptions' \in 0 .. MaxInterruptions
  PROVE  PeriodicTypes'
<1>1. /\ daily' \subseteq DailyReport
      /\ \A x, y \in daily' : x.day = y.day /\ x.subject = y.subject => x = y
      /\ summaries' \subseteq Summary
      /\ \A x, y \in summaries' : SameIdentity(x, y) => x = y
  BY DEF TypeInv, PeriodicTypes, stored
<1> QED BY <1>1, FormalKept

LEMMA BeginStep ==
  ASSUME Inv, NEW p \in Reporters, Begin(p)
  PROVE  Inv'
<1> DEFINE t == [NoTask EXCEPT !.cutoff = today, !.periods = Periods]
<1>1. TypeInv
  BY DEF Inv, ReportInv
<1>2. t \in Task
  <2>1. today \in Days /\ Periods \in Seq(PeriodNames)
    BY <1>1, PeriodicConstants DEF TypeInv, PeriodicTypes
  <2> QED BY <2>1, NoTaskType DEF Task, NoTask
<1>3. Turn(p, "plan", t)
  BY DEF Begin
<1>4. runs' \in 0 .. MaxRuns
  BY <1>1, PeriodicConstants DEF Begin, TypeInv, PeriodicTypes
<1>5. /\ state' \in {"running", "succeeded", "failed"}
      /\ interruptions' \in 0 .. MaxInterruptions /\ UNCHANGED <<formal, stored>>
  BY <1>1 DEF Begin, TypeInv, PeriodicTypes
<1>6. "plan" \in Phases \ {"build", "save"}
  BY DEF Phases
<1>7. PeriodicTypes'
  <2> HIDE DEF t
  <2> QED BY <1>1, <1>2, <1>3, <1>4, <1>5, <1>6, StoreKept
<1> HIDE DEF t
<1> QED BY <1>2, <1>3, <1>5, <1>6, <1>7, TurnsAway DEF stored

\* The days to do are those priced after the last stored one; one priced in time
\* that is not among them, though a later one is, is stored (run_once).
LEMMA PlannedDays ==
  ASSUME Inv, NEW last \in Days, NEW todo,
         todo = {d \in priced : StartDay <= d /\ d <= last}
  PROVE  /\ todo \in SUBSET Days
         /\ \A d \in Timely, e \in todo : d < e => d \in StoredDays(Portfolio) \cup todo
<1>1. priced \subseteq Days /\ Days \subseteq Int
  BY DEF Inv, ReportInv, TypeInv, PeriodicTypes, Days
<1>2. StoredDays(Portfolio) \in SUBSET Days /\ StoredDays(Portfolio) # {}
  BY StoredInDays DEF Inv, ReportInv, TypeInv, DayInv, NoneLeftOut
<1> DEFINE z == LastOf(StoredDays(Portfolio))
<1>3. z \in StoredDays(Portfolio) /\ z \in Int
  BY <1>1, <1>2, EndsOfDays
<1>4. StartDay = z + 1
  BY DEF StartDay
<1> HIDE DEF z
<1>5. ASSUME NEW d \in Timely, NEW e \in todo, d < e
      PROVE  d \in StoredDays(Portfolio) \cup todo
  <2>1. d \in priced /\ d \in Int /\ e \in Int /\ e <= last /\ last \in Int
    BY <1>1 DEF Timely
  <2>2. CASE z < d
    <3>1. StartDay <= d /\ d <= last
      BY <1>3, <1>4, <1>5, <2>1, <2>2
    <3> QED BY <2>1, <3>1
  <2>3. CASE d < z
    BY <1>3, <2>3 DEF Inv, DayInv, NoneLeftOut
  <2>4. CASE d = z
    BY <1>3, <2>4
  <2> QED BY <1>3, <2>1, <2>2, <2>3, <2>4
<1> QED BY <1>1, <1>5

\* A process that turns to the days, or stays with them, and stores nothing.
LEMMA TurnsToDays ==
  ASSUME Inv, NEW p \in Reporters, NEW label \in {"build", "save"}, NEW t \in Task,
         Turn(p, label, t), PeriodicTypes', daily' = daily, UNCHANGED formal,
         InPlace(p)', Continues(p)'
  PROVE  Inv'
<1>1. TypeInv
  BY DEF Inv, ReportInv
<1>2. label \in Phases
  BY DEF Phases
<1>3. /\ task' \in [Reporters -> Task]
      /\ \A q \in Reporters : q # p => phase'[q] = phase[q] /\ task'[q] = task[q]
  BY <1>1, <1>2, TurnTypes
<1>4. TypeInv'
  BY <1>3 DEF TypeInv
<1>5. \A s : StoredDays(s)' = StoredDays(s)
  BY DEF StoredDays
<1>6. Timely' = Timely /\ NoneLeftOut'
  BY <1>5 DEF Inv, DayInv, NoneLeftOut, Timely, formal
<1>7. ASSUME NEW q \in Reporters, AtWork(q)', q # p
      PROVE  InPlace(q)' /\ Continues(q)'
  <2>1. AtWork(q) /\ phase'[q] = phase[q] /\ task'[q] = task[q]
    BY <1>3, <1>7 DEF AtWork
  <2>2. InPlace(q) /\ Continues(q)
    BY <2>1 DEF Inv, ReportInv, DayInv
  <2>3. InPlace(q)'
    BY <2>1, <2>2 DEF InPlace, Subjects, NextDay, FirstOf
  <2>4. Continues(q)'
    BY <1>5, <1>6, <2>1, <2>2 DEF Continues, NextDay, FirstOf
  <2> QED BY <2>3, <2>4
<1> QED BY <1>4, <1>6, <1>7 DEF Inv, ReportInv, DayInv

LEMMA PlanStep ==
  ASSUME Inv, StageInv, NEW p \in Reporters, Plan(p)
  PROVE  Inv'
<1> DEFINE todo == {d \in priced : StartDay <= d /\ d <= task[p].cutoff}
           t == [task[p] EXCEPT !.before = source, !.days = todo]
<1>1. TypeInv
  BY DEF Inv, ReportInv
<1>2. /\ UNCHANGED <<formal, stored>> /\ daily' = daily
      /\ state' \in {"running", "succeeded", "failed"}
      /\ runs' \in 0 .. MaxRuns /\ interruptions' \in 0 .. MaxInterruptions
  BY <1>1 DEF Plan, TypeInv, PeriodicTypes, stored
<1>3. task[p] \in Task
  BY <1>1 DEF TypeInv
<1>4. CASE todo = {}
  <2>1. Turn(p, "read", task[p])
    BY <1>4 DEF Plan
  <2>2. "read" \in Phases \ {"build", "save"}
    BY DEF Phases
  <2>3. PeriodicTypes'
    BY <1>1, <1>2, <1>3, <2>1, <2>2, StoreKept
  <2> QED BY <1>2, <1>3, <2>1, <2>2, <2>3, TurnsAway
<1>5. CASE todo # {}
  <2>1. Turn(p, "build", t) /\ phase[p] = "plan"
    BY <1>5 DEF Plan
  <2>2. /\ todo \in SUBSET Days
        /\ \A d \in Timely, e \in todo : d < e => d \in StoredDays(Portfolio) \cup todo
    <3>1. task[p].cutoff \in Days
      BY <1>3 DEF Task
    <3> QED BY <3>1, PlannedDays
  <2>3. source \in Nat
    BY <1>1 DEF TypeInv, PeriodicTypes
  <2> HIDE DEF todo
  <2>4. t \in Task /\ t.days = todo /\ t.saved = task[p].saved /\ t.built = task[p].built
    BY <1>3, <2>2, <2>3 DEF Task
  <2>5. task[p].saved = 0 /\ task[p].built = <<>>
    BY <2>1 DEF StageInv
  <2> HIDE DEF t
  <2>6. "build" \in Phases
    BY DEF Phases
  <2>7. PeriodicTypes'
    BY <1>1, <1>2, <2>1, <2>4, <2>6, StoreKept
  <2>8. phase'[p] = "build" /\ task'[p] = t
    BY <1>1, <2>1, <2>4, <2>6, TurnTypes
  <2>9. Len(Subjects(NextDay(t))) > 0
    <3>1. NextDay(t) \in Days
      BY <1>5, <2>2, <2>4, NextIsFirst
    <3> QED BY <3>1, SubjectsType
  <2>10. InPlace(p)'
    BY <1>5, <2>4, <2>5, <2>8, <2>9 DEF InPlace, Subjects, NextDay, FirstOf
  <2>11. StoredDays(Portfolio)' = StoredDays(Portfolio) /\ Timely' = Timely
    BY <1>2 DEF StoredDays, Timely, formal
  <2>12. Continues(p)'
    BY <2>2, <2>4, <2>5, <2>8, <2>11 DEF Continues
  <2> QED BY <1>2, <2>1, <2>4, <2>7, <2>10, <2>12, TurnsToDays
<1> QED BY <1>4, <1>5

\* Every report of the day is built before the first is stored.
LEMMA BuildStep ==
  ASSUME Inv, NEW p \in Reporters, Build(p)
  PROVE  Inv'
<1> DEFINE built == Append(task[p].built, source)
           label == IF Len(built) = Len(Subjects(NextDay(task[p]))) THEN "save" ELSE "build"
           t == [task[p] EXCEPT !.built = built, !.seen = @ \cup {source}]
<1>1. TypeInv
  BY DEF Inv, ReportInv
<1>2. /\ UNCHANGED <<formal, stored>> /\ daily' = daily
      /\ state' \in {"running", "succeeded", "failed"}
      /\ runs' \in 0 .. MaxRuns /\ interruptions' \in 0 .. MaxInterruptions
  BY <1>1 DEF Build, TypeInv, PeriodicTypes, stored
<1>3. task[p] \in Task /\ source \in Nat
  BY <1>1 DEF TypeInv, PeriodicTypes
<1>4. Turn(p, label, t) /\ phase[p] = "build"
  BY DEF Build
<1>5. InPlace(p) /\ Continues(p)
  BY <1>4 DEF Inv, ReportInv, DayInv, AtWork
<1>6. built \in Seq(Nat) /\ Len(built) = Len(task[p].built) + 1
  BY <1>3 DEF Task
<1> HIDE DEF built
<1>7. t \in Task /\ t.days = task[p].days /\ t.saved = task[p].saved /\ t.built = built
      /\ NextDay(t) = NextDay(task[p])
  BY <1>3, <1>6 DEF Task, NextDay
<1>8. label \in {"build", "save"} /\ label \in Phases
  BY DEF Phases
<1> DEFINE n == Len(Subjects(NextDay(task[p])))
<1>9. n \in Nat /\ Len(task[p].built) \in Nat
  <2>1. NextDay(task[p]) \in Days
    BY <1>3, <1>5, NextIsFirst DEF Task, InPlace
  <2> QED BY <1>3, <2>1, SubjectsType DEF Task
<1>10. task[p].days # {} /\ task[p].saved = 0 /\ Len(task[p].built) < n
  BY <1>4, <1>5 DEF InPlace
<1>11. /\ label = "build" => Len(built) < n
       /\ label = "save" => task[p].saved < n /\ Len(built) = n
  <2> HIDE DEF n
  <2>1. label = IF Len(built) = n THEN "save" ELSE "build"
    BY DEF n
  <2> HIDE DEF label
  <2> QED BY <1>6, <1>9, <1>10, <2>1
<1> HIDE DEF t, label
<1>12. PeriodicTypes'
  BY <1>1, <1>2, <1>4, <1>7, <1>8, StoreKept
<1>13. phase'[p] = label /\ task'[p] = t
  BY <1>1, <1>4, <1>7, <1>8, TurnTypes
<1>14. InPlace(p)'
  BY <1>7, <1>10, <1>11, <1>13 DEF InPlace, Subjects, NextDay, FirstOf
<1>15. StoredDays(Portfolio)' = StoredDays(Portfolio) /\ Timely' = Timely
  BY <1>2 DEF StoredDays, Timely, formal
<1>16. Continues(p)'
  BY <1>5, <1>7, <1>13, <1>15 DEF Continues, NextDay, FirstOf
<1> QED BY <1>2, <1>4, <1>7, <1>8, <1>12, <1>14, <1>16, TurnsToDays
\* What Save stores: the report whose turn it is, of the day whose turn it is.
LEMMA StoresNext ==
  ASSUME Inv, NEW p \in Reporters, Save(p)
  PROVE  \E r \in DailyReport :
            /\ SaveDaily(r)
            /\ r.day = NextDay(task[p])
            /\ task[p].saved = 0 => r.subject = Portfolio
            /\ task[p].saved > 0 => r.subject # Portfolio
<1> DEFINE t == task[p]
           d == NextDay(t)
           i == t.saved + 1
           n == Len(Subjects(d))
           r == [day |-> d, subject |-> Subjects(d)[i], version |-> t.built[i]]
<1>1. t \in Task /\ InPlace(p) /\ phase[p] = "save"
  BY DEF Save, Inv, ReportInv, TypeInv, AtWork
<1>2. t.days \in SUBSET Days /\ t.days # {} /\ t.saved \in Nat /\ t.built \in Seq(Nat)
  BY <1>1 DEF Task, InPlace
<1>3. d \in Days
  <2> HIDE DEF t
  <2> QED BY <1>2, NextIsFirst
<1>4. /\ Subjects(d) \in Seq(AllSubjects) /\ n \in Nat /\ Subjects(d)[1] = Portfolio
      /\ \A j \in 2 .. n : Subjects(d)[j] # Portfolio
  BY <1>3, SubjectsType
<1>5. t.saved < n /\ Len(t.built) = n
  BY <1>1 DEF InPlace
<1>6. SaveDaily(r)
  BY DEF Save
<1> HIDE DEF t, d, n
<1>7. i \in 1 .. n /\ (t.saved = 0 => i = 1) /\ (t.saved > 0 => i \in 2 .. n)
  BY <1>2, <1>4, <1>5
<1> HIDE DEF i
<1>8. Subjects(d)[i] \in AllSubjects /\ t.built[i] \in Nat
  BY <1>2, <1>4, <1>5, <1>7 DEF n
<1>9. r \in DailyReport
  BY <1>3, <1>8 DEF DailyReport
<1>10. r.day = d /\ r.subject = Subjects(d)[i]
  OBVIOUS
<1> HIDE DEF r
<1>11. /\ t.saved = 0 => r.subject = Portfolio
       /\ t.saved > 0 => r.subject # Portfolio
  BY <1>4, <1>7, <1>10
<1> QED BY <1>6, <1>9, <1>10, <1>11 DEF t, d

\* The portfolio's report of a day is stored before the others of that day, and
\* the day is the next one to do.
LEMMA SaveLeavesNone ==
  ASSUME Inv, NEW p \in Reporters, Save(p)
  PROVE  /\ NoneLeftOut' /\ Timely' = Timely
         /\ StoredDays(Portfolio) \subseteq StoredDays(Portfolio)'
         /\ NextDay(task[p]) \in StoredDays(Portfolio)'
         /\ daily' \subseteq DailyReport
         /\ \A x, y \in daily' : x.day = y.day /\ x.subject = y.subject => x = y
<1>1. PICK r \in DailyReport :
            /\ SaveDaily(r)
            /\ r.day = NextDay(task[p])
            /\ task[p].saved = 0 => r.subject = Portfolio
            /\ task[p].saved > 0 => r.subject # Portfolio
  BY StoresNext
<1>2. task[p].saved \in Nat /\ task[p] \in Task /\ InPlace(p) /\ Continues(p)
  BY DEF Inv, ReportInv, TypeInv, DayInv, Task, Save, AtWork
<1>3. /\ daily' \subseteq DailyReport
      /\ \A x, y \in daily' : x.day = y.day /\ x.subject = y.subject => x = y
      /\ StoredDays(r.subject)' = StoredDays(r.subject) \cup {r.day}
      /\ \A s : s # r.subject => StoredDays(s)' = StoredDays(s)
  BY <1>1, SaveStores DEF Inv, ReportInv, TypeInv
<1>4. NoneLeftOut /\ Timely' = Timely
  BY DEF Inv, DayInv, Timely, Save, formal
<1>5. /\ r.day \in task[p].days /\ \A e \in task[p].days : r.day <= e
      /\ task[p].days \subseteq Int /\ Timely \subseteq Int
  <2>1. task[p].days \in SUBSET Days /\ task[p].days # {} /\ Days \subseteq Int
    BY <1>2 DEF Task, InPlace, Days
  <2>2. Timely \subseteq Int
    BY <2>1 DEF Timely, Inv, ReportInv, TypeInv, PeriodicTypes
  <2> QED BY <1>1, <2>1, <2>2, NextIsFirst
<1>6. CASE task[p].saved = 0
  <2>1. StoredDays(Portfolio)' = StoredDays(Portfolio) \cup {r.day}
    BY <1>1, <1>3, <1>6
  <2>2. ASSUME NEW d \in Timely, d < r.day
        PROVE  d \in StoredDays(Portfolio)
    <3>1. d \in StoredDays(Portfolio) \cup task[p].days
      BY <1>2, <1>5, <2>2 DEF Continues
    <3>2. d \notin task[p].days
      BY <1>5, <2>2
    <3> QED BY <3>1, <3>2
  <2>3. NoneLeftOut'
    BY <1>4, <2>1, <2>2 DEF NoneLeftOut
  <2> QED BY <1>1, <1>3, <1>4, <2>1, <2>3
<1>7. CASE task[p].saved > 0
  <2>1. StoredDays(Portfolio)' = StoredDays(Portfolio)
    BY <1>1, <1>3, <1>7
  <2>2. NoneLeftOut'
    BY <1>4, <2>1 DEF NoneLeftOut
  <2>3. NextDay(task[p]) \in StoredDays(Portfolio)
    BY <1>2, <1>7 DEF Continues
  <2> QED BY <1>3, <1>4, <2>1, <2>2, <2>3
<1> QED BY <1>2, <1>6, <1>7

\* The others continue: what they count on stays stored.
LEMMA OthersContinue ==
  ASSUME Inv, NEW p \in Reporters, Save(p), NEW q \in Reporters, q # p, AtWork(q)',
         phase'[q] = phase[q], task'[q] = task[q]
  PROVE  InPlace(q)' /\ Continues(q)'
<1>1. AtWork(q)
  BY DEF AtWork
<1>2. InPlace(q) /\ Continues(q)
  BY <1>1 DEF Inv, ReportInv, DayInv
<1>3. InPlace(q)'
  BY <1>2 DEF InPlace, Subjects, NextDay, FirstOf
<1>4. /\ Timely' = Timely /\ StoredDays(Portfolio) \subseteq StoredDays(Portfolio)'
  BY SaveLeavesNone
<1>5. Continues(q)'
  BY <1>2, <1>4 DEF Continues, NextDay, FirstOf
<1> QED BY <1>3, <1>5

\* A process that turns anywhere once it has stored a report.
LEMMA SaveTurns ==
  ASSUME Inv, NEW p \in Reporters, Save(p), NEW label \in Phases, NEW t \in Task,
         Turn(p, label, t),
         label \in {"build", "save"} => InPlace(p)' /\ Continues(p)'
  PROVE  Inv'
<1>1. TypeInv
  BY DEF Inv, ReportInv
<1>2. /\ UNCHANGED <<formal, summaries, state, runs, interruptions>>
      /\ daily' \subseteq DailyReport
      /\ \A x, y \in daily' : x.day = y.day /\ x.subject = y.subject => x = y
  BY SaveLeavesNone DEF Save
<1>3. PeriodicTypes'
  <2>1. /\ summaries' \subseteq Summary
        /\ \A x, y \in summaries' : SameIdentity(x, y) => x = y
        /\ state' \in {"running", "succeeded", "failed"}
        /\ runs' \in 0 .. MaxRuns /\ interruptions' \in 0 .. MaxInterruptions
    BY <1>1, <1>2 DEF TypeInv, PeriodicTypes
  <2> QED BY <1>1, <1>2, <2>1, FormalKept
<1>4. /\ task' \in [Reporters -> Task] /\ phase'[p] = label
      /\ \A q \in Reporters : q # p => phase'[q] = phase[q] /\ task'[q] = task[q]
  BY <1>1, TurnTypes
<1>5. ASSUME NEW q \in Reporters, AtWork(q)'
      PROVE  InPlace(q)' /\ Continues(q)'
  <2>1. CASE q = p
    BY <1>4, <1>5, <2>1 DEF AtWork
  <2>2. CASE q # p
    BY <1>4, <1>5, <2>2, OthersContinue
  <2> QED BY <2>1, <2>2
<1> QED BY <1>3, <1>4, <1>5, SaveLeavesNone DEF Inv, ReportInv, TypeInv, DayInv

LEMMA SaveStep ==
  ASSUME Inv, NEW p \in Reporters, Save(p)
  PROVE  Inv'
<1> DEFINE t == task[p]
           f == NextDay(t)
           n == Len(Subjects(f))
           i == t.saved + 1
           next == [t EXCEPT !.saved = i]
           after == [t EXCEPT !.days = @ \ {f}, !.built = <<>>, !.saved = 0]
<1>1. TypeInv
  BY DEF Inv, ReportInv
<1>2. t \in Task /\ phase[p] = "save" /\ InPlace(p) /\ Continues(p)
  BY DEF Save, Inv, ReportInv, DayInv, TypeInv, AtWork
<1>3. t.days \in SUBSET Days /\ t.days # {} /\ t.saved \in Nat /\ t.built \in Seq(Nat)
  BY <1>2 DEF Task, InPlace
<1>4. t.saved < n /\ Len(t.built) = n
  BY <1>2 DEF InPlace
<1>5. f \in t.days /\ f \in Days /\ n \in Nat
  <2>1. f \in t.days /\ f \in Days
    <3> HIDE DEF t
    <3> QED BY <1>3, NextIsFirst
  <2> QED BY <2>1, SubjectsType
<1>6. /\ f \in StoredDays(Portfolio)' /\ NoneLeftOut' /\ Timely' = Timely
      /\ StoredDays(Portfolio) \subseteq StoredDays(Portfolio)'
  BY SaveLeavesNone
<1>7. \A d \in Timely, e \in t.days : d < e => d \in StoredDays(Portfolio) \cup t.days
  BY <1>2 DEF Continues
<1>8. CASE ~ DayIsDone(t)
  <2>1. Turn(p, "save", next)
    BY <1>8 DEF Save
  <2>2. next \in Task /\ next.days = t.days /\ next.built = t.built /\ next.saved = i
    <3>1. i \in Nat /\ t \in Task
      BY <1>2, <1>3
    <3> HIDE DEF i, t
    <3> QED BY <3>1 DEF Task
  <2> HIDE DEF next
  <2>3. "save" \in Phases
    BY DEF Phases
  <2>4. phase'[p] = "save" /\ task'[p] = next /\ NextDay(next) = f
    BY <1>1, <2>1, <2>2, <2>3, TurnTypes DEF NextDay
  <2>5. t.saved + 1 < n
    <3>1. t.saved + 1 # n
      BY <1>8 DEF DayIsDone
    <3> HIDE DEF n, t
    <3> QED BY <1>3, <1>4, <1>5, <3>1
  <2>6. InPlace(p)'
    BY <1>3, <1>4, <2>2, <2>4, <2>5 DEF InPlace, Subjects, NextDay, FirstOf
  <2>7. Continues(p)'
    <3> HIDE DEF t, f
    <3> QED BY <1>6, <1>7, <2>2, <2>4 DEF Continues, NextDay, FirstOf
  <2> QED BY <2>1, <2>2, <2>3, <2>6, <2>7, SaveTurns
<1>9. CASE DayIsDone(t)
  <2> DEFINE label == IF t.days = {f} THEN "after" ELSE "build"
  <2>1. Turn(p, label, after)
    BY <1>9 DEF Save
  <2>2. t.days \ {f} \in SUBSET Days /\ <<>> \in Seq(Nat)
    <3> HIDE DEF t, f
    <3> QED BY <1>3
  <2>3. /\ after \in Task /\ after.days = t.days \ {f} /\ after.built = <<>>
        /\ after.saved = 0
    <3> HIDE DEF f
    <3> QED BY <1>2, <2>2 DEF Task
  <2>4. label \in Phases
    BY DEF Phases
  <2> HIDE DEF after
  <2>5. phase'[p] = label /\ task'[p] = after
    BY <1>1, <2>1, <2>3, <2>4, TurnTypes
  <2>6. ASSUME label = "build"
        PROVE  InPlace(p)' /\ Continues(p)'
    <3>1. after.days # {}
      <4>1. t.days # {f}
        BY <2>6
      <4> HIDE DEF t, f, label
      <4> QED BY <1>3, <2>3, <4>1
    <3>2. NextDay(after) \in Days
      <4> HIDE DEF t, f, label
      <4> QED BY <2>2, <2>3, <3>1, NextIsFirst
    <3>3. Len(Subjects(NextDay(after))) > 0 /\ Len(<<>>) = 0
      BY <3>2, SubjectsType
    <3>4. InPlace(p)'
      BY <2>3, <2>5, <2>6, <3>1, <3>3 DEF InPlace, Subjects, NextDay, FirstOf
    <3>5. ASSUME NEW d \in Timely, NEW e \in t.days \ {f}, d < e
          PROVE  d \in StoredDays(Portfolio)' \cup (t.days \ {f})
      <4> HIDE DEF t, f, label
      <4> QED BY <1>6, <1>7, <3>5
    <3>6. Continues(p)'
      <4> HIDE DEF t, f, label
      <4> QED BY <1>6, <2>3, <2>5, <3>5 DEF Continues
    <3> QED BY <3>4, <3>6
  <2> QED BY <2>1, <2>3, <2>4, <2>6, SaveTurns
<1> QED BY <1>8, <1>9

LEMMA CheckStep ==
  ASSUME Inv, NEW p \in Reporters, CheckAfter(p)
  PROVE  Inv'
<1>1. TypeInv
  BY DEF Inv, ReportInv
<1>2. /\ UNCHANGED <<formal, stored>> /\ daily' = daily
      /\ state' \in {"running", "succeeded", "failed"}
      /\ runs' \in 0 .. MaxRuns /\ interruptions' \in 0 .. MaxInterruptions
  BY <1>1 DEF CheckAfter, TypeInv, PeriodicTypes, stored
<1>3. PICK label \in {"read", "idle"}, t \in {task[p], NoTask} : Turn(p, label, t)
  BY DEF CheckAfter
<1>4. label \in Phases \ {"build", "save"} /\ t \in Task
  BY <1>1, NoTaskType DEF TypeInv, Phases
<1>5. PeriodicTypes'
  BY <1>1, <1>2, <1>3, <1>4, StoreKept
<1> QED BY <1>2, <1>3, <1>4, <1>5, TurnsAway

\* A window's reports are read by subject (generate_periodic_summaries).
LEMMA ReadStep ==
  ASSUME Inv, NEW p \in Reporters, ReadWindow(p)
  PROVE  Inv'
<1> DEFINE t == task[p]
           window == Window[t.periods[1]][t.cutoff]
           covered == {s \in AllSubjects : StoredDays(s) \cap window # {}}
           groups == {[period |-> t.periods[1], subject |-> s,
                       days |-> StoredDays(s) \cap window] : s \in covered}
           less == [t EXCEPT !.periods = Tail(@)]
           more == [t EXCEPT !.groups = groups]
<1>1. TypeInv
  BY DEF Inv, ReportInv
<1>2. /\ UNCHANGED <<formal, stored>> /\ daily' = daily
      /\ state' \in {"running", "succeeded", "failed"}
      /\ runs' \in 0 .. MaxRuns /\ interruptions' \in 0 .. MaxInterruptions
  BY <1>1 DEF ReadWindow, TypeInv, PeriodicTypes, stored
<1>3. t \in Task /\ t.periods \in Seq(PeriodNames)
  BY <1>1 DEF TypeInv, Task
<1>4. \E label \in Phases \ {"build", "save"} : \E x \in Task : Turn(p, label, x)
  <2>1. "read" \in Phases \ {"build", "save"} /\ "done" \in Phases \ {"build", "save"}
        /\ "aggregate" \in Phases \ {"build", "save"}
    BY DEF Phases
  <2>2. CASE t.periods = <<>>
    <3>1. Turn(p, "done", t)
      BY <2>2 DEF ReadWindow
    <3> QED BY <1>3, <2>1, <3>1
  <2>3. CASE t.periods # <<>> /\ covered = {}
    <3>1. Turn(p, "read", less)
      BY <2>3 DEF ReadWindow
    <3>2. Tail(t.periods) \in Seq(PeriodNames)
      <4> HIDE DEF t
      <4> QED BY <1>3, <2>3
    <3>3. less \in Task
      BY <1>3, <3>2 DEF Task
    <3> QED BY <2>1, <3>1, <3>3
  <2>4. CASE t.periods # <<>> /\ covered # {}
    <3>1. Turn(p, "aggregate", more)
      BY <2>4 DEF ReadWindow
    <3>2. t.periods[1] \in PeriodNames
      <4> HIDE DEF t
      <4> QED BY <1>3, <2>4
    <3>3. \A s : StoredDays(s) \cap window \subseteq Days
      BY <1>1, StoredInDays DEF TypeInv
    <3>4. groups \subseteq Summary
      <4> HIDE DEF window, t
      <4> QED BY <3>2, <3>3 DEF Summary
    <3> HIDE DEF groups
    <3>5. more \in Task
      BY <1>3, <3>4 DEF Task
    <3> QED BY <2>1, <3>1, <3>5
  <2> QED BY <2>2, <2>3, <2>4
<1>5. PICK label \in Phases \ {"build", "save"} : \E x \in Task : Turn(p, label, x)
  BY <1>4
<1>6. PICK x \in Task : Turn(p, label, x)
  BY <1>5
<1>7. PeriodicTypes'
  BY <1>1, <1>2, <1>6, StoreKept
<1> QED BY <1>2, <1>6, <1>7, TurnsAway
LEMMA AggregateStep ==
  ASSUME Inv, StageInv, NEW p \in Reporters, Aggregate(p)
  PROVE  Inv'
<1> DEFINE t == task[p]
           less == [t EXCEPT !.groups = {}, !.periods = Tail(@)]
<1>1. TypeInv
  BY DEF Inv, ReportInv
<1>2. /\ UNCHANGED formal /\ daily' = daily
      /\ state' \in {"running", "succeeded", "failed"}
      /\ runs' \in 0 .. MaxRuns /\ interruptions' \in 0 .. MaxInterruptions
      /\ daily' \subseteq DailyReport
      /\ \A x, y \in daily' : x.day = y.day /\ x.subject = y.subject => x = y
  BY <1>1 DEF Aggregate, TypeInv, PeriodicTypes
<1>3. t \in Task /\ t.groups \subseteq Summary /\ t.periods \in Seq(PeriodNames)
  BY <1>1 DEF TypeInv, Task
<1>4. PICK g \in t.groups :
          /\ SaveSummary(g)
          /\ IF t.groups = {g} THEN Turn(p, "read", less)
             ELSE Turn(p, "aggregate", [t EXCEPT !.groups = @ \ {g}])
  BY DEF Aggregate
<1>5. /\ summaries' \subseteq Summary
      /\ \A x, y \in summaries' : SameIdentity(x, y) => x = y
  BY <1>1, <1>3, <1>4, SummaryStores DEF TypeInv
<1>6. "read" \in Phases \ {"build", "save"} /\ "aggregate" \in Phases \ {"build", "save"}
  BY DEF Phases
<1>7. \E label \in Phases \ {"build", "save"} : \E x \in Task : Turn(p, label, x)
  <2>1. CASE t.groups = {g}
    <3>1. t.periods # <<>>
      BY DEF Aggregate, StageInv
    <3>2. Tail(t.periods) \in Seq(PeriodNames)
      <4> HIDE DEF t
      <4> QED BY <1>3, <3>1
    <3>3. less \in Task
      BY <1>3, <3>2 DEF Task
    <3> QED BY <1>4, <1>6, <2>1, <3>3
  <2>2. CASE t.groups # {g}
    <3>1. [t EXCEPT !.groups = @ \ {g}] \in Task
      BY <1>3 DEF Task
    <3> QED BY <1>4, <1>6, <2>2, <3>1
  <2> QED BY <2>1, <2>2
<1>8. PICK label \in Phases \ {"build", "save"} : \E x \in Task : Turn(p, label, x)
  BY <1>7
<1>9. PICK x \in Task : Turn(p, label, x)
  BY <1>8
<1>10. PeriodicTypes'
  BY <1>1, <1>2, <1>5, <1>9, FormalKept
<1> QED BY <1>2, <1>9, <1>10, TurnsAway

\* A run that ends, as it should or not, leaves what it stored.
LEMMA EndStep ==
  ASSUME Inv, NEW p \in Reporters, Finish(p) \/ RunFails(p) \/ ProcessEnds(p)
  PROVE  Inv'
<1>1. TypeInv
  BY DEF Inv, ReportInv
<1>2. /\ UNCHANGED <<formal, stored>> /\ daily' = daily
      /\ state' \in {"running", "succeeded", "failed"}
      /\ runs' \in 0 .. MaxRuns
      /\ Turn(p, "idle", NoTask)
  BY <1>1 DEF Finish, RunFails, ProcessEnds, TypeInv, PeriodicTypes, stored
<1>3. interruptions' \in 0 .. MaxInterruptions
  BY <1>1, PeriodicConstants
     DEF Finish, RunFails, ProcessEnds, Interrupt, TypeInv, PeriodicTypes
<1>4. "idle" \in Phases \ {"build", "save"}
  BY DEF Phases
<1>5. PeriodicTypes'
  BY <1>1, <1>2, <1>3, <1>4, NoTaskType, StoreKept
<1> QED BY <1>2, <1>4, <1>5, NoTaskType, TurnsAway

\* No step leaves a day out, whoever takes it.
LEMMA InvStep ==
  ASSUME Inv, StageInv, [PeriodicNext]_periodicVars
  PROVE  Inv'
<1>1. CASE Tick \/ PriceDay \/ TradeCommit
  BY <1>1, ClockStep
<1>2. ASSUME NEW p \in Reporters, RunOnce(p)
      PROVE  Inv'
  BY <1>2, BeginStep, PlanStep, BuildStep, SaveStep, CheckStep, ReadStep, AggregateStep,
     EndStep DEF RunOnce
<1>3. ASSUME NEW p \in Reporters, RunFails(p) \/ ProcessEnds(p)
      PROVE  Inv'
  BY <1>3, EndStep
<1>4. CASE UNCHANGED periodicVars
  <2>1. UNCHANGED <<daily, phase, task>> /\ TypeInv' /\ Timely' = Timely
    BY <1>4 DEF periodicVars, stored, Inv, ReportInv, TypeInv, PeriodicTypes, SameIdentity,
       FirstOf, LastOf, Timely
  <2> QED BY <2>1, NothingStored
<1> QED BY <1>1, <1>2, <1>3, <1>4 DEF PeriodicNext

\* A stage begins with what the one before it left (run_once).
LEMMA StageStep ==
  ASSUME TypeInv, StageInv, [PeriodicNext]_periodicVars
  PROVE  StageInv'
<1> DEFINE Ready(p) ==
             /\ phase[p] = "plan" =>
                   task[p].saved = 0 /\ task[p].built = <<>> /\ task[p].seen = {}
             /\ phase[p] = "aggregate" => task[p].periods # <<>>
<1>1. ASSUME NEW p \in Reporters, UNCHANGED <<phase[p], task[p]>>
      PROVE  Ready(p)'
  BY <1>1 DEF StageInv
<1>2. ASSUME NEW p \in Reporters, NEW label, NEW t, Turn(p, label, t), NEW q \in Reporters,
             q # p
      PROVE  Ready(q)'
  <2>1. UNCHANGED <<phase[q], task[q]>>
    BY <1>2 DEF TypeInv, PeriodicTypes, Turn
  <2> QED BY <1>1, <2>1
<1>3. ASSUME NEW p \in Reporters, RunOnce(p) \/ RunFails(p) \/ ProcessEnds(p)
      PROVE  Ready(p)'
  <2>1. phase \in [Reporters -> Phases] /\ task \in [Reporters -> Task]
    BY DEF TypeInv, PeriodicTypes
  <2>2. CASE Begin(p)
    <3>1. task'[p] = [NoTask EXCEPT !.cutoff = today, !.periods = Periods]
          /\ phase'[p] = "plan"
      BY <2>1, <2>2 DEF Begin, Turn
    <3> QED BY <3>1 DEF NoTask
  <2>3. CASE ReadWindow(p)
    <3>1. CASE phase'[p] # "aggregate"
      BY <2>1, <2>3, <3>1 DEF ReadWindow, Turn
    <3>2. CASE phase'[p] = "aggregate"
      <4>1. task[p].periods # <<>> /\ \E groups : task'[p] = [task[p] EXCEPT !.groups = groups]
        BY <2>1, <2>3, <3>2 DEF ReadWindow, Turn
      <4>2. task'[p].periods = task[p].periods
        BY <2>1, <4>1 DEF Task
      <4> QED BY <3>2, <4>1, <4>2
    <3> QED BY <3>1, <3>2
  <2>4. CASE Aggregate(p)
    <3>1. task[p].periods # <<>>
      BY <2>4 DEF Aggregate, StageInv
    <3>2. phase'[p] = "read" \/ (phase'[p] = "aggregate" /\ task'[p].periods = task[p].periods)
      BY <2>1, <2>4 DEF Aggregate, Turn, Task
    <3> QED BY <3>1, <3>2
  <2>5. CASE Plan(p) \/ Build(p) \/ Save(p) \/ CheckAfter(p) \/ Finish(p)
             \/ RunFails(p) \/ ProcessEnds(p)
    <3>1. phase'[p] \notin {"plan", "aggregate"}
      BY <2>1, <2>5 DEF Plan, Build, Save, CheckAfter, Finish, RunFails, ProcessEnds, Turn
    <3> QED BY <3>1
  <2> QED BY <1>3, <2>2, <2>3, <2>4, <2>5 DEF RunOnce
<1>4. ASSUME NEW p \in Reporters, RunOnce(p) \/ RunFails(p) \/ ProcessEnds(p)
      PROVE  StageInv'
  <2>1. \E label, t : Turn(p, label, t)
    BY <1>4 DEF RunOnce, Begin, Plan, Build, Save, CheckAfter, ReadWindow, Aggregate, Finish,
       RunFails, ProcessEnds
  <2> QED BY <1>2, <1>3, <1>4, <2>1 DEF StageInv
<1>5. CASE Tick \/ PriceDay \/ TradeCommit \/ UNCHANGED periodicVars
  <2>1. UNCHANGED <<phase, task>>
    BY <1>5 DEF Tick, PriceDay, TradeCommit, periodicVars
  <2> QED BY <2>1 DEF StageInv
<1> QED BY <1>4, <1>5 DEF PeriodicNext
LEMMA InitHolds == PeriodicInit => Inv /\ StageInv /\ SeenInv
<1> SUFFICES ASSUME PeriodicInit PROVE Inv /\ StageInv /\ SeenInv
  OBVIOUS
<1>1. /\ daily = {[day |-> 1, subject |-> Subjects(1)[i], version |-> 1] : i \in DOMAIN Subjects(1)}
      /\ phase = [p \in Reporters |-> "idle"] /\ task = [p \in Reporters |-> NoTask]
      /\ source = 1
  BY DEF PeriodicInit
<1>2. 1 \in Days /\ LastDay \in Nat \ {0} /\ MaxTrades \in Nat /\ MaxRuns \in Nat
      /\ MaxInterruptions \in Nat
  BY PeriodicConstants, DayOne
<1>3. /\ Subjects(1) \in Seq(AllSubjects) /\ Len(Subjects(1)) \in Nat \ {0}
      /\ Subjects(1)[1] = Portfolio
  BY <1>2, SubjectsType
<1>4. daily \subseteq DailyReport
  BY <1>1, <1>2, <1>3 DEF DailyReport
<1>5. \A x, y \in daily : x.day = y.day /\ x.subject = y.subject => x = y
  BY <1>1
<1>6. PeriodicTypes
  <2>1. today \in Days /\ priced \subseteq Days /\ late \subseteq priced /\ source \in Nat
    BY <1>2 DEF PeriodicInit
  <2>2. phase \in [Reporters -> Phases]
    BY <1>1 DEF Phases
  <2>3. trades \in 0 .. MaxTrades /\ runs \in 0 .. MaxRuns /\ interruptions \in 0 .. MaxInterruptions
    BY <1>2 DEF PeriodicInit
  <2>4. summaries = {} /\ state = "succeeded"
    BY DEF PeriodicInit
  <2> QED BY <1>4, <1>5, <2>1, <2>2, <2>3, <2>4 DEF PeriodicTypes
<1>7. task \in [Reporters -> Task]
  BY <1>1, NoTaskType
<1>8. StoredDays(Portfolio) = {1} /\ Timely \subseteq {1}
  <2>1. \A x \in daily : x.day = 1
    BY <1>1
  <2>2. [day |-> 1, subject |-> Portfolio, version |-> 1] \in daily
    BY <1>1, <1>3
  <2>3. Timely \subseteq {1}
    BY DEF PeriodicInit, Timely
  <2> QED BY <2>1, <2>2, <2>3 DEF StoredDays
<1>9. \A p \in Reporters : phase[p] = "idle" /\ task[p] = NoTask
  BY <1>1
<1>10. Inv
  BY <1>2, <1>6, <1>7, <1>8, <1>9 DEF Inv, ReportInv, DayInv, TypeInv, NoneLeftOut, AtWork
<1>11. StageInv
  BY <1>9 DEF StageInv
<1>12. SeenInv
  <2>1. NoTask.before = 0 /\ 0 <= source
    BY <1>1 DEF NoTask
  <2> QED BY <1>9, <2>1 DEF SeenInv, Views, AtWork
<1> QED BY <1>10, <1>11, <1>12

LEMMA InvHolds == PeriodicSpec => [](Inv /\ StageInv)
<1>1. Inv /\ StageInv /\ [PeriodicNext]_periodicVars => (Inv /\ StageInv)'
  BY InvStep, StageStep DEF Inv, ReportInv
<1> QED BY <1>1, InitHolds, PTL DEF PeriodicSpec

\* Every variable of the periodic reports keeps its type, and there is one report
\* of an identity (PeriodicReportStore.save).
THEOREM ReportTypes == PeriodicSpec => []PeriodicTypes
<1>1. Inv => PeriodicTypes
  BY DEF Inv, ReportInv, TypeInv
<1> QED BY <1>1, InvHolds, PTL

\* No trading day before the last daily report of the portfolio is left out that
\* got its prices before a later one was stored or planned, in whatever order the
\* days got them, however many processes run at a time and wherever they are
\* interrupted (PeriodicReportRunner.run_once, _trading_dates).
THEOREM NoGaps == PeriodicSpec => []NoDaySkipped
<1>1. Inv => NoDaySkipped
  <2> SUFFICES ASSUME Inv, NEW d \in priced \ late, d < LastOf(StoredDays(Portfolio))
               PROVE  d \in StoredDays(Portfolio)
    BY DEF NoDaySkipped
  <2>1. StoredDays(Portfolio) \in SUBSET Days /\ NoneLeftOut
    BY StoredInDays DEF Inv, ReportInv, TypeInv, DayInv
  <2>2. LastOf(StoredDays(Portfolio)) \in StoredDays(Portfolio)
    BY <2>1, EndsOfDays DEF NoneLeftOut
  <2> QED BY <2>1, <2>2 DEF NoneLeftOut, Timely
<1> QED BY <1>1, InvHolds, PTL

-----------------------------------------------------------------------------
(* One version.  The portfolio file only gets newer versions.  If the hash  *)
(* is the same after the last report as before the first, all that was read *)
(* in between was the one version.                                          *)

LEMMA SourceGrows ==
  ASSUME TypeInv, [PeriodicNext]_periodicVars
  PROVE  source' \in Nat /\ source <= source'
<1>1. source \in Nat
  BY DEF TypeInv, PeriodicTypes
<1>2. source' = source \/ source' = source + 1
  BY DEF PeriodicNext, RunOnce, Tick, PriceDay, TradeCommit, Begin, Plan, Build, Save,
     CheckAfter, ReadWindow, Aggregate, Finish, RunFails, ProcessEnds, periodicVars, formal
<1> QED BY <1>1, <1>2

LEMMA OthersView ==
  ASSUME TypeInv, [PeriodicNext]_periodicVars, NEW q \in Reporters, Views(q),
         UNCHANGED <<phase[q], task[q]>>
  PROVE  Views(q)'
<1>1. source \in Nat /\ source' \in Nat /\ source <= source'
  BY SourceGrows DEF TypeInv, PeriodicTypes
<1>2. task[q].before \in Nat /\ task[q].seen \subseteq Nat
  BY DEF TypeInv, Task
<1>3. task'[q].before <= source'
  BY <1>1, <1>2 DEF Views
<1>4. ASSUME AtWork(q)' \/ phase'[q] = "after", NEW v \in task'[q].seen
      PROVE  task'[q].before <= v /\ v <= source'
  <2>1. v \in Nat /\ task[q].before <= v /\ v <= source
    BY <1>2, <1>4 DEF Views, AtWork
  <2> QED BY <1>1, <2>1
<1> QED BY <1>3, <1>4 DEF Views, AtWork

\* A process that takes a step of its run (generate_daily_range).
LEMMA OwnView ==
  ASSUME TypeInv, StageInv, [PeriodicNext]_periodicVars, NEW p \in Reporters, Views(p),
         RunOnce(p) \/ RunFails(p) \/ ProcessEnds(p)
  PROVE  Views(p)'
<1>1. phase \in [Reporters -> Phases] /\ task \in [Reporters -> Task] /\ source \in Nat
  BY DEF TypeInv, PeriodicTypes
<1>2. task[p] \in Task /\ task[p].before \in Nat /\ task[p].seen \subseteq Nat
  BY <1>1 DEF Task
<1>3. source' = source
  BY DEF RunOnce, Begin, Plan, Build, Save, CheckAfter, ReadWindow, Aggregate, Finish, RunFails,
     ProcessEnds, formal
<1>4. CASE Begin(p)
  <2>1. phase'[p] = "plan" /\ task'[p].before = 0
    BY <1>1, <1>4 DEF Begin, Turn, NoTask
  <2> QED BY <1>1, <1>3, <2>1 DEF Views, AtWork
<1>5. CASE Plan(p)
  <2>1. task[p].seen = {}
    BY <1>5 DEF Plan, StageInv
  <2>2. task'[p].seen = {} /\ task'[p].before \in {task[p].before, source}
    BY <1>1, <1>2, <1>5, <2>1 DEF Plan, Turn, Task
  <2>3. task'[p].before <= source
    BY <1>1, <1>2, <2>2 DEF Views
  <2> QED BY <1>3, <2>2, <2>3 DEF Views
<1>6. CASE Build(p)
  <2>1. /\ task'[p].seen = task[p].seen \cup {source} /\ task'[p].before = task[p].before
        /\ phase'[p] \in {"build", "save"}
    BY <1>1, <1>2, <1>6 DEF Build, Turn, Task
  <2>2. /\ \A v \in task[p].seen : task[p].before <= v /\ v <= source
        /\ task[p].before <= source
    BY <1>6 DEF Build, Views, AtWork
  <2>3. source <= source
    BY <1>1
  <2> QED BY <1>3, <2>1, <2>2, <2>3 DEF Views, AtWork
<1>7. CASE Save(p)
  <2>1. /\ task'[p].seen = task[p].seen /\ task'[p].before = task[p].before
        /\ phase'[p] \in {"build", "save", "after"}
    BY <1>1, <1>2, <1>7 DEF Save, Turn, Task
  <2>2. /\ \A v \in task[p].seen : task[p].before <= v /\ v <= source
        /\ task[p].before <= source
    BY <1>7 DEF Save, Views, AtWork
  <2> QED BY <1>3, <2>1, <2>2 DEF Views, AtWork
<1>8. CASE CheckAfter(p) /\ SourceUnchanged(task[p])
  <2>1. phase'[p] = "read" /\ task'[p] = task[p] /\ source = task[p].before
    BY <1>1, <1>8 DEF CheckAfter, SourceUnchanged, Turn
  <2>2. ASSUME NEW v \in task[p].seen
        PROVE  v = task[p].before
    <3>1. task[p].before <= v /\ v <= source /\ v \in Nat
      BY <1>2, <1>8 DEF CheckAfter, Views
    <3> QED BY <1>2, <2>1, <3>1
  <2>3. task[p].before <= source
    BY DEF Views
  <2> QED BY <1>3, <2>1, <2>2, <2>3 DEF Views, AtWork
<1>9. CASE (CheckAfter(p) /\ ~ SourceUnchanged(task[p])) \/ Finish(p) \/ RunFails(p)
              \/ ProcessEnds(p)
  <2>1. phase'[p] = "idle" /\ task'[p] = NoTask
    BY <1>1, <1>9 DEF CheckAfter, Finish, RunFails, ProcessEnds, Turn
  <2>2. NoTask.before = 0
    BY DEF NoTask
  <2> QED BY <1>1, <1>3, <2>1, <2>2 DEF Views, AtWork
<1>10. CASE ReadWindow(p) \/ Aggregate(p)
  <2>1. /\ task'[p].seen = task[p].seen /\ task'[p].before = task[p].before
        /\ phase'[p] \in {"read", "aggregate", "done"}
        /\ phase[p] \in {"read", "aggregate", "done"}
    <3>1. CASE ReadWindow(p)
      BY <1>1, <1>2, <3>1 DEF ReadWindow, Turn, Task
    <3>2. CASE Aggregate(p)
      <4>1. phase[p] = "aggregate" /\ phase'[p] \in {"read", "aggregate"}
        BY <1>1, <3>2 DEF Aggregate, Turn
      <4> DEFINE t == task[p]
                 last == [t EXCEPT !.groups = {}, !.periods = Tail(@)]
                 rest(g) == [t EXCEPT !.groups = @ \ {g}]
      <4>2. last.seen = t.seen /\ last.before = t.before
        <5> HIDE DEF t
        <5>1. t \in Task
          BY <1>2 DEF t
        <5> QED BY <5>1 DEF Task
      <4>3. \A g : rest(g).seen = t.seen /\ rest(g).before = t.before
        <5> HIDE DEF t
        <5>1. t \in Task
          BY <1>2 DEF t
        <5> QED BY <5>1 DEF Task
      <4>4. \E g : Turn(p, "read", last) \/ Turn(p, "aggregate", rest(g))
        BY <3>2 DEF Aggregate
      <4>5. \E g : task'[p] = last \/ task'[p] = rest(g)
        <5> HIDE DEF last, rest
        <5> QED BY <1>1, <4>4 DEF Turn
      <4> HIDE DEF last, rest
      <4>6. task'[p].seen = task[p].seen /\ task'[p].before = task[p].before
        BY <4>2, <4>3, <4>5
      <4> QED BY <4>1, <4>6
    <3> QED BY <1>10, <3>1, <3>2
  <2> QED BY <1>3, <2>1 DEF Views, AtWork
<1> QED BY <1>4, <1>5, <1>6, <1>7, <1>8, <1>9, <1>10 DEF RunOnce

\* A process that takes no step stays where it is.
LEMMA Bystander ==
  ASSUME TypeInv, [PeriodicNext]_periodicVars, NEW q \in Reporters,
         ~ (RunOnce(q) \/ RunFails(q) \/ ProcessEnds(q))
  PROVE  UNCHANGED <<phase[q], task[q]>>
<1>1. CASE Tick \/ PriceDay \/ TradeCommit \/ UNCHANGED periodicVars
  BY <1>1 DEF Tick, PriceDay, TradeCommit, periodicVars
<1>2. ASSUME NEW p \in Reporters, RunOnce(p) \/ RunFails(p) \/ ProcessEnds(p)
      PROVE  UNCHANGED <<phase[q], task[q]>>
  <2>1. \E label, t : Turn(p, label, t)
    BY <1>2 DEF RunOnce, Begin, Plan, Build, Save, CheckAfter, ReadWindow, Aggregate,
       Finish, RunFails, ProcessEnds
  <2>2. p # q
    BY <1>2
  <2> QED BY <2>1, <2>2 DEF Turn, TypeInv, PeriodicTypes
<1> QED BY <1>1, <1>2 DEF PeriodicNext

LEMMA SeenStep ==
  ASSUME TypeInv, StageInv, SeenInv, [PeriodicNext]_periodicVars
  PROVE  SeenInv'
<1>1. \A q \in Reporters : Views(q)
  BY DEF SeenInv
<1>2. ASSUME NEW q \in Reporters
      PROVE  Views(q)'
  <2>1. CASE RunOnce(q) \/ RunFails(q) \/ ProcessEnds(q)
    BY <1>1, <2>1, OwnView
  <2>2. CASE ~ (RunOnce(q) \/ RunFails(q) \/ ProcessEnds(q))
    <3>1. UNCHANGED <<phase[q], task[q]>>
      BY <2>2, Bystander
    <3> QED BY <1>1, <3>1, OthersView
  <2> QED BY <2>1, <2>2
<1> QED BY <1>2 DEF SeenInv

\* A run that goes on to the summaries has built all its daily reports from the
\* version whose hash it reports, whatever was committed meanwhile
\* (generate_daily_range).
THEOREM OneVersion == PeriodicSpec => []OneVersionPerRun
<1>1. Inv /\ StageInv /\ SeenInv /\ [PeriodicNext]_periodicVars => SeenInv'
  BY SeenStep DEF Inv, ReportInv
<1>2. SeenInv => OneVersionPerRun
  BY DEF SeenInv, Views, OneVersionPerRun
<1> QED BY <1>1, <1>2, InitHolds, InvHolds, PTL DEF PeriodicSpec

-----------------------------------------------------------------------------
(* Incomplete days.  What is stored stays, so a day that lacks a report     *)
(* after a run stored its first lacks it until the run stores it: only a    *)
(* run that was interrupted at that day leaves it so.                       *)

\* The days that lack an instrument's report, though the portfolio's is stored
\* and no run is storing the others, are as many as the interruptions at most:
\* neither a run that another one overtakes nor one that fails because the
\* portfolio changed leaves any (PeriodicReportStore.save, generate_daily_range).
OneDayPerInterruption ==
    IsFiniteSet(Incomplete) /\ Cardinality(Incomplete) <= interruptions

\* What a run has counted as stored of its day is stored.
Counted(p) ==
    phase[p] = "save" =>
        \A i \in 1 .. task[p].saved :
            NextDay(task[p]) \in StoredDays(Subjects(NextDay(task[p]))[i])

CountInv == \A p \in Reporters : Counted(p)

\* A step stores a report of the identity whose turn it is, or none.
LEMMA StoredGrows ==
  ASSUME Inv, [PeriodicNext]_periodicVars, NEW s
  PROVE  StoredDays(s) \subseteq StoredDays(s)'
<1>1. CASE daily' = daily
  BY <1>1 DEF StoredDays
<1>2. ASSUME NEW p \in Reporters, Save(p)
      PROVE  StoredDays(s) \subseteq StoredDays(s)'
  <2>1. PICK r \in DailyReport : SaveDaily(r)
    BY <1>2, StoresNext
  <2> QED BY <2>1, SaveStores DEF Inv, ReportInv, TypeInv
<1>3. daily' = daily \/ \E p \in Reporters : Save(p)
  BY DEF PeriodicNext, RunOnce, Tick, PriceDay, TradeCommit, Begin, Plan, Build, CheckAfter,
     ReadWindow, Aggregate, Finish, RunFails, ProcessEnds, periodicVars, stored
<1> QED BY <1>1, <1>2, <1>3

\* The report a process stores is the one of its day whose turn it is.
LEMMA SavesItsTurn ==
  ASSUME Inv, NEW p \in Reporters, Save(p), NEW d, d = NextDay(task[p]),
         NEW s, s = Subjects(d)[task[p].saved + 1]
  PROVE  d \in StoredDays(s)'
<1> DEFINE r == [day |-> d, subject |-> s, version |-> task[p].built[task[p].saved + 1]]
<1>1. SaveDaily(r)
  BY DEF Save
<1>2. r.day = d /\ r.subject = s
  OBVIOUS
<1> HIDE DEF r
<1>3. r \in daily'
  BY <1>1 DEF SaveDaily
<1> QED BY <1>2, <1>3 DEF StoredDays

\* What a process has counted as stored, and the report it stores.
LEMMA CountsOn ==
  ASSUME Inv, CountInv, [PeriodicNext]_periodicVars, NEW p \in Reporters, Save(p),
         NEW d, d = NextDay(task[p]), NEW i \in 1 .. task[p].saved + 1,
         NEW s, s = Subjects(d)[i]
  PROVE  d \in StoredDays(s)'
<1>1. task[p].saved \in Nat
  BY DEF Inv, ReportInv, TypeInv, Task
<1>2. CASE i \in 1 .. task[p].saved
  <2>1. d \in StoredDays(s)
    BY <1>2 DEF Save, CountInv, Counted
  <2> QED BY <2>1, StoredGrows
<1>3. CASE i = task[p].saved + 1
  BY <1>3, SavesItsTurn
<1> QED BY <1>1, <1>2, <1>3

\* Once a process has stored the last report of its day the day is complete.
LEMMA DayCompletes ==
  ASSUME Inv, CountInv, [PeriodicNext]_periodicVars, NEW p \in Reporters, Save(p),
         DayIsDone(task[p]), NEW d, d = NextDay(task[p])
  PROVE  Complete(d)'
<1>1. d \in Days
  <2>1. task[p].days \in SUBSET Days /\ task[p].days # {}
    BY DEF Inv, ReportInv, TypeInv, Task, AtWork, InPlace, Save
  <2> QED BY <2>1, NextIsFirst
<1>2. Subjects(d) \in Seq(AllSubjects) /\ task[p].saved + 1 = Len(Subjects(d))
  BY <1>1, SubjectsType DEF DayIsDone
<1>3. ASSUME NEW i \in DOMAIN Subjects(d), NEW s, s = Subjects(d)[i]
      PROVE  d \in StoredDays(s)'
  <2>1. i \in 1 .. task[p].saved + 1
    BY <1>2
  <2> QED BY <1>3, <2>1, CountsOn
<1> QED BY <1>3 DEF Complete, Subjects

\* A complete day stays complete.
LEMMA StaysComplete ==
  ASSUME Inv, [PeriodicNext]_periodicVars, NEW d, Complete(d)
  PROVE  Complete(d)'
<1>1. ASSUME NEW i \in DOMAIN Subjects(d), NEW s, s = Subjects(d)[i]
      PROVE  d \in StoredDays(s)'
  <2>1. d \in StoredDays(s)
    BY <1>1 DEF Complete
  <2> QED BY <2>1, StoredGrows
<1> QED BY <1>1 DEF Complete, Subjects

\* What a process counts stays stored, while it takes steps and others do.
LEMMA CountStep ==
  ASSUME Inv, CountInv, [PeriodicNext]_periodicVars
  PROVE  CountInv'
<1>1. ASSUME NEW q \in Reporters, UNCHANGED <<phase[q], task[q]>>
      PROVE  Counted(q)'
  <2>1. ASSUME phase[q] = "save", NEW d, d = NextDay(task[q]),
               NEW i \in 1 .. task[q].saved, NEW s, s = Subjects(d)[i]
        PROVE  d \in StoredDays(s)'
    <3>1. d \in StoredDays(s)
      BY <2>1 DEF CountInv, Counted
    <3> QED BY <3>1, StoredGrows
  <2> QED BY <1>1, <2>1 DEF Counted, Subjects, NextDay, FirstOf
<1>2. ASSUME NEW p \in Reporters, RunOnce(p) \/ RunFails(p) \/ ProcessEnds(p)
      PROVE  Counted(p)'
  <2>1. /\ phase \in [Reporters -> Phases] /\ task \in [Reporters -> Task]
        /\ task[p] \in Task
    BY DEF Inv, ReportInv, TypeInv, PeriodicTypes
  <2>2. CASE phase'[p] # "save"
    BY <2>2 DEF Counted
  <2>3. CASE Build(p)
    <3>1. task[p].saved = 0 /\ task'[p].saved = task[p].saved
      BY <2>1, <2>3 DEF Build, Turn, Task, Inv, ReportInv, AtWork, InPlace
    <3> QED BY <3>1 DEF Counted
  <2>4. CASE Save(p) /\ phase'[p] = "save"
    <3> DEFINE t == task[p]
               k == t.saved + 1
    <3>1. t \in Task /\ t.saved \in Nat
      BY <2>1 DEF Task
    <3>2. task'[p] = [t EXCEPT !.saved = k]
      BY <2>1, <2>4 DEF Save, Turn
    <3>3. task'[p].saved = k /\ task'[p].days = t.days
      <4> HIDE DEF t, k
      <4> QED BY <3>1, <3>2 DEF Task
    <3>4. ASSUME NEW d, d = NextDay(task[p]), NEW i \in 1 .. k, NEW s, s = Subjects(d)[i]
          PROVE  d \in StoredDays(s)'
      BY <2>4, <3>4, CountsOn
    <3> HIDE DEF k
    <3> QED BY <3>3, <3>4 DEF Counted, Subjects, NextDay, FirstOf
  <2>5. Build(p) \/ Save(p) \/ phase'[p] # "save"
    <3>1. CASE ReadWindow(p)
      BY <2>1, <3>1 DEF ReadWindow, Turn
    <3>2. CASE Aggregate(p)
      BY <2>1, <3>2 DEF Aggregate, Turn
    <3>3. CASE Begin(p) \/ Plan(p) \/ CheckAfter(p) \/ Finish(p) \/ RunFails(p) \/ ProcessEnds(p)
      BY <2>1, <3>3 DEF Begin, Plan, CheckAfter, Finish, RunFails, ProcessEnds, Turn
    <3> QED BY <1>2, <3>1, <3>2, <3>3 DEF RunOnce
  <2> QED BY <2>2, <2>3, <2>4, <2>5
<1>3. ASSUME NEW q \in Reporters, ~ (RunOnce(q) \/ RunFails(q) \/ ProcessEnds(q))
      PROVE  UNCHANGED <<phase[q], task[q]>>
  BY <1>3, Bystander DEF Inv, ReportInv
<1> QED BY <1>1, <1>2, <1>3 DEF CountInv

\* A step leaves no other day incomplete, unless it interrupts a run, which
\* leaves one at most.
LEMMA IncompleteStep ==
  ASSUME Inv, CountInv, [PeriodicNext]_periodicVars
  PROVE  \/ interruptions' = interruptions /\ Incomplete' \subseteq Incomplete
         \/ /\ interruptions' = interruptions + 1
            /\ \E d : Incomplete' \subseteq Incomplete \cup {d}
<1>1. /\ phase \in [Reporters -> Phases] /\ task \in [Reporters -> Task]
      /\ \A q \in Reporters : task[q] \in Task
  BY DEF Inv, ReportInv, TypeInv, PeriodicTypes
\* a day that becomes incomplete was being stored, or got its first report
<1>2. ASSUME NEW d \in Incomplete', d \notin Incomplete, ~ Saving(d)
      PROVE  FALSE
  <2>1. d \in StoredDays(Portfolio)' /\ ~ Complete(d)' /\ ~ Saving(d)'
    BY <1>2 DEF Incomplete
  <2>2. ~ Complete(d)
    BY <2>1, StaysComplete
  <2>3. d \notin StoredDays(Portfolio)
    BY <1>2, <2>2 DEF Incomplete
  <2>4. PICK x \in daily' : x.day = d /\ x.subject = Portfolio
    BY <2>1 DEF StoredDays
  <2>5. x \notin daily
    BY <2>3, <2>4 DEF StoredDays
  <2>6. PICK p \in Reporters : Save(p)
    <3>1. daily' # daily
      BY <2>5
    <3> QED BY <3>1 DEF PeriodicNext, RunOnce, Tick, PriceDay, TradeCommit, Begin, Plan, Build,
          CheckAfter, ReadWindow, Aggregate, Finish, RunFails, ProcessEnds, periodicVars, stored
  <2>7. x.day = NextDay(task[p])
    BY <2>5, <2>6 DEF Save, SaveDaily
  <2> QED BY <1>2, <2>4, <2>6, <2>7 DEF Save, Saving
\* and the one that was storing it has stopped, or is done with it
<1>3. ASSUME NEW d \in Incomplete', NEW p \in Reporters, phase[p] = "save",
             NextDay(task[p]) = d
      PROVE  RunFails(p) \/ ProcessEnds(p)
  <2>1. ~ Complete(d)' /\ ~ Saving(d)'
    BY <1>3 DEF Incomplete
  <2>2. ASSUME Save(p)
        PROVE  FALSE
    <3>1. ~ DayIsDone(task[p])
      BY <1>3, <2>1, <2>2, DayCompletes
    <3> DEFINE t == task[p]
               k == t.saved + 1
    <3>2. phase'[p] = "save" /\ task'[p] = [t EXCEPT !.saved = k]
      BY <1>1, <2>2, <3>1 DEF Save, Turn
    <3>3. task'[p].days = t.days
      <4>1. t \in Task
        BY <1>1
      <4> HIDE DEF t, k
      <4> QED BY <3>2, <4>1 DEF Task
    <3> QED BY <1>3, <2>1, <3>2, <3>3 DEF Saving, NextDay, FirstOf
  <2>3. RunOnce(p) => Save(p)
    BY <1>3 DEF RunOnce, Begin, Plan, Build, CheckAfter, ReadWindow, Aggregate, Finish
  <2>4. ~ UNCHANGED <<phase[p], task[p]>>
    BY <1>3, <2>1 DEF Saving, NextDay, FirstOf
  <2> QED BY <2>2, <2>3, <2>4, Bystander DEF Inv, ReportInv
<1>4. CASE interruptions' = interruptions
  <2>1. interruptions \in Nat
    BY PeriodicConstants DEF Inv, ReportInv, TypeInv, PeriodicTypes
  <2>2. ASSUME NEW d \in Incomplete', d \notin Incomplete
        PROVE  FALSE
    <3>1. PICK p \in Reporters : phase[p] = "save" /\ NextDay(task[p]) = d
      BY <1>2, <2>2 DEF Saving
    <3>2. RunFails(p) \/ ProcessEnds(p)
      BY <1>3, <2>2, <3>1
    <3>3. interruptions' = interruptions + 1
      BY <3>2 DEF RunFails, ProcessEnds, Interrupt
    <3> QED BY <1>4, <2>1, <3>3
  <2> QED BY <1>4, <2>2
<1>5. CASE interruptions' # interruptions
  <2>1. PICK p \in Reporters : RunFails(p) \/ ProcessEnds(p)
    BY <1>5 DEF PeriodicNext, RunOnce, Tick, PriceDay, TradeCommit, Begin, Plan, Build, Save,
       CheckAfter, ReadWindow, Aggregate, Finish, periodicVars
  <2>2. interruptions' = interruptions + 1
    BY <2>1 DEF RunFails, ProcessEnds, Interrupt
  <2>3. ASSUME NEW d \in Incomplete', d \notin Incomplete
        PROVE  d = NextDay(task[p])
    <3>1. PICK q \in Reporters : phase[q] = "save" /\ NextDay(task[q]) = d
      BY <1>2, <2>3 DEF Saving
    <3>2. RunFails(q) \/ ProcessEnds(q)
      BY <1>3, <2>3, <3>1
    <3>3. q = p
      <4>1. phase'[q] = "idle"
        BY <1>1, <3>2 DEF RunFails, ProcessEnds, Turn
      <4>2. q # p => phase'[q] = phase[q]
        BY <1>1, <2>1 DEF RunFails, ProcessEnds, Turn
      <4> QED BY <3>1, <4>1, <4>2
    <3> QED BY <3>1, <3>3
  <2>4. Incomplete' \subseteq Incomplete \cup {NextDay(task[p])}
    BY <2>3
  <2> QED BY <2>2, <2>4
<1> QED BY <1>4, <1>5

\* At any time the days that lack a report, and that no run is storing, are as
\* many as the interruptions at most (PeriodicReportRunner.run_once).
THEOREM OneDayEach == PeriodicSpec => []OneDayPerInterruption
<1>1. PeriodicInit => CountInv /\ OneDayPerInterruption
  <2> SUFFICES ASSUME PeriodicInit PROVE CountInv /\ OneDayPerInterruption
    OBVIOUS
  <2>1. \A p \in Reporters : phase[p] = "idle"
    BY DEF PeriodicInit
  <2>2. CountInv
    BY <2>1 DEF CountInv, Counted
  <2>3. ASSUME NEW d \in Incomplete
        PROVE  FALSE
    <3>1. d \in StoredDays(Portfolio) /\ ~ Complete(d)
      BY <2>3 DEF Incomplete
    <3>2. d = 1
      BY <3>1 DEF PeriodicInit, StoredDays
    <3>3. ASSUME NEW i \in DOMAIN Subjects(1)
          PROVE  1 \in StoredDays(Subjects(1)[i])
      <4> DEFINE r == [day |-> 1, subject |-> Subjects(1)[i], version |-> 1]
      <4>1. r \in daily /\ r.day = 1 /\ r.subject = Subjects(1)[i]
        BY DEF PeriodicInit
      <4> HIDE DEF r
      <4> QED BY <4>1 DEF StoredDays
    <3> QED BY <3>1, <3>2, <3>3 DEF Complete
  <2>4. Incomplete = {} /\ interruptions = 0
    BY <2>3 DEF PeriodicInit
  <2> QED BY <2>2, <2>4, FS_EmptySet DEF OneDayPerInterruption
<1>2. Inv /\ CountInv /\ OneDayPerInterruption /\ [PeriodicNext]_periodicVars
         => CountInv' /\ OneDayPerInterruption'
  <2> SUFFICES ASSUME Inv, CountInv, OneDayPerInterruption, [PeriodicNext]_periodicVars
               PROVE  CountInv' /\ OneDayPerInterruption'
    OBVIOUS
  <2>1. CountInv'
    BY CountStep
  <2>2. interruptions \in Nat
    BY PeriodicConstants DEF Inv, ReportInv, TypeInv, PeriodicTypes
  <2>3. IsFiniteSet(Incomplete) /\ Cardinality(Incomplete) \in Nat
        /\ Cardinality(Incomplete) <= interruptions
    BY FS_CardinalityType DEF OneDayPerInterruption
  <2>4. CASE interruptions' = interruptions /\ Incomplete' \subseteq Incomplete
    <3>1. /\ IsFiniteSet(Incomplete') /\ Cardinality(Incomplete') <= Cardinality(Incomplete)
          /\ Cardinality(Incomplete') \in Nat
      BY <2>3, <2>4, FS_Subset, FS_CardinalityType
    <3> QED BY <2>1, <2>2, <2>3, <2>4, <3>1 DEF OneDayPerInterruption
  <2>5. ASSUME interruptions' = interruptions + 1,
               NEW d, Incomplete' \subseteq Incomplete \cup {d}
        PROVE  OneDayPerInterruption'
    <3> DEFINE T == Incomplete \cup {d}
    <3>1. /\ IsFiniteSet(T)
          /\ Cardinality(T) = Cardinality(Incomplete)
                \/ Cardinality(T) = Cardinality(Incomplete) + 1
      BY <2>3, FS_AddElement
    <3>2. Incomplete' \subseteq T
      BY <2>5
    <3> HIDE DEF T
    <3>3. /\ IsFiniteSet(Incomplete') /\ Cardinality(Incomplete') <= Cardinality(T)
          /\ Cardinality(Incomplete') \in Nat
      BY <3>1, <3>2, FS_Subset, FS_CardinalityType
    <3>4. Cardinality(Incomplete') <= interruptions + 1
      BY <2>2, <2>3, <3>1, <3>3
    <3> QED BY <2>5, <3>3, <3>4 DEF OneDayPerInterruption
  <2> QED BY <2>1, <2>4, <2>5, IncompleteStep
<1> QED BY <1>1, <1>2, InvHolds, PTL DEF PeriodicSpec
=============================================================================
