-------------------------- MODULE ReviewRun_proofs --------------------------
(***************************************************************************)
(* Proofs about ReviewRun: a completed run has one receipt, which is about *)
(* the version of the file and the projection its key names; a run that is *)
(* completed and stays so is not run again; and attempts of one run whose  *)
(* sync stages did equal work write equal receipts.                        *)
(*                                                                         *)
(* The invariant says of each attempt how what it holds relates to the     *)
(* file: the hash it took first is at most the version the sync read, that *)
(* one at most the version the artifacts were built from, and that one at  *)
(* most the present one.  Where the gate finds the present version equal   *)
(* to the first, all of them are equal.                                    *)
(***************************************************************************)
EXTENDS ReviewRun, TLAPS

\* Versions are ordered: nothing is taken out of the portfolio file.
AtMost(v, w) == v.trades <= w.trades /\ v.other <= w.other

Starting(s, j) == s \in {"stamp", "append"} /\ j.next.status = "running"

Synced == {"project", "baseline", "lookup", "register", "fee", "build", "gate", "receipt"}
Seen == {"baseline", "lookup", "register", "fee", "build", "gate", "receipt"}
Keyed == {"lookup", "register", "fee", "build", "gate", "receipt"}
Entered == {"fee", "build", "gate", "receipt"}

\* What an attempt holds at stage s, of the file f and the files of run
\* directories, as and rs.
HasBefore(s, j, f) ==
    s \notin {"idle", "stamp", "append"} \/ Starting(s, j) =>
        j.before \in Version /\ AtMost(j.before, f)
HasSource(s, j, f) ==
    s \in Synced \/ Starting(s, j) =>
        j.source \in Version /\ AtMost(j.before, j.source) /\ AtMost(j.source, f)
HasWork(s, j) == s = "sync" \/ s \in Synced \/ Starting(s, j) => j.work \in Works
HasView(s, j) == s \in Seen \/ Starting(s, j) => j.projection \in View
HasKey(s, j) ==
    s \in Keyed \/ Starting(s, j) =>
        j.run.source = j.source /\ j.run.projection = j.projection
HasTrigger(s, j) == s \in Entered \/ Starting(s, j) => j.trigger \in Reviewers
HasContent(s, j, f, as) ==
    s \in {"gate", "receipt"} =>
        /\ j.content \in as /\ j.content.run = j.run
        /\ j.content.projection = j.projection
        /\ AtMost(j.before, j.content.read) /\ AtMost(j.content.read, f)
HasPassed(s, j) ==
    s = "receipt" => j.source = j.before /\ j.content.read = j.before
HasNext(s, j, rs) ==
    s \in {"stamp", "append"} =>
        /\ j.next \in Outcomes
        /\ j.next.status = "completed" =>
            j.next.receipt \in rs /\ j.next.receipt.run = j.run

Fits(s, j, f, as, rs) ==
    /\ s # "idle" => j.run \in RunKeys
    /\ HasBefore(s, j, f) /\ HasSource(s, j, f) /\ HasWork(s, j) /\ HasView(s, j)
    /\ HasKey(s, j) /\ HasTrigger(s, j) /\ HasContent(s, j, f, as)
    /\ HasPassed(s, j) /\ HasNext(s, j, rs)

\* One set of artifacts and one receipt in each run directory; a receipt is of
\* the key of its run, and a completed event names a receipt that is there.
OneEach ==
    /\ \A a, b \in artifacts : a.run = b.run => a = b
    /\ \A r, s \in receipts : r.run = s.run => r = s
OfItsKey(r) ==
    /\ r.before = r.run.source
    /\ r.content \in artifacts /\ r.content.run = r.run
    /\ r.content.read = r.run.source /\ r.content.projection = r.run.projection
Backed ==
    /\ \A r \in receipts : OfItsKey(r)
    /\ \A e \in ledger : e.status = "completed" =>
        e.receipt \in receipts /\ e.receipt.run = e.run

RunInv ==
    /\ RunTypes /\ OneEach /\ Backed
    /\ \A p \in Reviewers : Fits(pc[p], attempt[p], file, artifacts, receipts)

\* The files of a step: they only grow.
Grows ==
    /\ file' \in Version /\ AtMost(file, file')
    /\ artifacts \subseteq artifacts' /\ receipts \subseteq receipts'

-----------------------------------------------------------------------------
LEMMA AtMostReflexive == ASSUME NEW v \in Version PROVE AtMost(v, v)
  BY SMT DEF Version, AtMost

LEMMA AtMostTransitive ==
  ASSUME NEW u \in Version, NEW v \in Version, NEW w \in Version,
         AtMost(u, v), AtMost(v, w)
  PROVE  AtMost(u, w)
  BY SMT DEF Version, AtMost

LEMMA AtMostAntisymmetric ==
  ASSUME NEW u \in Version, NEW v \in Version, AtMost(u, v), AtMost(v, u)
  PROVE  u = v
  BY SMT DEF Version, AtMost

\* What an attempt holds goes on fitting while the files grow.
LEMMA StillFits ==
  ASSUME NEW s, NEW j \in Jobs, NEW f \in Version, NEW g \in Version, AtMost(f, g),
         NEW as, NEW bs, as \subseteq bs, as \subseteq Contents, NEW rs, NEW ts, rs \subseteq ts,
         Fits(s, j, f, as, rs)
  PROVE  Fits(s, j, g, bs, ts)
<1>1. HasBefore(s, j, g)
  BY AtMostTransitive DEF Fits, HasBefore
<1>2. HasSource(s, j, g)
  BY AtMostTransitive DEF Fits, HasSource
<1>3. HasContent(s, j, g, bs)
  <2>1. SUFFICES ASSUME s \in {"gate", "receipt"} PROVE HasContent(s, j, g, bs)
    BY DEF HasContent
  <2>2. j.content \in Contents /\ j.content.read \in Version
    BY <2>1 DEF Fits, HasContent, Contents
  <2>3. QED
    BY <2>1, <2>2, AtMostTransitive DEF Fits, HasContent
<1>4. HasNext(s, j, ts)
  BY DEF Fits, HasNext
<1>5. QED
  BY <1>1, <1>2, <1>3, <1>4 DEF Fits

\* One attempt moves on to stage s with locals w, and the files grow.
LEMMA Moves ==
  ASSUME RunInv, NEW p \in Reviewers, NEW s \in RunStages, NEW w \in Jobs,
         Become(p, s, w), Grows, Fits(s, w, file', artifacts', receipts')
  PROVE  /\ pc' \in [Reviewers -> RunStages] /\ attempt' \in [Reviewers -> Jobs]
         /\ \A q \in Reviewers : Fits(pc[q], attempt[q], file, artifacts, receipts)'
<1>1. /\ pc' \in [Reviewers -> RunStages] /\ attempt' \in [Reviewers -> Jobs]
      /\ pc'[p] = s /\ attempt'[p] = w
      /\ \A q \in Reviewers \ {p} : pc'[q] = pc[q] /\ attempt'[q] = attempt[q]
  BY DEF RunInv, RunTypes, Become
<1>2. ASSUME NEW q \in Reviewers
      PROVE  Fits(pc'[q], attempt'[q], file', artifacts', receipts')
  <2>1. CASE q = p
    BY <1>1, <2>1
  <2>2. CASE q # p
    <3>1. Fits(pc[q], attempt[q], file, artifacts, receipts) /\ attempt[q] \in Jobs
          /\ file \in Version /\ artifacts \subseteq Contents
      BY DEF RunInv, RunTypes
    <3>2. Fits(pc[q], attempt[q], file', artifacts', receipts')
      BY <3>1, StillFits DEF Grows
    <3>3. QED
      BY <1>1, <2>2, <3>2
  <2>3. QED
    BY <2>1, <2>2
<1>3. QED
  BY <1>1, <1>2 DEF Fits, HasBefore, HasSource, HasWork, HasView, HasKey, HasTrigger,
     HasContent, HasPassed, HasNext, Starting, AtMost

\* A move that touches no file and no row.
LEMMA LocalMove ==
  ASSUME RunInv, NEW p \in Reviewers, NEW s \in RunStages, NEW w \in Jobs,
         Become(p, s, w), UNCHANGED <<inputs, outputs>>,
         Fits(s, w, file, artifacts, receipts)
  PROVE  RunInv'
<1>1. Grows
  BY AtMostReflexive DEF Grows, RunInv, RunTypes, inputs, outputs
<1>2. Fits(s, w, file', artifacts', receipts')
  BY DEF inputs, outputs
<1>3. /\ pc' \in [Reviewers -> RunStages] /\ attempt' \in [Reviewers -> Jobs]
      /\ \A q \in Reviewers : Fits(pc[q], attempt[q], file, artifacts, receipts)'
  BY <1>1, <1>2, Moves
<1>4. RunTypes' /\ OneEach' /\ Backed'
  <2>1. \A q \in Reviewers : pc'[q] # "idle" => attempt'[q].run \in RunKeys
    BY <1>3 DEF Fits
  <2>2. RunTypes'
    BY <1>3, <2>1 DEF RunInv, RunTypes, inputs, outputs
  <2>3. QED
    BY <2>2 DEF RunInv, OneEach, Backed, OfItsKey, inputs, outputs
<1>5. QED
  BY <1>3, <1>4 DEF RunInv

LEMMA IdleFits ==
  ASSUME NEW f, NEW as, NEW rs
  PROVE  Idle \in Jobs /\ Fits("idle", Idle, f, as, rs)
<1>1. Idle \in Jobs
  BY SMT DEF Idle, Jobs
<1>2. Fits("idle", Idle, f, as, rs)
  BY DEF Fits, HasBefore, HasSource, HasWork, HasView, HasKey, HasTrigger, HasContent,
     HasPassed, HasNext, Starting, Synced, Seen, Keyed, Entered
<1>3. QED
  BY <1>1, <1>2

LEMMA EndsIdle ==
  ASSUME RunInv, NEW p \in Reviewers, Become(p, "idle", Idle), UNCHANGED <<inputs, outputs>>
  PROVE  RunInv'
<1>1. "idle" \in RunStages
  BY DEF RunStages
<1>2. QED
  BY <1>1, IdleFits, LocalMove

\* The locals of an attempt that is about to record how it ended.
LEMMA EndingFits ==
  ASSUME NEW run \in RunKeys, NEW st \in RunStatuses \ {"running"},
         NEW r \in {Nil} \cup Receipts, NEW f, NEW as, NEW rs,
         st = "completed" => r \in rs /\ r.run = run
  PROVE  LET w == [Idle EXCEPT !.run = run, !.next = Status(st, r)]
         IN  w \in Jobs /\ Fits("stamp", w, f, as, rs)
<1> DEFINE n == Status(st, r)
<1> DEFINE i == [Idle EXCEPT !.run = run]
<1> DEFINE w == [i EXCEPT !.next = n]
<1>1. n \in Outcomes /\ n.status = st /\ n.receipt = r
  BY DEF Status, Outcomes
<1> HIDE DEF n
<1>2. i \in Jobs /\ i.run = run
  BY SMT DEF Idle, Jobs
<1> HIDE DEF i
<1>3. w \in Jobs /\ w.run = run /\ w.next = n
  BY <1>1, <1>2, SMT DEF Jobs
<1> HIDE DEF w
<1>4. Fits("stamp", w, f, as, rs)
  BY <1>1, <1>3 DEF Fits, HasBefore, HasSource, HasWork, HasView, HasKey,
     HasTrigger, HasContent, HasPassed, HasNext, Starting, Synced, Seen, Keyed, Entered
<1>5. QED
  BY <1>3, <1>4 DEF w, i, n

\* Whatever raises, the handler leaves an attempt that fits.
LEMMA Handled ==
  ASSUME RunInv, NEW p \in Reviewers, pc[p] # "idle", NEW st \in {"failed", "blocked"},
         Handle(p, st), UNCHANGED <<inputs, ledger, artifacts, receipts>>
  PROVE  RunInv'
<1> DEFINE run == attempt[p].run
<1> DEFINE w == [Idle EXCEPT !.run = run, !.next = Status(st, Nil)]
<1>1. run \in RunKeys
  BY DEF RunInv, RunTypes
<1>2. CASE run.phase = "preflight" \/ IsRegistered(run)
  <2>1. Become(p, "stamp", w)
    BY <1>2 DEF Handle
  <2>2. registered' \subseteq [run : RunKeys, trigger : Reviewers]
    <3>1. registered' = registered \/ registered' = registered \cup {[run |-> run, trigger |-> p]}
      BY <1>2 DEF Handle
    <3>2. QED
      BY <1>1, <3>1 DEF RunInv, RunTypes
  <2>3. w \in Jobs /\ Fits("stamp", w, file', artifacts', receipts')
    <3>1. st \in RunStatuses \ {"running"} /\ st # "completed"
      BY DEF RunStatuses
    <3>2. QED
      BY <1>1, <3>1, EndingFits
  <2>4. Grows /\ "stamp" \in RunStages
    BY AtMostReflexive DEF Grows, RunInv, RunTypes, inputs, RunStages
  <2> HIDE DEF w
  <2>5. /\ pc' \in [Reviewers -> RunStages] /\ attempt' \in [Reviewers -> Jobs]
        /\ \A q \in Reviewers : Fits(pc[q], attempt[q], file, artifacts, receipts)'
    BY <2>1, <2>3, <2>4, Moves
  <2>6. \A q \in Reviewers : pc'[q] # "idle" => attempt'[q].run \in RunKeys
    BY <2>5 DEF Fits
  <2>7. RunTypes'
    BY <2>2, <2>5, <2>6 DEF RunInv, RunTypes, inputs
  <2>8. OneEach' /\ Backed'
    BY DEF RunInv, OneEach, Backed, OfItsKey
  <2>9. QED
    BY <2>5, <2>7, <2>8 DEF RunInv
<1>3. CASE ~(run.phase = "preflight" \/ IsRegistered(run))
  BY <1>3, EndsIdle DEF Handle, outputs
<1>4. QED
  BY <1>2, <1>3

LEMMA Raises ==
  ASSUME RunInv, NEW p \in Reviewers, pc[p] # "idle", NEW st \in {"failed", "blocked"},
         Raise(p, st)
  PROVE  RunInv'
  BY Handled DEF Raise

-----------------------------------------------------------------------------
\* What each step of an attempt leaves.

LEMMA FitsNow ==
  ASSUME RunInv, NEW p \in Reviewers
  PROVE  /\ attempt[p] \in Jobs /\ Fits(pc[p], attempt[p], file, artifacts, receipts)
         /\ file \in Version /\ AtMost(file, file)
  BY AtMostReflexive DEF RunInv, RunTypes

LEMMA BeginInv ==
  ASSUME RunInv, NEW p \in Reviewers, BeginRun(p)
  PROVE  RunInv'
<1> DEFINE r == Preflight(file)
<1> DEFINE i == [Idle EXCEPT !.run = r]
<1> DEFINE w == [i EXCEPT !.before = file]
<1>1. r \in RunKeys /\ file \in Version /\ AtMost(file, file)
  BY FitsNow DEF Preflight, RunKeys
<1> HIDE DEF r
<1>2. i \in Jobs /\ i.run = r
  BY <1>1, SMT DEF Idle, Jobs
<1> HIDE DEF i
<1>3. w \in Jobs /\ w.run = r /\ w.before = file
  BY <1>1, <1>2, SMT DEF Jobs
<1>4. Become(p, "preview", w)
  BY DEF BeginRun, w, i, r
<1> HIDE DEF w
<1>5. Fits("preview", w, file, artifacts, receipts) /\ "preview" \in RunStages
  BY <1>1, <1>3 DEF RunStages, Fits, HasBefore, HasSource, HasWork, HasView, HasKey,
     HasTrigger, HasContent, HasPassed, HasNext, Starting, Synced, Seen, Keyed, Entered
<1>6. QED
  BY <1>3, <1>4, <1>5, LocalMove DEF BeginRun

LEMMA PreviewInv ==
  ASSUME RunInv, NEW p \in Reviewers, Preview(p)
  PROVE  RunInv'
<1>1. attempt[p] \in Jobs /\ Fits("preview", attempt[p], file, artifacts, receipts)
  BY FitsNow DEF Preview
<1>2. CASE sidecar.events = file.trades
  <2>1. Fits("health", attempt[p], file, artifacts, receipts) /\ "health" \in RunStages
    BY <1>1 DEF RunStages, Fits, HasBefore, HasSource, HasWork, HasView, HasKey,
     HasTrigger, HasContent, HasPassed, HasNext, Starting, Synced, Seen, Keyed, Entered
  <2>2. QED
    BY <1>1, <1>2, <2>1, LocalMove DEF Preview
<1>3. CASE sidecar.events # file.trades
  <2> DEFINE v == Work("reconciled", 0)
  <2> DEFINE w == [attempt[p] EXCEPT !.work = v]
  <2>1. v \in Works
    BY SMT DEF Work, Works
  <2>2. Become(p, "sync", w)
    BY <1>3 DEF Preview
  <2> HIDE DEF v
  <2>3. w \in Jobs /\ w.work = v /\ w.run = attempt[p].run /\ w.before = attempt[p].before
    BY <1>1, <2>1, SMT DEF Jobs
  <2> HIDE DEF w
  <2>4. Fits("sync", w, file, artifacts, receipts) /\ "sync" \in RunStages
    BY <1>1, <2>1, <2>3 DEF RunStages, Fits, HasBefore, HasSource, HasWork, HasView, HasKey,
     HasTrigger, HasContent, HasPassed, HasNext, Starting, Synced, Seen, Keyed, Entered
  <2>5. QED
    BY <2>2, <2>3, <2>4, LocalMove DEF Preview
<1>4. QED
  BY <1>2, <1>3

LEMMA HealthInv ==
  ASSUME RunInv, NEW p \in Reviewers, Health(p)
  PROVE  RunInv'
<1>1. /\ attempt[p] \in Jobs /\ Fits("health", attempt[p], file, artifacts, receipts)
      /\ file \in Version /\ AtMost(file, file)
  BY FitsNow DEF Health
<1>2. CASE Healthy
  <2> DEFINE v == Work("already_reconciled", 0)
  <2> DEFINE i == [attempt[p] EXCEPT !.source = file]
  <2> DEFINE w == [i EXCEPT !.work = v]
  <2>1. v \in Works
    BY SMT DEF Work, Works
  <2>2. Become(p, "project", w)
    BY <1>2 DEF Health
  <2> HIDE DEF v
  <2>3. i \in Jobs /\ i.source = file /\ i.run = attempt[p].run /\ i.before = attempt[p].before
    BY <1>1, SMT DEF Jobs
  <2> HIDE DEF i
  <2>4. /\ w \in Jobs /\ w.work = v
        /\ w.source = file /\ w.run = attempt[p].run /\ w.before = attempt[p].before
    BY <2>1, <2>3, SMT DEF Jobs
  <2> HIDE DEF w
  <2>5. Fits("project", w, file, artifacts, receipts) /\ "project" \in RunStages
    BY <1>1, <2>1, <2>4 DEF RunStages, Fits, HasBefore, HasSource, HasWork, HasView, HasKey,
     HasTrigger, HasContent, HasPassed, HasNext, Starting, Synced, Seen, Keyed, Entered
  <2>6. QED
    BY <2>2, <2>4, <2>5, LocalMove DEF Health
<1>3. CASE ~Healthy
  <2> DEFINE v == Work("health_reconciled", 0)
  <2> DEFINE w == [attempt[p] EXCEPT !.work = v]
  <2>1. v \in Works
    BY SMT DEF Work, Works
  <2>2. Become(p, "sync", w)
    BY <1>3 DEF Health
  <2> HIDE DEF v
  <2>3. w \in Jobs /\ w.work = v /\ w.run = attempt[p].run /\ w.before = attempt[p].before
    BY <1>1, <2>1, SMT DEF Jobs
  <2> HIDE DEF w
  <2>4. Fits("sync", w, file, artifacts, receipts) /\ "sync" \in RunStages
    BY <1>1, <2>1, <2>3 DEF RunStages, Fits, HasBefore, HasSource, HasWork, HasView, HasKey,
     HasTrigger, HasContent, HasPassed, HasNext, Starting, Synced, Seen, Keyed, Entered
  <2>5. QED
    BY <2>2, <2>3, <2>4, LocalMove DEF Health
<1>4. QED
  BY <1>2, <1>3

LEMMA ProjectInv ==
  ASSUME RunInv, NEW p \in Reviewers, Project(p)
  PROVE  RunInv'
<1> DEFINE v == Projection
<1> DEFINE w == [attempt[p] EXCEPT !.projection = v]
<1>1. attempt[p] \in Jobs /\ Fits("project", attempt[p], file, artifacts, receipts)
  BY FitsNow DEF Project
<1>2. v \in View
  BY DEF RunInv, RunTypes, View, Projection
<1>3. Become(p, "baseline", w)
  BY DEF Project
<1> HIDE DEF v
<1>4. /\ w \in Jobs /\ w.projection = v /\ w.run = attempt[p].run
      /\ w.before = attempt[p].before /\ w.source = attempt[p].source /\ w.work = attempt[p].work
  BY <1>1, <1>2, SMT DEF Jobs
<1> HIDE DEF w
<1>5. Fits("baseline", w, file, artifacts, receipts) /\ "baseline" \in RunStages
  BY <1>1, <1>2, <1>4 DEF RunStages, Fits, HasBefore, HasSource, HasWork, HasView, HasKey,
     HasTrigger, HasContent, HasPassed, HasNext, Starting, Synced, Seen, Keyed, Entered
<1>6. QED
  BY <1>3, <1>4, <1>5, LocalMove DEF Project

LEMMA BindKeyInv ==
  ASSUME RunInv, NEW p \in Reviewers, BindKey(p)
  PROVE  RunInv'
<1> DEFINE v == IF sidecar.marked THEN file ELSE Nil
<1>n. PICK n \in Nat :
        LET bound == [attempt[p] EXCEPT !.baseline = v, !.requests = n]
        IN  Become(p, "lookup", [bound EXCEPT !.run = KeyOf(bound)])
  <2>1. (0 .. MaxFetches) \subseteq Nat /\ {0} \subseteq Nat
    BY RunConstants
  <2> QED BY <2>1 DEF BindKey
<1> DEFINE h == [attempt[p] EXCEPT !.baseline = v]
<1> DEFINE i == [h EXCEPT !.requests = n]
<1> DEFINE k == KeyOf(i)
<1> DEFINE w == [i EXCEPT !.run = k]
<1>1. /\ attempt[p] \in Jobs /\ Fits("baseline", attempt[p], file, artifacts, receipts)
      /\ file \in Version
  BY FitsNow DEF BindKey
<1>2. v \in {Nil} \cup Version /\ (sidecar.marked => v \in Version)
  BY <1>1
<1>3. Become(p, "lookup", w)
  BY <1>n
<1> HIDE DEF v
<1>h. /\ h \in Jobs /\ h.baseline = v /\ h.projection = attempt[p].projection
      /\ h.before = attempt[p].before /\ h.source = attempt[p].source /\ h.work = attempt[p].work
  BY <1>1, <1>2, SMT DEF Jobs
<1> HIDE DEF h
<1>4. /\ i \in Jobs /\ i.baseline = v /\ i.projection = attempt[p].projection
      /\ i.before = attempt[p].before /\ i.source = attempt[p].source /\ i.work = attempt[p].work
  BY <1>h, SMT DEF Jobs
<1>5. /\ attempt[p].before \in Version /\ attempt[p].source \in Version
      /\ attempt[p].projection \in View
  BY <1>1 DEF Fits, HasBefore, HasSource, HasView, Synced, Seen
<1> HIDE DEF i
<1>6. k \in RunKeys /\ k.source = attempt[p].source /\ k.projection = attempt[p].projection
  BY <1>2, <1>4, <1>5 DEF KeyOf, RunKeys
<1> HIDE DEF k
<1>7. /\ w \in Jobs /\ w.run = k /\ w.projection = attempt[p].projection
      /\ w.before = attempt[p].before /\ w.source = attempt[p].source /\ w.work = attempt[p].work
  BY <1>4, <1>6, SMT DEF Jobs
<1> HIDE DEF w
<1>8. Fits("lookup", w, file, artifacts, receipts) /\ "lookup" \in RunStages
  BY <1>1, <1>6, <1>7 DEF RunStages, Fits, HasBefore, HasSource, HasWork, HasView, HasKey,
     HasTrigger, HasContent, HasPassed, HasNext, Starting, Synced, Seen, Keyed, Entered
<1>9. QED
  BY <1>3, <1>7, <1>8, LocalMove DEF BindKey

LEMMA ReplayInv ==
  ASSUME RunInv, NEW p \in Reviewers, ReplayReceipt(p)
  PROVE  RunInv'
<1>1. PICK e \in ledger :
        IF e.receipt.before = attempt[p].before /\ file = attempt[p].before
        THEN Become(p, "idle", Idle) /\ UNCHANGED <<inputs, outputs, stable, spent>>
        ELSE Raise(p, "failed")
  BY DEF ReplayReceipt
<1>2. pc[p] # "idle"
  BY DEF ReplayReceipt
<1>3. QED
  BY <1>1, <1>2, EndsIdle, Raises

\* The locals of an attempt that is about to record that it runs.
LEMMA StartFits ==
  ASSUME NEW s \in {"lookup", "register"}, NEW j \in Jobs, NEW v \in Reviewers,
         NEW f, NEW as, NEW rs, Fits(s, j, f, as, rs)
  PROVE  LET w == [j EXCEPT !.trigger = v, !.next = Status("running", Nil)]
         IN  w \in Jobs /\ Fits("stamp", w, f, as, rs)
<1> DEFINE n == Status("running", Nil)
<1> DEFINE i == [j EXCEPT !.trigger = v]
<1> DEFINE w == [i EXCEPT !.next = n]
<1>1. n \in Outcomes /\ n.status = "running"
  BY DEF Status, Outcomes, RunStatuses
<1> HIDE DEF n
<1>2. /\ i \in Jobs /\ i.trigger = v /\ i.run = j.run /\ i.before = j.before
      /\ i.source = j.source /\ i.work = j.work /\ i.projection = j.projection
  BY SMT DEF Jobs
<1> HIDE DEF i
<1>3. /\ w \in Jobs /\ w.next = n
      /\ w.trigger = v /\ w.run = j.run /\ w.before = j.before
      /\ w.source = j.source /\ w.work = j.work /\ w.projection = j.projection
  BY <1>1, <1>2, SMT DEF Jobs
<1> HIDE DEF w
<1>4. Fits("stamp", w, f, as, rs)
  BY <1>1, <1>3 DEF Fits, HasBefore, HasSource, HasWork, HasView, HasKey,
     HasTrigger, HasContent, HasPassed, HasNext, Starting, Synced, Seen, Keyed, Entered
<1>5. QED
  BY <1>3, <1>4 DEF w, i, n

LEMMA EnterInv ==
  ASSUME RunInv, NEW p \in Reviewers, EnterRun(p)
  PROVE  RunInv'
<1>1. attempt[p] \in Jobs /\ Fits("lookup", attempt[p], file, artifacts, receipts)
  BY FitsNow DEF EnterRun
<1>2. CASE Become(p, "register", attempt[p])
  <2>1. Fits("register", attempt[p], file, artifacts, receipts) /\ "register" \in RunStages
    BY <1>1 DEF RunStages, Fits, HasBefore, HasSource, HasWork, HasView, HasKey,
     HasTrigger, HasContent, HasPassed, HasNext, Starting, Synced, Seen, Keyed, Entered
  <2>2. QED
    BY <1>1, <1>2, <2>1, LocalMove DEF EnterRun
<1>3. ASSUME NEW r \in registered,
             Become(p, "stamp", [attempt[p] EXCEPT !.trigger = r.trigger,
                                               !.next = Status("running", Nil)])
      PROVE  RunInv'
  <2> DEFINE w == [attempt[p] EXCEPT !.trigger = r.trigger, !.next = Status("running", Nil)]
  <2>1. r.trigger \in Reviewers
    BY DEF RunInv, RunTypes
  <2>2. w \in Jobs /\ Fits("stamp", w, file, artifacts, receipts)
    BY <1>1, <2>1, StartFits
  <2>3. Become(p, "stamp", w) /\ "stamp" \in RunStages
    BY <1>3 DEF RunStages
  <2> HIDE DEF w
  <2>4. QED
    BY <2>2, <2>3, LocalMove DEF EnterRun
<1>4. QED
  BY <1>2, <1>3 DEF EnterRun

LEMMA RegisterInv ==
  ASSUME RunInv, NEW p \in Reviewers, Register(p)
  PROVE  RunInv'
<1> DEFINE w == [attempt[p] EXCEPT !.trigger = p, !.next = Status("running", Nil)]
<1>1. CASE IsRegistered(attempt[p].run)
  BY <1>1, Raises DEF Register
<1>2. CASE ~IsRegistered(attempt[p].run)
  <2>1. /\ attempt[p] \in Jobs /\ Fits("register", attempt[p], file, artifacts, receipts)
        /\ attempt[p].run \in RunKeys
    BY FitsNow DEF Register, Fits
  <2>2. w \in Jobs /\ Fits("stamp", w, file, artifacts, receipts)
    BY <2>1, StartFits
  <2>3. Become(p, "stamp", w) /\ "stamp" \in RunStages
    BY <1>2 DEF Register, RunStages
  <2>4. /\ registered' = registered \cup {[run |-> attempt[p].run, trigger |-> p]}
        /\ UNCHANGED <<inputs, ledger, artifacts, receipts>>
    BY <1>2 DEF Register
  <2> HIDE DEF w
  <2>5. Grows /\ Fits("stamp", w, file', artifacts', receipts')
    BY <2>2, <2>4, FitsNow DEF Grows, inputs
  <2>6. /\ pc' \in [Reviewers -> RunStages] /\ attempt' \in [Reviewers -> Jobs]
        /\ \A q \in Reviewers : Fits(pc[q], attempt[q], file, artifacts, receipts)'
    BY <2>2, <2>3, <2>5, Moves
  <2>7. \A q \in Reviewers : pc'[q] # "idle" => attempt'[q].run \in RunKeys
    BY <2>6 DEF Fits
  <2>8. RunTypes'
    BY <2>1, <2>4, <2>6, <2>7 DEF RunInv, RunTypes, inputs
  <2>9. OneEach' /\ Backed'
    BY <2>4 DEF RunInv, OneEach, Backed, OfItsKey
  <2>10. QED
    BY <2>6, <2>8, <2>9 DEF RunInv
<1>3. QED
  BY <1>1, <1>2

LEMMA StampInv ==
  ASSUME RunInv, NEW p \in Reviewers, Stamp(p)
  PROVE  RunInv'
<1>1. attempt[p] \in Jobs /\ Fits("stamp", attempt[p], file, artifacts, receipts)
  BY FitsNow DEF Stamp
<1>2. PICK t \in clock .. clock + Cardinality(ledger) :
        Become(p, "append", [attempt[p] EXCEPT !.at = t])
  BY DEF Stamp
<1> DEFINE w == [attempt[p] EXCEPT !.at = t]
<1>3. t \in Nat
  BY <1>2, SMT DEF RunInv, RunTypes
<1>4. Become(p, "append", w)
  BY <1>2
<1>5. /\ w \in Jobs /\ w.run = attempt[p].run /\ w.before = attempt[p].before
      /\ w.source = attempt[p].source /\ w.work = attempt[p].work /\ w.next = attempt[p].next
      /\ w.projection = attempt[p].projection /\ w.trigger = attempt[p].trigger
  BY <1>1, <1>3, SMT DEF Jobs
<1> HIDE DEF w
<1>6. Fits("append", w, file, artifacts, receipts) /\ "append" \in RunStages
  BY <1>1, <1>5 DEF RunStages, Fits, HasBefore, HasSource, HasWork, HasView, HasKey,
     HasTrigger, HasContent, HasPassed, HasNext, Starting, Synced, Seen, Keyed, Entered
<1>7. QED
  BY <1>4, <1>5, <1>6, LocalMove DEF Stamp

LEMMA AppendInv ==
  ASSUME RunInv, NEW p \in Reviewers, AppendStatus(p)
  PROVE  RunInv'
<1> DEFINE e == Event(p)
<1>1. /\ attempt[p] \in Jobs /\ Fits("append", attempt[p], file, artifacts, receipts)
      /\ attempt[p].next \in Outcomes /\ attempt[p].run \in RunKeys
  BY FitsNow DEF AppendStatus, Fits, HasNext
<1>2. /\ ledger' = ledger \cup {e}
      /\ UNCHANGED <<inputs, registered, artifacts, receipts>>
  BY DEF AppendStatus
<1>3. /\ e \in [run : RunKeys, status : RunStatuses, receipt : {Nil} \cup Receipts,
                by : {Nil} \cup Reviewers, at : Nat]
      /\ e.status = attempt[p].next.status /\ e.receipt = attempt[p].next.receipt
      /\ e.run = attempt[p].run
  BY <1>1 DEF Event, Outcomes, Jobs
<1>4. \E s \in RunStages, w \in Jobs :
        Become(p, s, w) /\ Fits(s, w, file, artifacts, receipts)
  <2>1. CASE attempt[p].next.status = "running"
    <3>1. Become(p, "fee", attempt[p]) /\ "fee" \in RunStages
      BY <2>1 DEF AppendStatus, RunStages
    <3>2. Fits("fee", attempt[p], file, artifacts, receipts)
      BY <1>1, <2>1 DEF Fits, HasBefore, HasSource, HasWork, HasView, HasKey,
     HasTrigger, HasContent, HasPassed, HasNext, Starting, Synced, Seen, Keyed, Entered
    <3>3. QED
      BY <1>1, <3>1, <3>2
  <2>2. CASE attempt[p].next.status # "running"
    <3>1. Become(p, "idle", Idle) /\ "idle" \in RunStages
      BY <2>2 DEF AppendStatus, RunStages
    <3>2. QED
      BY <3>1, IdleFits
  <2>3. QED
    BY <2>1, <2>2
<1> HIDE DEF e
<1>5. Grows
  BY <1>2, FitsNow DEF Grows, inputs
<1>6. /\ pc' \in [Reviewers -> RunStages] /\ attempt' \in [Reviewers -> Jobs]
      /\ \A q \in Reviewers : Fits(pc[q], attempt[q], file, artifacts, receipts)'
  BY <1>2, <1>4, <1>5, Moves DEF inputs
<1>7. \A q \in Reviewers : pc'[q] # "idle" => attempt'[q].run \in RunKeys
  BY <1>6 DEF Fits
<1>8. RunTypes'
  BY <1>2, <1>3, <1>6, <1>7 DEF RunInv, RunTypes, inputs
<1>9. OneEach'
  BY <1>2 DEF RunInv, OneEach
<1>10. Backed'
  <2>1. e.status = "completed" => e.receipt \in receipts /\ e.receipt.run = e.run
    BY <1>1, <1>3 DEF Fits, HasNext
  <2>2. QED
    BY <1>2, <2>1 DEF RunInv, Backed, OfItsKey
<1>11. QED
  BY <1>6, <1>8, <1>9, <1>10 DEF RunInv

LEMMA AppendRefusedInv ==
  ASSUME RunInv, NEW p \in Reviewers, AppendRefused(p)
  PROVE  RunInv'
<1>1. pc[p] # "idle"
  BY DEF AppendRefused
<1>2. QED
  BY <1>1, EndsIdle, Raises DEF AppendRefused

LEMMA FeeInv ==
  ASSUME RunInv, NEW p \in Reviewers, Fee(p)
  PROVE  RunInv'
<1>1. attempt[p] \in Jobs /\ Fits("fee", attempt[p], file, artifacts, receipts) /\ pc[p] # "idle"
  BY FitsNow DEF Fee
<1>2. Fits("build", attempt[p], file, artifacts, receipts) /\ "build" \in RunStages
  BY <1>1 DEF RunStages, Fits, HasBefore, HasSource, HasWork, HasView, HasKey,
     HasTrigger, HasContent, HasPassed, HasNext, Starting, Synced, Seen, Keyed, Entered
<1>3. QED
  BY <1>1, <1>2, LocalMove, Raises DEF Fee

LEMMA BuildInv ==
  ASSUME RunInv, NEW p \in Reviewers, BuildArtifacts(p)
  PROVE  RunInv'
<1> DEFINE c == Content(p)
<1> DEFINE w == [attempt[p] EXCEPT !.content = c]
<1>1. /\ attempt[p] \in Jobs /\ Fits("build", attempt[p], file, artifacts, receipts)
      /\ file \in Version /\ pc[p] # "idle"
  BY FitsNow DEF BuildArtifacts
<1>2. CASE \E a \in artifacts : a.run = attempt[p].run /\ a # c
  BY <1>1, <1>2, Raises DEF BuildArtifacts
<1>3. CASE ~\E a \in artifacts : a.run = attempt[p].run /\ a # c
  <2>1. /\ artifacts' = artifacts \cup {c} /\ Become(p, "gate", w)
        /\ UNCHANGED <<inputs, registered, ledger, receipts>>
    BY <1>3 DEF BuildArtifacts
  <2>2. /\ attempt[p].run \in RunKeys /\ attempt[p].projection \in View
        /\ attempt[p].before \in Version /\ AtMost(attempt[p].before, file)
    BY <1>1 DEF Fits, HasBefore, HasView, Seen
  <2>3. /\ c \in Contents /\ c.run = attempt[p].run /\ c.read = file
        /\ c.projection = attempt[p].projection
    BY <1>1, <2>2 DEF Content, Contents
  <2>4. \A a, b \in artifacts' : a.run = b.run => a = b
    BY <1>3, <2>1, <2>3 DEF RunInv, OneEach
  <2> HIDE DEF c
  <2>5. /\ w \in Jobs /\ w.content = c /\ w.run = attempt[p].run /\ w.before = attempt[p].before
        /\ w.source = attempt[p].source /\ w.work = attempt[p].work
        /\ w.projection = attempt[p].projection /\ w.trigger = attempt[p].trigger
    BY <1>1, <2>3, SMT DEF Jobs
  <2> HIDE DEF w
  <2>6. Grows /\ "gate" \in RunStages
    BY <2>1, FitsNow DEF Grows, inputs, RunStages
  <2>7. Fits("gate", w, file, artifacts', receipts')
    <3>1. c \in artifacts' /\ AtMost(file, file)
      BY <2>1, FitsNow
    <3>2. QED
      BY <1>1, <2>2, <2>3, <2>5, <3>1 DEF Fits, HasBefore, HasSource, HasWork, HasView, HasKey,
     HasTrigger, HasContent, HasPassed, HasNext, Starting, Synced, Seen, Keyed, Entered
  <2>8. /\ pc' \in [Reviewers -> RunStages] /\ attempt' \in [Reviewers -> Jobs]
        /\ \A q \in Reviewers : Fits(pc[q], attempt[q], file, artifacts, receipts)'
    BY <2>1, <2>5, <2>6, <2>7, Moves DEF inputs
  <2>9. \A q \in Reviewers : pc'[q] # "idle" => attempt'[q].run \in RunKeys
    BY <2>8 DEF Fits
  <2>10. RunTypes'
    BY <2>1, <2>3, <2>8, <2>9 DEF RunInv, RunTypes, inputs
  <2>11. OneEach' /\ Backed'
    BY <2>1, <2>4 DEF RunInv, OneEach, Backed, OfItsKey
  <2>12. QED
    BY <2>8, <2>10, <2>11 DEF RunInv
<1>4. QED
  BY <1>2, <1>3

LEMMA GateInv ==
  ASSUME RunInv, NEW p \in Reviewers, Gate(p)
  PROVE  RunInv'
<1>1. /\ attempt[p] \in Jobs /\ Fits("gate", attempt[p], file, artifacts, receipts)
      /\ file \in Version /\ pc[p] # "idle"
  BY FitsNow DEF Gate
<1>2. CASE file = attempt[p].before /\ Projection = attempt[p].projection
  <2>1. /\ attempt[p].source \in Version /\ AtMost(attempt[p].before, attempt[p].source)
        /\ AtMost(attempt[p].source, file)
    BY <1>1 DEF Fits, HasSource, Synced
  <2>2. /\ attempt[p].content.read \in Version /\ AtMost(attempt[p].before, attempt[p].content.read)
        /\ AtMost(attempt[p].content.read, file)
    <3>1. attempt[p].content \in Contents
      BY <1>1 DEF Fits, HasContent, RunInv, RunTypes
    <3>2. QED
      BY <1>1, <3>1 DEF Fits, HasContent, Contents
  <2>3. attempt[p].source = attempt[p].before /\ attempt[p].content.read = attempt[p].before
    BY <1>1, <1>2, <2>1, <2>2, AtMostAntisymmetric
  <2>4. Fits("receipt", attempt[p], file, artifacts, receipts) /\ "receipt" \in RunStages
    BY <1>1, <2>3 DEF RunStages, Fits, HasBefore, HasSource, HasWork, HasView, HasKey,
     HasTrigger, HasContent, HasPassed, HasNext, Starting, Synced, Seen, Keyed, Entered
  <2>5. QED
    BY <1>1, <1>2, <2>4, LocalMove DEF Gate
<1>3. CASE ~(file = attempt[p].before /\ Projection = attempt[p].projection)
  BY <1>1, <1>3, Raises DEF Gate
<1>4. QED
  BY <1>2, <1>3

LEMMA WriteReceiptInv ==
  ASSUME RunInv, NEW p \in Reviewers, WriteReceipt(p)
  PROVE  RunInv'
<1> DEFINE r == Receipt(p)
<1> DEFINE w == [Idle EXCEPT !.run = attempt[p].run, !.next = Status("completed", r)]
<1>1. /\ attempt[p] \in Jobs /\ Fits("receipt", attempt[p], file, artifacts, receipts)
      /\ pc[p] # "idle"
  BY FitsNow DEF WriteReceipt
<1>2. CASE OtherReceipt(p)
  BY <1>1, <1>2, Raises DEF WriteReceipt
<1>3. CASE ~OtherReceipt(p)
  <2>1. /\ receipts' = receipts \cup {r} /\ Become(p, "stamp", w)
        /\ UNCHANGED <<inputs, registered, ledger, artifacts>>
    BY <1>3 DEF WriteReceipt
  <2>2. /\ attempt[p].run \in RunKeys /\ attempt[p].before \in Version
        /\ attempt[p].work \in Works /\ attempt[p].trigger \in Reviewers
        /\ attempt[p].content \in artifacts /\ attempt[p].content \in Contents
        /\ attempt[p].requests \in Nat
    BY <1>1 DEF RunInv, RunTypes, Fits, HasBefore, HasWork, HasTrigger, HasContent,
       Synced, Entered, Jobs
  <2>3. /\ r \in Receipts /\ r.run = attempt[p].run /\ r.before = attempt[p].before
        /\ r.content = attempt[p].content
    BY <2>2 DEF Receipt, Receipts
  <2>4. OfItsKey(r)
    BY <1>1, <2>2, <2>3 DEF OfItsKey, Fits, HasKey, HasContent, HasPassed, Keyed
  <2>5. \A a, b \in receipts' : a.run = b.run => a = b
    BY <1>3, <2>1, <2>3 DEF RunInv, OneEach, OtherReceipt
  <2>6. w \in Jobs /\ Fits("stamp", w, file', artifacts', receipts')
    <3>1. "completed" \in RunStatuses \ {"running"} /\ r \in receipts'
      BY <2>1 DEF RunStatuses
    <3> HIDE DEF r
    <3>2. QED
      BY <2>2, <2>3, <3>1, EndingFits
  <2> HIDE DEF r, w
  <2>7. Grows /\ "stamp" \in RunStages
    BY <2>1, FitsNow DEF Grows, inputs, RunStages
  <2>8. /\ pc' \in [Reviewers -> RunStages] /\ attempt' \in [Reviewers -> Jobs]
        /\ \A q \in Reviewers : Fits(pc[q], attempt[q], file, artifacts, receipts)'
    BY <2>1, <2>6, <2>7, Moves
  <2>9. \A q \in Reviewers : pc'[q] # "idle" => attempt'[q].run \in RunKeys
    BY <2>8 DEF Fits
  <2>10. RunTypes'
    BY <2>1, <2>3, <2>8, <2>9 DEF RunInv, RunTypes, inputs
  <2>11. OneEach' /\ Backed'
    BY <2>1, <2>4, <2>5 DEF RunInv, OneEach, Backed, OfItsKey
  <2>12. QED
    BY <2>8, <2>10, <2>11 DEF RunInv
<1>4. QED
  BY <1>2, <1>3

\* A sync: the sidecar is brought up to the file, and the attempt moves on.
LEMMA SyncMove ==
  ASSUME RunInv, NEW p \in Reviewers, NEW s \in RunStages, NEW w \in Jobs, NEW whole \in BOOLEAN,
         Become(p, s, w), UNCHANGED <<file, clock, outputs>>,
         sidecar' = [sidecar EXCEPT !.events = file.trades, !.whole = whole],
         Fits(s, w, file, artifacts, receipts)
  PROVE  RunInv'
<1>1. Grows /\ Fits(s, w, file', artifacts', receipts')
  BY FitsNow DEF Grows, outputs
<1>2. /\ pc' \in [Reviewers -> RunStages] /\ attempt' \in [Reviewers -> Jobs]
      /\ \A q \in Reviewers : Fits(pc[q], attempt[q], file, artifacts, receipts)'
  BY <1>1, Moves
<1>3. \A q \in Reviewers : pc'[q] # "idle" => attempt'[q].run \in RunKeys
  BY <1>2 DEF Fits
<1>4. /\ sidecar' \in [events : Nat, decisions : Nat, whole : BOOLEAN, marked : BOOLEAN]
      /\ sidecar'.events <= file'.trades
  <2> DEFINE i == [sidecar EXCEPT !.events = file.trades]
  <2>1. sidecar \in [events : Nat, decisions : Nat, whole : BOOLEAN, marked : BOOLEAN] /\ file.trades \in Nat
    BY DEF RunInv, RunTypes, Version
  <2>2. sidecar' = [i EXCEPT !.whole = whole]
    OBVIOUS
  <2>3. i \in [events : Nat, decisions : Nat, whole : BOOLEAN, marked : BOOLEAN] /\ i.events = file.trades
    BY <2>1
  <2> HIDE DEF i
  <2>4. /\ sidecar' \in [events : Nat, decisions : Nat, whole : BOOLEAN, marked : BOOLEAN]
        /\ sidecar'.events = file.trades
    BY <2>2, <2>3
  <2>5. QED
    BY <2>1, <2>4
<1>5. RunTypes'
  BY <1>2, <1>3, <1>4 DEF RunInv, RunTypes, outputs
<1>6. OneEach' /\ Backed'
  BY DEF RunInv, OneEach, Backed, OfItsKey, outputs
<1>7. QED
  BY <1>2, <1>5, <1>6 DEF RunInv

LEMMA SyncInv ==
  ASSUME RunInv, NEW p \in Reviewers, Sync(p)
  PROVE  RunInv'
<1> DEFINE v == Work(attempt[p].work.action, file.trades - sidecar.events)
<1> DEFINE i == [attempt[p] EXCEPT !.source = file]
<1> DEFINE w == [i EXCEPT !.work = v]
<1>1. /\ attempt[p] \in Jobs /\ Fits("sync", attempt[p], file, artifacts, receipts)
      /\ file \in Version /\ AtMost(file, file)
  BY FitsNow DEF Sync
<1>2. v \in Works
  <2>1. file.trades - sidecar.events \in Nat
    BY SMT DEF RunInv, RunTypes, Version
  <2>2. attempt[p].work \in Works
    BY <1>1 DEF Fits, HasWork
  <2>3. QED
    BY <2>1, <2>2 DEF Work, Works
<1>3. Become(p, "project", w) /\ "project" \in RunStages
  BY DEF Sync, RunStages
<1> HIDE DEF v
<1>4. i \in Jobs /\ i.source = file /\ i.run = attempt[p].run /\ i.before = attempt[p].before
  BY <1>1, SMT DEF Jobs
<1> HIDE DEF i
<1>5. /\ w \in Jobs /\ w.work = v
      /\ w.source = file /\ w.run = attempt[p].run /\ w.before = attempt[p].before
  BY <1>2, <1>4, SMT DEF Jobs
<1> HIDE DEF w
<1>6. Fits("project", w, file, artifacts, receipts)
  BY <1>1, <1>2, <1>5 DEF Fits, HasBefore, HasSource, HasWork, HasView, HasKey,
     HasTrigger, HasContent, HasPassed, HasNext, Starting, Synced, Seen, Keyed, Entered
<1>7. QED
  BY <1>3, <1>5, <1>6, SyncMove DEF Sync

LEMMA DieInSyncInv ==
  ASSUME RunInv, NEW p \in Reviewers, DieInSync(p)
  PROVE  RunInv'
<1>1. "idle" \in RunStages
  BY DEF RunStages
<1>2. QED
  BY <1>1, IdleFits, SyncMove DEF DieInSync

LEMMA FaultInv ==
  ASSUME RunInv, NEW p \in Reviewers, StageRaises(p)
  PROVE  RunInv'
<1>1. PICK status \in {"failed", "blocked"} : Handle(p, status)
  BY DEF StageRaises
<1>2. pc[p] # "idle"
  BY DEF StageRaises
<1>3. QED
  BY <1>1, <1>2, Handled DEF StageRaises

LEMMA DieInv ==
  ASSUME RunInv, NEW p \in Reviewers, DieInRun(p)
  PROVE  RunInv'
  BY EndsIdle DEF DieInRun

\* Outside a run, the files only grow and no attempt moves.
LEMMA EnvironmentInv ==
  ASSUME RunInv, Environment
  PROVE  RunInv'
<1>1. UNCHANGED <<outputs, pc, attempt>>
  BY DEF Environment, WriteFile, LinkDecision, NextSecond
<1>2. /\ file' \in Version /\ AtMost(file, file')
      /\ sidecar' \in [events : Nat, decisions : Nat, whole : BOOLEAN, marked : BOOLEAN]
      /\ sidecar'.events <= file'.trades /\ clock' \in Nat
  <2>1. /\ file \in Version /\ AtMost(file, file) /\ clock \in Nat
        /\ sidecar \in [events : Nat, decisions : Nat, whole : BOOLEAN, marked : BOOLEAN]
        /\ sidecar.events <= file.trades
    BY FitsNow, AtMostReflexive DEF RunInv, RunTypes
  <2>2. CASE WriteFile("trades")
    <3>1. file' = [file EXCEPT !["trades"] = @ + 1] /\ UNCHANGED <<sidecar, clock>>
      BY <2>2 DEF WriteFile
    <3>2. QED
      BY <2>1, <3>1, SMT DEF Version, AtMost
  <2>3. CASE WriteFile("other")
    <3>1. file' = [file EXCEPT !["other"] = @ + 1] /\ UNCHANGED <<sidecar, clock>>
      BY <2>3 DEF WriteFile
    <3>2. QED
      BY <2>1, <3>1, SMT DEF Version, AtMost
  <2>4. CASE LinkDecision
    <3>1. sidecar' = [sidecar EXCEPT !.decisions = @ + 1] /\ UNCHANGED <<file, clock>>
      BY <2>4 DEF LinkDecision
    <3>2. QED
      BY <2>1, <3>1, SMT
  <2>5. CASE NextSecond
    BY <2>1, <2>5, SMT DEF NextSecond
  <2>6. QED
    BY <2>2, <2>3, <2>4, <2>5 DEF Environment
<1>3. ASSUME NEW q \in Reviewers
      PROVE  Fits(pc[q], attempt[q], file, artifacts, receipts)'
  <2>1. /\ attempt[q] \in Jobs /\ Fits(pc[q], attempt[q], file, artifacts, receipts)
        /\ file \in Version /\ artifacts \subseteq Contents
    BY FitsNow DEF RunInv, RunTypes
  <2>2. Fits(pc[q], attempt[q], file', artifacts, receipts)
    BY <1>2, <2>1, StillFits
  <2>3. QED
    BY <1>1, <2>2 DEF outputs, Fits, HasBefore, HasSource, HasWork, HasView, HasKey,
       HasTrigger, HasContent, HasPassed, HasNext, Starting, AtMost
<1>4. RunTypes'
  BY <1>1, <1>2 DEF RunInv, RunTypes, outputs
<1>5. OneEach' /\ Backed'
  BY <1>1 DEF RunInv, OneEach, Backed, OfItsKey, outputs
<1>6. QED
  BY <1>3, <1>4, <1>5 DEF RunInv

-----------------------------------------------------------------------------
LEMMA RunInvInitially == RunInit => RunInv
<1> SUFFICES ASSUME RunInit PROVE RunInv
  OBVIOUS
<1>1. /\ file \in Version /\ sidecar.events <= file.trades
      /\ sidecar \in [events : Nat, decisions : Nat, whole : BOOLEAN, marked : BOOLEAN]
  BY SMT DEF RunInit, Version
<1>2. /\ pc \in [Reviewers -> RunStages] /\ attempt \in [Reviewers -> Jobs]
      /\ \A p \in Reviewers : pc[p] = "idle" /\ attempt[p] = Idle
  BY IdleFits DEF RunInit, RunStages
<1>3. RunTypes
  BY <1>1, <1>2 DEF RunInit, RunTypes
<1>4. OneEach /\ Backed
  BY DEF RunInit, OneEach, Backed
<1>5. \A p \in Reviewers : Fits(pc[p], attempt[p], file, artifacts, receipts)
  BY <1>2, IdleFits
<1>6. QED
  BY <1>3, <1>4, <1>5 DEF RunInv

LEMMA RunInvKept == RunInv /\ [RunNext]_runVars => RunInv'
<1> SUFFICES ASSUME RunInv, [RunNext]_runVars PROVE RunInv'
  OBVIOUS
<1>1. CASE Environment
  BY <1>1, EnvironmentInv
<1>2. ASSUME NEW p \in Reviewers, Step(p) PROVE RunInv'
  BY <1>2, BeginInv, PreviewInv, HealthInv, SyncInv, DieInSyncInv, ProjectInv, BindKeyInv,
     ReplayInv, EnterInv, RegisterInv, StampInv, AppendInv, AppendRefusedInv, FeeInv,
     BuildInv, GateInv, WriteReceiptInv, FaultInv, DieInv DEF Step
<1>3. CASE UNCHANGED runVars
  BY <1>3 DEF runVars, RunInv, RunTypes, OneEach, Backed, OfItsKey, Fits, HasBefore,
     HasSource, HasWork, HasView, HasKey, HasTrigger, HasContent, HasPassed, HasNext,
     Starting, AtMost
<1>4. QED
  BY <1>1, <1>2, <1>3 DEF RunNext

\* Every variable stays in its type, and an attempt has what its stage works on.
THEOREM RunTyped == RunSpec => []RunTypes
<1>1. RunInv => RunTypes
  BY DEF RunInv
<1>2. QED
  BY <1>1, RunInvInitially, RunInvKept, PTL DEF RunSpec

\* A run recorded as completed has one receipt on disk, the one its event names,
\* and all that receipt is about was read from the version of the portfolio file
\* and the projection that the run's key is the hash of (the gates of run() and
\* _immutable_write), for any processes, changes, mishaps and attempts.
THEOREM OneVersionPerReceipt == RunSpec => []CompletedIsOfItsKey
<1>1. RunInv => CompletedIsOfItsKey
  <2> SUFFICES ASSUME RunInv, NEW e \in ledger, e.status = "completed"
               PROVE  /\ {r \in receipts : r.run = e.run} = {e.receipt}
                      /\ e.receipt.before = e.run.source
                      /\ {a \in artifacts : a.run = e.run} = {e.receipt.content}
                      /\ e.receipt.content.read = e.run.source
                      /\ e.receipt.content.projection = e.run.projection
    BY DEF CompletedIsOfItsKey
  <2>1. e.receipt \in receipts /\ e.receipt.run = e.run /\ OfItsKey(e.receipt)
    BY DEF RunInv, Backed
  <2>2. {r \in receipts : r.run = e.run} = {e.receipt}
    BY <2>1 DEF RunInv, OneEach
  <2>3. {a \in artifacts : a.run = e.run} = {e.receipt.content}
    BY <2>1 DEF RunInv, OneEach, OfItsKey
  <2>4. QED
    BY <2>1, <2>2, <2>3 DEF OfItsKey
<1>2. QED
  BY <1>1, RunInvInitially, RunInvKept, PTL DEF RunSpec

-----------------------------------------------------------------------------
\* A run that is completed is not run again.  What each call remembers as
\* completed is completed: a status that ends this strikes it from all calls.

WorkingAt(s, j) ==
    \/ s \in {"register", "fee", "build", "gate", "receipt"}
    \/ s \in {"stamp", "append"} /\ j.next.status = "running"

Remembered ==
    /\ stable \in [Reviewers -> SUBSET RunKeys]
    /\ \A p \in Reviewers : \A k \in stable[p] : Completed(k)
NotRerun == RunTypes /\ Remembered /\ CompletedIsNotRerun

LEMMA StageAndLocals ==
  ASSUME NotRerun, NEW p \in Reviewers, NEW s, NEW w, Become(p, s, w)
  PROVE  /\ pc'[p] = s /\ attempt'[p] = w
         /\ \A q \in Reviewers \ {p} : pc'[q] = pc[q] /\ attempt'[q] = attempt[q]
  BY DEF NotRerun, RunTypes, Become

\* A move that records no status goes on with a run, or takes up one that is
\* not completed, or works on none.
LEMMA KeepsOff ==
  ASSUME NotRerun, NEW p \in Reviewers, NEW s, NEW w, Become(p, s, w),
         UNCHANGED <<ledger, stable>>,
         WorkingAt(s, w) => \/ Working(p) /\ w.run = attempt[p].run
                            \/ ~Completed(w.run)
  PROVE  Remembered' /\ CompletedIsNotRerun'
<1>1. Remembered'
  BY DEF NotRerun, Remembered, Completed, IsCurrent, EventsOf
<1>2. ASSUME NEW q \in Reviewers, Working(q)' PROVE attempt'[q].run \notin stable'[q]
  <2>1. CASE q = p
    <3>1. WorkingAt(s, w) /\ attempt'[q] = w
      BY <1>2, <2>1, StageAndLocals DEF Working, WorkingAt
    <3>2. CASE Working(p) /\ w.run = attempt[p].run
      BY <2>1, <3>1, <3>2 DEF NotRerun, CompletedIsNotRerun
    <3>3. CASE ~Completed(w.run)
      BY <2>1, <3>1, <3>3 DEF NotRerun, Remembered
    <3>4. QED
      BY <3>1, <3>2, <3>3
  <2>2. CASE q # p
    <3>1. Working(q) /\ attempt'[q] = attempt[q]
      BY <1>2, <2>2, StageAndLocals DEF Working
    <3>2. QED
      BY <3>1 DEF NotRerun, CompletedIsNotRerun
  <2>3. QED
    BY <2>1, <2>2
<1>3. QED
  BY <1>1, <1>2 DEF CompletedIsNotRerun

LEMMA KeepsOffOnFailure ==
  ASSUME NotRerun, NEW p \in Reviewers, NEW st \in {"failed", "blocked"}, Handle(p, st),
         UNCHANGED <<ledger, stable>>
  PROVE  Remembered' /\ CompletedIsNotRerun'
<1>1. CASE Become(p, "idle", Idle)
  <2>1. ~WorkingAt("idle", Idle)
    BY DEF WorkingAt
  <2>2. QED
    BY <1>1, <2>1, KeepsOff
<1>2. CASE Become(p, "stamp", [Idle EXCEPT !.run = attempt[p].run, !.next = Status(st, Nil)])
  <2> DEFINE i == [Idle EXCEPT !.run = attempt[p].run]
  <2> DEFINE w == [i EXCEPT !.next = Status(st, Nil)]
  <2>1. w.next.status = st
    BY DEF Idle, Status
  <2>2. Become(p, "stamp", w)
    BY <1>2
  <2> HIDE DEF w
  <2>3. ~WorkingAt("stamp", w)
    BY <2>1 DEF WorkingAt
  <2>4. QED
    BY <2>2, <2>3, KeepsOff
<1>3. QED
  BY <1>1, <1>2 DEF Handle

\* Up to the key, and where a call ends, a process works on no run.
LEMMA KeepsOffElsewhere ==
  ASSUME NotRerun, NEW p \in Reviewers,
         \/ Preview(p) \/ Health(p) \/ Sync(p) \/ DieInSync(p) \/ Project(p) \/ BindKey(p)
         \/ DieInRun(p)
  PROVE  Remembered' /\ CompletedIsNotRerun'
<1>1. PICK s \in {"idle", "health", "sync", "project", "baseline", "lookup"} :
        \E w : Become(p, s, w)
  BY DEF Preview, Health, Sync, DieInSync, Project, BindKey, DieInRun
<1>2. PICK w : Become(p, s, w)
  BY <1>1
<1>3. UNCHANGED <<ledger, stable>>
  BY DEF Preview, Health, Sync, DieInSync, Project, BindKey, DieInRun, outputs
<1>4. ~WorkingAt(s, w)
  BY DEF WorkingAt
<1>5. QED
  BY <1>2, <1>3, <1>4, KeepsOff

LEMMA KeepsOffAtBegin ==
  ASSUME NotRerun, NEW p \in Reviewers, BeginRun(p)
  PROVE  Remembered' /\ CompletedIsNotRerun'
<1> DEFINE w == [Idle EXCEPT !.run = Preflight(file), !.before = file]
<1> DEFINE now == {e.run : e \in {f \in ledger : Completed(f.run)}}
<1>1. Become(p, "preview", w) /\ ledger' = ledger /\ stable' = [stable EXCEPT ![p] = now]
  BY DEF BeginRun, outputs
<1>2. now \in SUBSET RunKeys /\ \A k \in now : Completed(k)
  BY DEF NotRerun, RunTypes
<1> HIDE DEF w, now
<1>3. stable' \in [Reviewers -> SUBSET RunKeys] /\ stable'[p] = now
      /\ \A q \in Reviewers \ {p} : stable'[q] = stable[q]
  BY <1>1, <1>2 DEF NotRerun, Remembered
<1>4. Remembered'
  BY <1>1, <1>2, <1>3 DEF NotRerun, Remembered, Completed, IsCurrent, EventsOf
<1>5. ASSUME NEW q \in Reviewers, Working(q)' PROVE attempt'[q].run \notin stable'[q]
  <2>1. q # p /\ pc'[q] = pc[q] /\ attempt'[q] = attempt[q]
    BY <1>1, <1>5, StageAndLocals DEF Working
  <2>2. QED
    BY <1>3, <1>5, <2>1 DEF NotRerun, CompletedIsNotRerun, Working
<1>6. QED
  BY <1>4, <1>5 DEF CompletedIsNotRerun

LEMMA KeepsOffAtLookup ==
  ASSUME NotRerun, NEW p \in Reviewers, ReplayReceipt(p) \/ EnterRun(p) \/ Register(p)
  PROVE  Remembered' /\ CompletedIsNotRerun'
<1>1. attempt[p] \in Jobs
  BY DEF NotRerun, RunTypes
<1>2. CASE ReplayReceipt(p)
  <2>1. CASE Raise(p, "failed")
    BY <2>1, KeepsOffOnFailure DEF Raise
  <2>2. CASE Become(p, "idle", Idle) /\ UNCHANGED <<inputs, outputs, stable, spent>>
    <3>1. ~WorkingAt("idle", Idle) /\ UNCHANGED <<ledger, stable>>
      BY <2>2 DEF WorkingAt, outputs
    <3>2. QED
      BY <2>2, <3>1, KeepsOff
  <2>3. QED
    BY <1>2, <2>1, <2>2 DEF ReplayReceipt
<1>3. CASE EnterRun(p)
  <2>1. ~Completed(attempt[p].run) /\ UNCHANGED <<ledger, stable>>
    BY <1>3 DEF EnterRun, outputs
  <2>2. CASE Become(p, "register", attempt[p])
    BY <2>1, <2>2, KeepsOff
  <2>3. ASSUME NEW r \in registered,
               Become(p, "stamp", [attempt[p] EXCEPT !.trigger = r.trigger,
                                                   !.next = Status("running", Nil)])
        PROVE  Remembered' /\ CompletedIsNotRerun'
    <3> DEFINE i == [attempt[p] EXCEPT !.trigger = r.trigger]
    <3> DEFINE w == [i EXCEPT !.next = Status("running", Nil)]
    <3>1. w.run = attempt[p].run
      BY <1>1 DEF Jobs
    <3>2. Become(p, "stamp", w)
      BY <2>3
    <3> HIDE DEF w
    <3>3. QED
      BY <2>1, <3>1, <3>2, KeepsOff
  <2>4. QED
    BY <1>3, <2>2, <2>3 DEF EnterRun
<1>4. CASE Register(p)
  <2>1. CASE Raise(p, "failed")
    BY <2>1, KeepsOffOnFailure DEF Raise
  <2>2. CASE ~IsRegistered(attempt[p].run)
    <3> DEFINE i == [attempt[p] EXCEPT !.trigger = p]
    <3> DEFINE w == [i EXCEPT !.next = Status("running", Nil)]
    <3>1. w.run = attempt[p].run
      BY <1>1 DEF Jobs
    <3>2. Become(p, "stamp", w) /\ UNCHANGED <<ledger, stable>> /\ Working(p)
      BY <1>4, <2>2 DEF Register, Working
    <3> HIDE DEF w
    <3>3. QED
      BY <3>1, <3>2, KeepsOff
  <2>3. QED
    BY <1>4, <2>1, <2>2 DEF Register
<1>5. QED
  BY <1>2, <1>3, <1>4

LEMMA KeepsOffAtStatus ==
  ASSUME NotRerun, NEW p \in Reviewers, Stamp(p) \/ AppendRefused(p)
  PROVE  Remembered' /\ CompletedIsNotRerun'
<1>1. CASE Stamp(p)
  <2>1. PICK t : Become(p, "append", [attempt[p] EXCEPT !.at = t])
    BY <1>1 DEF Stamp
  <2> DEFINE w == [attempt[p] EXCEPT !.at = t]
  <2>2. w.run = attempt[p].run /\ w.next = attempt[p].next
    BY DEF NotRerun, RunTypes, Jobs
  <2>3. UNCHANGED <<ledger, stable>> /\ pc[p] = "stamp" /\ Become(p, "append", w)
    BY <1>1, <2>1 DEF Stamp, outputs
  <2> HIDE DEF w
  <2>4. WorkingAt("append", w) => Working(p)
    BY <2>2, <2>3 DEF WorkingAt, Working
  <2>5. QED
    BY <2>2, <2>3, <2>4, KeepsOff
<1>2. CASE AppendRefused(p)
  <2>1. CASE Raise(p, "failed")
    BY <2>1, KeepsOffOnFailure DEF Raise
  <2>2. CASE Become(p, "idle", Idle) /\ UNCHANGED <<inputs, outputs, stable, spent>>
    <3>1. ~WorkingAt("idle", Idle) /\ UNCHANGED <<ledger, stable>>
      BY <2>2 DEF WorkingAt, outputs
    <3>2. QED
      BY <2>2, <3>1, KeepsOff
  <2>3. QED
    BY <1>2, <2>1, <2>2 DEF AppendRefused
<1>3. QED
  BY <1>1, <1>2

LEMMA KeepsOffAtAppend ==
  ASSUME NotRerun, NEW p \in Reviewers, AppendStatus(p)
  PROVE  Remembered' /\ CompletedIsNotRerun'
<1>1. stable' = [q \in Reviewers |-> {run \in stable[q] : Completed(run)'}]
  BY DEF AppendStatus
<1>2. Remembered'
  BY <1>1 DEF NotRerun, Remembered
<1>3. ASSUME NEW q \in Reviewers, Working(q)'
      PROVE  Working(q) /\ attempt'[q].run = attempt[q].run
  <2>1. CASE Become(p, "fee", attempt[p]) /\ attempt[p].next.status = "running"
    BY <1>3, <2>1, StageAndLocals DEF Working, AppendStatus
  <2>2. CASE Become(p, "idle", Idle)
    BY <1>3, <2>2, StageAndLocals DEF Working
  <2>3. QED
    BY <2>1, <2>2 DEF AppendStatus
<1>4. \A q \in Reviewers : stable'[q] \subseteq stable[q]
  BY <1>1
<1>5. CompletedIsNotRerun'
  BY <1>3, <1>4 DEF NotRerun, CompletedIsNotRerun
<1>6. QED
  BY <1>2, <1>5

LEMMA KeepsOffInStages ==
  ASSUME NotRerun, NEW p \in Reviewers,
         Fee(p) \/ BuildArtifacts(p) \/ Gate(p) \/ WriteReceipt(p) \/ StageRaises(p)
  PROVE  Remembered' /\ CompletedIsNotRerun'
<1>1. CASE \E st \in {"failed", "blocked"} : Handle(p, st) /\ UNCHANGED <<ledger, stable>>
  BY <1>1, KeepsOffOnFailure
<1>2. CASE Fee(p) \/ Gate(p)
  <2>1. CASE Raise(p, "failed") \/ Raise(p, "blocked")
    BY <1>1, <2>1 DEF Raise
  <2>2. CASE Become(p, "build", attempt[p]) \/ Become(p, "receipt", attempt[p])
    <3>1. Working(p)
      BY <1>2 DEF Fee, Gate, Working
    <3>2. CASE UNCHANGED <<ledger, stable>>
      BY <2>2, <3>1, <3>2, KeepsOff
    <3>3. QED
      BY <1>2, <2>1, <3>2 DEF Fee, Gate, outputs
  <2>3. QED
    BY <1>2, <2>1, <2>2 DEF Fee, Gate
<1>3. CASE BuildArtifacts(p)
  <2>1. CASE Raise(p, "blocked")
    BY <1>1, <2>1 DEF Raise
  <2>2. CASE Become(p, "gate", [attempt[p] EXCEPT !.content = Content(p)])
             /\ UNCHANGED <<ledger, stable>>
    <3> DEFINE w == [attempt[p] EXCEPT !.content = Content(p)]
    <3>1. w.run = attempt[p].run /\ Working(p)
      BY <1>3 DEF NotRerun, RunTypes, Jobs, BuildArtifacts, Working
    <3>2. Become(p, "gate", w)
      BY <2>2
    <3> HIDE DEF w
    <3>3. QED
      BY <2>2, <3>1, <3>2, KeepsOff
  <2>3. QED
    BY <1>3, <2>1, <2>2 DEF BuildArtifacts
<1>4. CASE WriteReceipt(p)
  <2>1. CASE Raise(p, "blocked")
    BY <1>1, <2>1 DEF Raise
  <2>2. CASE ~OtherReceipt(p)
    <3> DEFINE i == [Idle EXCEPT !.run = attempt[p].run]
    <3> DEFINE w == [i EXCEPT !.next = Status("completed", Receipt(p))]
    <3>1. w.next.status = "completed"
      BY DEF Idle, Status
    <3>2. Become(p, "stamp", w) /\ UNCHANGED <<ledger, stable>>
      BY <1>4, <2>2 DEF WriteReceipt
    <3> HIDE DEF w
    <3>3. ~WorkingAt("stamp", w)
      BY <3>1 DEF WorkingAt
    <3>4. QED
      BY <3>2, <3>3, KeepsOff
  <2>3. QED
    BY <1>4, <2>1, <2>2 DEF WriteReceipt
<1>5. CASE StageRaises(p)
  BY <1>1, <1>5 DEF StageRaises
<1>6. QED
  BY <1>2, <1>3, <1>4, <1>5

LEMMA NotRerunKept ==
  ASSUME RunTypes, RunTypes', NotRerun, [RunNext]_runVars
  PROVE  NotRerun'
<1>1. CASE Environment
  BY <1>1 DEF Environment, WriteFile, LinkDecision, NextSecond, NotRerun, Remembered,
     CompletedIsNotRerun, Completed, IsCurrent, EventsOf, Working, outputs
<1>2. ASSUME NEW p \in Reviewers, Step(p) PROVE NotRerun'
  <2>1. Remembered' /\ CompletedIsNotRerun'
    BY <1>2, KeepsOffElsewhere, KeepsOffAtBegin, KeepsOffAtLookup, KeepsOffAtStatus,
       KeepsOffAtAppend, KeepsOffInStages DEF Step
  <2>2. QED
    BY <2>1 DEF NotRerun
<1>3. CASE UNCHANGED runVars
  BY <1>3 DEF runVars, NotRerun, Remembered, CompletedIsNotRerun, Completed, IsCurrent,
     EventsOf, Working
<1>4. QED
  BY <1>1, <1>2, <1>3 DEF RunNext

\* A call works on a run only if that run was not completed at some time since the
\* call (ReviewRunner.run looks for a terminal receipt first), whatever other
\* attempts append and wherever they fail.
THEOREM NeverRerun == RunSpec => []CompletedIsNotRerun
<1>1. RunInit => NotRerun
  <2> SUFFICES ASSUME RunInit PROVE NotRerun
    OBVIOUS
  <2>1. RunTypes
    BY RunInvInitially DEF RunInv
  <2>2. Remembered
    BY DEF RunInit, Remembered
  <2>3. CompletedIsNotRerun
    BY DEF RunInit, CompletedIsNotRerun, Working
  <2>4. QED
    BY <2>1, <2>2, <2>3 DEF NotRerun
<1>2. NotRerun => CompletedIsNotRerun
  BY DEF NotRerun
<1>3. QED
  BY <1>1, <1>2, NotRerunKept, RunTyped, PTL DEF RunSpec
-----------------------------------------------------------------------------
(* Equal work gives equal receipts.  A run has one row, and the trigger a   *)
(* receipt names is that row's; what else is in it follows from the key, or *)
(* is the one set of artifacts of the run.                                  *)

Row(k, t) == [run |-> k, trigger |-> t]

\* An attempt that has entered its run carries the trigger of its row.
Owns(s, j) == s \in Entered \/ Starting(s, j) => Row(j.run, j.trigger) \in registered

Owned ==
    /\ \A x, y \in registered : x.run = y.run => x = y
    /\ \A r \in receipts : Row(r.run, r.trigger) \in registered
    /\ \A p \in Reviewers : Owns(pc[p], attempt[p])

OwnedInv == RunTypes /\ Owned

LEMMA OwnedMove ==
  ASSUME OwnedInv, NEW p \in Reviewers, NEW s, NEW w, Become(p, s, w),
         registered \subseteq registered',
         \A x, y \in registered' : x.run = y.run => x = y,
         \A r \in receipts' : Row(r.run, r.trigger) \in registered',
         s \in Entered \/ Starting(s, w) => Row(w.run, w.trigger) \in registered'
  PROVE  Owned'
<1>1. /\ pc'[p] = s /\ attempt'[p] = w
      /\ \A q \in Reviewers \ {p} : pc'[q] = pc[q] /\ attempt'[q] = attempt[q]
  BY DEF OwnedInv, RunTypes, Become
<1>2. ASSUME NEW q \in Reviewers PROVE Owns(pc[q], attempt[q])'
  BY <1>1 DEF OwnedInv, Owned, Owns, Starting
<1>3. QED
  BY <1>2 DEF Owned

\* A move that registers nothing and writes no receipt.
LEMMA OwnedLocal ==
  ASSUME OwnedInv, NEW p \in Reviewers, NEW s, NEW w, Become(p, s, w),
         UNCHANGED <<registered, receipts>>,
         s \in Entered \/ Starting(s, w) => Row(w.run, w.trigger) \in registered
  PROVE  Owned'
<1>1. /\ \A x, y \in registered : x.run = y.run => x = y
      /\ \A r \in receipts : Row(r.run, r.trigger) \in registered
  BY DEF OwnedInv, Owned
<1>2. QED
  BY <1>1, OwnedMove

\* A run gets a row only if it has none.
LEMMA OneRowEach ==
  ASSUME OwnedInv, NEW k, NEW t, ~IsRegistered(k), registered' = registered \cup {Row(k, t)}
  PROVE  /\ registered \subseteq registered'
         /\ \A x, y \in registered' : x.run = y.run => x = y
         /\ \A r \in receipts : Row(r.run, r.trigger) \in registered'
  BY DEF OwnedInv, Owned, IsRegistered, Row

LEMMA OwnedOnFailure ==
  ASSUME OwnedInv, NEW p \in Reviewers, NEW st \in {"failed", "blocked"}, Handle(p, st),
         receipts' = receipts
  PROVE  Owned'
<1>1. CASE Become(p, "idle", Idle) /\ UNCHANGED registered
  <2>1. ~("idle" \in Entered \/ Starting("idle", Idle))
    BY DEF Entered, Starting
  <2>2. QED
    BY <1>1, <2>1, OwnedLocal
<1>2. CASE /\ Become(p, "stamp", [Idle EXCEPT !.run = attempt[p].run, !.next = Status(st, Nil)])
           /\ registered' = IF IsRegistered(attempt[p].run) THEN registered
                            ELSE registered \cup {[run |-> attempt[p].run, trigger |-> p]}
  <2> DEFINE i == [Idle EXCEPT !.run = attempt[p].run]
             w == [i EXCEPT !.next = Status(st, Nil)]
  <2>1. w.next.status = st
    BY DEF Idle, Status
  <2>2. Become(p, "stamp", w)
    BY <1>2
  <2> HIDE DEF w
  <2>3. ~("stamp" \in Entered \/ Starting("stamp", w))
    BY <2>1 DEF Entered, Starting
  <2>4. CASE registered' = registered
    BY <2>2, <2>3, <2>4, OwnedLocal
  <2>5. CASE ~IsRegistered(attempt[p].run)
    <3>1. registered' = registered \cup {Row(attempt[p].run, p)}
      BY <1>2, <2>5 DEF Row
    <3>2. /\ registered \subseteq registered'
          /\ \A x, y \in registered' : x.run = y.run => x = y
          /\ \A r \in receipts : Row(r.run, r.trigger) \in registered'
      BY <2>5, <3>1, OneRowEach
    <3>3. QED
      BY <2>2, <2>3, <3>2, OwnedMove
  <2>6. QED
    BY <1>2, <2>4, <2>5
<1>3. QED
  BY <1>1, <1>2 DEF Handle

\* Before it has entered a run, and where it ends, an attempt needs no row.
LEMMA OwnedElsewhere ==
  ASSUME OwnedInv, NEW p \in Reviewers,
         \/ BeginRun(p) \/ Preview(p) \/ Health(p) \/ Sync(p) \/ DieInSync(p) \/ Project(p)
         \/ BindKey(p) \/ DieInRun(p)
  PROVE  Owned'
<1>1. PICK s \in {"idle", "preview", "health", "sync", "project", "baseline", "lookup"} :
        \E w : Become(p, s, w)
  BY DEF BeginRun, Preview, Health, Sync, DieInSync, Project, BindKey, DieInRun
<1>2. PICK w : Become(p, s, w)
  BY <1>1
<1>3. UNCHANGED <<registered, receipts>>
  BY DEF BeginRun, Preview, Health, Sync, DieInSync, Project, BindKey, DieInRun, outputs
<1>4. ~(s \in Entered \/ Starting(s, w))
  BY DEF Entered, Starting
<1>5. QED
  BY <1>2, <1>3, <1>4, OwnedLocal

LEMMA OwnedAtLookup ==
  ASSUME OwnedInv, NEW p \in Reviewers, ReplayReceipt(p) \/ EnterRun(p)
  PROVE  Owned'
<1>1. attempt[p] \in Jobs
  BY DEF OwnedInv, RunTypes
<1>2. CASE ReplayReceipt(p)
  <2>1. CASE Raise(p, "failed")
    BY <2>1, OwnedOnFailure DEF Raise
  <2>2. CASE Become(p, "idle", Idle) /\ UNCHANGED <<inputs, outputs, stable, spent>>
    <3>1. ~("idle" \in Entered \/ Starting("idle", Idle)) /\ UNCHANGED <<registered, receipts>>
      BY <2>2 DEF Entered, Starting, outputs
    <3>2. QED
      BY <2>2, <3>1, OwnedLocal
  <2>3. QED
    BY <1>2, <2>1, <2>2 DEF ReplayReceipt
<1>3. CASE EnterRun(p)
  <2>1. UNCHANGED <<registered, receipts>>
    BY <1>3 DEF EnterRun, outputs
  <2>2. CASE Become(p, "register", attempt[p])
    <3>1. ~("register" \in Entered \/ Starting("register", attempt[p]))
      BY DEF Entered, Starting
    <3>2. QED
      BY <2>1, <2>2, <3>1, OwnedLocal
  <2>3. ASSUME NEW r \in registered, r.run = attempt[p].run,
               Become(p, "stamp", [attempt[p] EXCEPT !.trigger = r.trigger,
                                                   !.next = Status("running", Nil)])
        PROVE  Owned'
    <3> DEFINE i == [attempt[p] EXCEPT !.trigger = r.trigger]
               w == [i EXCEPT !.next = Status("running", Nil)]
    <3>1. w.run = r.run /\ w.trigger = r.trigger
      BY <1>1, <2>3 DEF Jobs
    <3>2. Become(p, "stamp", w)
      BY <2>3
    <3>3. r = Row(r.run, r.trigger)
      BY DEF OwnedInv, RunTypes, Row
    <3> HIDE DEF w
    <3>4. Row(w.run, w.trigger) \in registered
      BY <3>1, <3>3
    <3>5. QED
      BY <2>1, <3>2, <3>4, OwnedLocal
  <2>4. QED
    BY <1>3, <2>2, <2>3 DEF EnterRun
<1>4. QED
  BY <1>2, <1>3

LEMMA OwnedAtRegister ==
  ASSUME OwnedInv, NEW p \in Reviewers, Register(p)
  PROVE  Owned'
<1>1. attempt[p] \in Jobs
  BY DEF OwnedInv, RunTypes
<1>2. CASE Raise(p, "failed")
  BY <1>2, OwnedOnFailure DEF Raise
<1>3. CASE ~IsRegistered(attempt[p].run)
  <2> DEFINE i == [attempt[p] EXCEPT !.trigger = p]
             w == [i EXCEPT !.next = Status("running", Nil)]
  <2>1. w.run = attempt[p].run /\ w.trigger = p
    BY <1>1 DEF Jobs
  <2>2. Become(p, "stamp", w) /\ receipts' = receipts
    BY <1>3 DEF Register
  <2>3. registered' = registered \cup {Row(attempt[p].run, p)}
    BY <1>3 DEF Register, Row
  <2> HIDE DEF w
  <2>4. Row(w.run, w.trigger) \in registered'
    BY <2>1, <2>3
  <2>5. /\ registered \subseteq registered'
        /\ \A x, y \in registered' : x.run = y.run => x = y
        /\ \A r \in receipts : Row(r.run, r.trigger) \in registered'
    BY <1>3, <2>3, OneRowEach
  <2>6. QED
    BY <2>2, <2>4, <2>5, OwnedMove
<1>4. QED
  BY <1>2, <1>3 DEF Register

LEMMA OwnedAtStatus ==
  ASSUME OwnedInv, NEW p \in Reviewers, Stamp(p) \/ AppendStatus(p) \/ AppendRefused(p)
  PROVE  Owned'
<1>1. attempt[p] \in Jobs /\ Owns(pc[p], attempt[p])
  BY DEF OwnedInv, RunTypes, Owned
<1>2. CASE Stamp(p)
  <2>1. PICK t : Become(p, "append", [attempt[p] EXCEPT !.at = t])
    BY <1>2 DEF Stamp
  <2> DEFINE w == [attempt[p] EXCEPT !.at = t]
  <2>2. w.run = attempt[p].run /\ w.trigger = attempt[p].trigger /\ w.next = attempt[p].next
    BY <1>1 DEF Jobs
  <2>3. UNCHANGED <<registered, receipts>> /\ pc[p] = "stamp" /\ Become(p, "append", w)
    BY <1>2, <2>1 DEF Stamp, outputs
  <2> HIDE DEF w
  <2>4. "append" \in Entered \/ Starting("append", w) => Row(w.run, w.trigger) \in registered
    BY <1>1, <2>2, <2>3 DEF Owns, Starting, Entered
  <2>5. QED
    BY <2>3, <2>4, OwnedLocal
<1>3. CASE Become(p, "idle", Idle) /\ UNCHANGED <<registered, receipts>>
  <2>1. ~("idle" \in Entered \/ Starting("idle", Idle))
    BY DEF Entered, Starting
  <2>2. QED
    BY <1>3, <2>1, OwnedLocal
<1>4. CASE AppendStatus(p)
  <2>1. UNCHANGED <<registered, receipts>> /\ pc[p] = "append"
    BY <1>4 DEF AppendStatus
  <2>2. CASE Become(p, "fee", attempt[p]) /\ attempt[p].next.status = "running"
    <3>1. Row(attempt[p].run, attempt[p].trigger) \in registered
      BY <1>1, <2>1, <2>2 DEF Owns, Starting
    <3>2. QED
      BY <2>1, <2>2, <3>1, OwnedLocal
  <2>3. QED
    BY <1>3, <1>4, <2>1, <2>2 DEF AppendStatus
<1>5. CASE AppendRefused(p)
  <2>1. CASE Raise(p, "failed")
    BY <2>1, OwnedOnFailure DEF Raise
  <2>2. QED
    BY <1>3, <1>5, <2>1 DEF AppendRefused, outputs
<1>6. QED
  BY <1>2, <1>4, <1>5

LEMMA OwnedInStages ==
  ASSUME OwnedInv, NEW p \in Reviewers,
         Fee(p) \/ BuildArtifacts(p) \/ Gate(p) \/ WriteReceipt(p) \/ StageRaises(p)
  PROVE  Owned'
<1>1. CASE \E st \in {"failed", "blocked"} : Handle(p, st) /\ receipts' = receipts
  BY <1>1, OwnedOnFailure
<1>2. ASSUME pc[p] \in Entered
      PROVE  attempt[p] \in Jobs /\ Row(attempt[p].run, attempt[p].trigger) \in registered
  BY <1>2 DEF OwnedInv, RunTypes, Owned, Owns
<1>3. CASE Fee(p) \/ Gate(p)
  <2>1. CASE Raise(p, "failed") \/ Raise(p, "blocked")
    BY <1>1, <2>1 DEF Raise
  <2>2. CASE /\ Become(p, "build", attempt[p]) \/ Become(p, "receipt", attempt[p])
             /\ UNCHANGED <<registered, receipts>>
    BY <1>2, <1>3, <2>2, OwnedLocal DEF Fee, Gate, Entered
  <2>3. QED
    BY <1>3, <2>1, <2>2 DEF Fee, Gate, outputs
<1>4. CASE BuildArtifacts(p)
  <2>1. CASE Raise(p, "blocked")
    BY <1>1, <2>1 DEF Raise
  <2>2. CASE Become(p, "gate", [attempt[p] EXCEPT !.content = Content(p)])
             /\ UNCHANGED <<registered, receipts>>
    <3> DEFINE w == [attempt[p] EXCEPT !.content = Content(p)]
    <3>1. attempt[p] \in Jobs /\ Row(attempt[p].run, attempt[p].trigger) \in registered
      BY <1>2, <1>4 DEF BuildArtifacts, Entered
    <3>2. w.run = attempt[p].run /\ w.trigger = attempt[p].trigger
      BY <3>1 DEF Jobs
    <3>3. Become(p, "gate", w)
      BY <2>2
    <3> HIDE DEF w
    <3>4. QED
      BY <2>2, <3>1, <3>2, <3>3, OwnedLocal
  <2>3. QED
    BY <1>4, <2>1, <2>2 DEF BuildArtifacts
<1>5. CASE WriteReceipt(p)
  <2>1. CASE Raise(p, "blocked")
    BY <1>1, <2>1 DEF Raise
  <2>2. CASE ~OtherReceipt(p)
    <3> DEFINE i == [Idle EXCEPT !.run = attempt[p].run]
               w == [i EXCEPT !.next = Status("completed", Receipt(p))]
    <3>1. w.next.status = "completed"
      BY DEF Idle, Status
    <3>2. /\ Become(p, "stamp", w) /\ registered' = registered
          /\ receipts' = receipts \cup {Receipt(p)}
      BY <1>5, <2>2 DEF WriteReceipt
    <3> HIDE DEF w
    <3>3. ~("stamp" \in Entered \/ Starting("stamp", w))
      BY <3>1 DEF Entered, Starting
    <3>4. Row(Receipt(p).run, Receipt(p).trigger) \in registered
      BY <1>2, <1>5 DEF WriteReceipt, Entered, Receipt
    <3>5. /\ \A x, y \in registered : x.run = y.run => x = y
          /\ \A r \in receipts : Row(r.run, r.trigger) \in registered
      BY DEF OwnedInv, Owned
    <3>6. QED
      BY <3>2, <3>3, <3>4, <3>5, OwnedMove
  <2>3. QED
    BY <1>5, <2>1, <2>2 DEF WriteReceipt
<1>6. CASE StageRaises(p)
  BY <1>1, <1>6 DEF StageRaises
<1>7. QED
  BY <1>3, <1>4, <1>5, <1>6

LEMMA OwnedKept ==
  ASSUME RunTypes, Owned, [RunNext]_runVars
  PROVE  Owned'
<1>1. CASE Environment \/ UNCHANGED runVars
  BY <1>1 DEF Environment, WriteFile, LinkDecision, NextSecond, runVars, Owned, Owns, Starting,
     outputs
<1>2. ASSUME NEW p \in Reviewers, Step(p) PROVE Owned'
  BY <1>2, OwnedElsewhere, OwnedAtLookup, OwnedAtRegister, OwnedAtStatus, OwnedInStages
     DEF Step, OwnedInv
<1>3. QED
  BY <1>1, <1>2 DEF RunNext

\* Two attempts of one run write different receipts only if their sync stages did
\* different work or they asked the market a different number of times: whoever
\* triggers the attempts, and whatever failed before (ReviewRunner.run reads the
\* trigger back from the row of the run).
THEOREM EqualReceipts == RunSpec => []EqualWorkEqualReceipt
<1>1. RunInit => Owned
  BY DEF RunInit, Owned, Owns, Starting, Entered
<1>2. Owned /\ RunTypes /\ [RunNext]_runVars => Owned'
  BY OwnedKept
<1>3. RunInv /\ Owned => EqualWorkEqualReceipt
  <2> SUFFICES ASSUME RunInv, Owned, NEW p \in Reviewers, pc[p] = "receipt",
                      NEW r \in receipts, r.run = attempt[p].run, r.work = attempt[p].work,
                      r.requests = attempt[p].requests
               PROVE  r = Receipt(p)
    BY DEF EqualWorkEqualReceipt
  <2>1. r.trigger = attempt[p].trigger
    <3>1. Row(attempt[p].run, attempt[p].trigger) \in registered
      BY DEF Owned, Owns, Entered
    <3>2. Row(r.run, r.trigger) \in registered
      BY DEF Owned
    <3>3. Row(r.run, r.trigger) = Row(attempt[p].run, attempt[p].trigger)
      <4>1. Row(r.run, r.trigger).run = Row(attempt[p].run, attempt[p].trigger).run
        BY DEF Row
      <4>2. QED
        BY <3>1, <3>2, <4>1 DEF Owned
    <3>4. QED
      BY <3>3 DEF Row
  <2>2. Fits("receipt", attempt[p], file, artifacts, receipts) /\ OfItsKey(r)
    BY FitsNow DEF RunInv, Backed
  <2>3. r.before = attempt[p].before
    BY <2>2 DEF OfItsKey, Fits, HasKey, Keyed, HasPassed
  <2>4. r.content = attempt[p].content
    BY <2>2 DEF RunInv, OneEach, OfItsKey, Fits, HasContent
  <2>5. r \in Receipts
    BY DEF RunInv, RunTypes
  <2>6. QED
    BY <2>1, <2>3, <2>4, <2>5 DEF Receipts, Receipt
<1>4. RunSpec => []RunInv
  BY RunInvInitially, RunInvKept, PTL DEF RunSpec
<1>5. QED
  BY <1>1, <1>2, <1>3, <1>4, RunTyped, PTL DEF RunSpec
=============================================================================
