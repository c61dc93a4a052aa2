-------------------------- MODULE MarketCache_proofs --------------------------
(***************************************************************************)
(* Theorems about the market cache, for any threads, runs, requirements,   *)
(* versions of the portfolio, budgets and bounds:                          *)
(*                                                                         *)
(*   OneResolution   who is about to freeze a resolution finds none        *)
(*   SameToAll       everybody is told the resolution that is on disk      *)
(*   SourceNamed     a resolution names the version its rows are from      *)
(*   NotAskedAgain   what is answered is not asked of a provider again     *)
(*   WithinCap       no run sends more attempts than its cap               *)
(*   NoLeak          no attempt and no slot is left taken by nobody        *)
(*   MarketTyped     every variable keeps its type                         *)
(***************************************************************************)
EXTENDS MarketCache, FiniteSetTheorems, WellFoundedInduction, TLAPS

\* The stages after the source was compared.
Asks == {"reserve", "slot", "call", "persist", "settle"}
Resolving == {"cover", "freeze"} \cup Asks

Tasks == [req : Requirements \cup {Unresolved}, run : Runs \cup {Unresolved},
         source : Versions, rows : Versions, known : SUBSET Entry,
         left : SUBSET Nat, cap : Int, reply : Replies, charged : Int,
         receipts : SUBSET {"succeeded", "zero", "attempted"}, status : Statuses]

WorkTyped ==
    /\ portfolio \in Versions /\ entries \in SUBSET Entry
    /\ frozen \in [Requirements -> Resolution \cup {Unresolved}]
    /\ at \in [Resolvers -> Stages]
    /\ work \in [Resolvers -> Tasks]
    /\ told \in SUBSET [req : Requirements, resolution : Resolution]
    /\ used \in [Runs -> Int] /\ reserved \in [Runs -> Int]
    /\ \A t \in Resolvers :
          at[t] # "idle" => work[t].req \in Requirements /\ work[t].run \in Runs

\* The lease: no two threads hold that of one requirement.
Exclusive ==
    \A t, g \in Resolvers : t # g /\ Holding(t) /\ Holding(g) => work[t].req # work[g].req

\* Who resolves has found nothing, and nobody else resolves it.
NothingFrozen ==
    \A t \in Resolvers :
        at[t] \in {"read", "check"} \cup Resolving => frozen[work[t].req] = Unresolved

\* The source is hashed, the rows are read, the source is hashed again.
ReadInOrder ==
    \A t \in Resolvers :
        /\ at[t] = "read" => work[t].source <= portfolio
        /\ at[t] = "check" => work[t].source <= work[t].rows /\ work[t].rows <= portfolio
        /\ at[t] \in Resolving => work[t].rows = work[t].source

\* Who asks has something to ask for.
LeftThere ==
    \A t \in Resolvers : at[t] \in Asks =>
        work[t].left # {} /\ work[t].left \subseteq DOMAIN Wanted[work[t].req]

MarketInv ==
    /\ WorkTyped /\ Exclusive /\ NothingFrozen /\ ReadInOrder /\ LeftThere
    /\ ToldIsFrozen /\ NamesItsSource

-----------------------------------------------------------------------------
\* Where a thread goes, and that the others stay where they are.
LEMMA Moved ==
  ASSUME WorkTyped, NEW t \in Resolvers, NEW stage \in Stages, NEW w \in Tasks,
         MoveTo(t, stage, w), stage # "idle" => w.req \in Requirements /\ w.run \in Runs
  PROVE  /\ at' \in [Resolvers -> Stages] /\ work' \in [Resolvers -> Tasks]
         /\ at'[t] = stage /\ work'[t] = w
         /\ \A g \in Resolvers : g # t => at'[g] = at[g] /\ work'[g] = work[g]
         /\ \A g \in Resolvers : at'[g] # "idle" => work'[g].req \in Requirements /\ work'[g].run \in Runs
<1>1. at' = [at EXCEPT ![t] = stage] /\ work' = [work EXCEPT ![t] = w]
  BY DEF MoveTo
<1>2. at \in [Resolvers -> Stages] /\ work \in [Resolvers -> Tasks]
  BY DEF WorkTyped
<1>3. at'[t] = stage /\ work'[t] = w
  BY <1>1, <1>2
<1>4. \A g \in Resolvers : g # t => at'[g] = at[g] /\ work'[g] = work[g]
  BY <1>1, <1>2
<1>5. \A g \in Resolvers : at'[g] # "idle" => work'[g].req \in Requirements /\ work'[g].run \in Runs
  BY <1>3, <1>4 DEF WorkTyped
<1> QED BY <1>1, <1>2, <1>3, <1>4, <1>5

\* A thread that moves within what it has read, of the same requirement.
LEMMA Resolves ==
  ASSUME MarketInv, NEW t \in Resolvers, NEW stage \in Resolving, NEW w \in Tasks,
         MoveTo(t, stage, w), at[t] \in Resolving,
         w.req = work[t].req, w.run = work[t].run,
         w.source = work[t].source, w.rows = work[t].rows,
         stage \in Asks => w.left # {} /\ w.left \subseteq DOMAIN Wanted[w.req],
         UNCHANGED <<portfolio, frozen, told>>, entries' \in SUBSET Entry,
         used' \in [Runs -> Int], reserved' \in [Runs -> Int]
  PROVE  MarketInv'
<1>1. stage \in Stages /\ w.req \in Requirements /\ w.run \in Runs
  BY DEF Resolving, Asks, Stages, MarketInv, WorkTyped
<1>2. /\ at' \in [Resolvers -> Stages] /\ work' \in [Resolvers -> Tasks]
      /\ at'[t] = stage /\ work'[t] = w
      /\ \A g \in Resolvers : g # t => at'[g] = at[g] /\ work'[g] = work[g]
      /\ \A g \in Resolvers : at'[g] # "idle" => work'[g].req \in Requirements /\ work'[g].run \in Runs
  BY <1>1, Moved DEF MarketInv
<1>3. WorkTyped'
  BY <1>2 DEF WorkTyped, MarketInv
<1>4. Exclusive'
  BY <1>2 DEF Exclusive, Holding, MarketInv, Resolving, Asks
<1>5. NothingFrozen'
  BY <1>2 DEF NothingFrozen, MarketInv
<1>6. ReadInOrder' /\ LeftThere'
  BY <1>2 DEF ReadInOrder, LeftThere, MarketInv, Resolving, Asks
<1>7. ToldIsFrozen' /\ NamesItsSource'
  BY DEF ToldIsFrozen, NamesItsSource, MarketInv
<1> QED BY <1>3, <1>4, <1>5, <1>6, <1>7 DEF MarketInv

\* A thread that gives up its lease and tells nothing.
LEMMA NoWorkTyped == NoWork \in Tasks
  BY MarketConstants DEF NoWork, Tasks, Replies, Statuses

LEMMA GivesUp ==
  ASSUME MarketInv, NEW t \in Resolvers, MoveTo(t, "idle", NoWork),
         UNCHANGED <<portfolio, entries, frozen, told, used, reserved>>
  PROVE  MarketInv'
<1>2. /\ at' \in [Resolvers -> Stages] /\ work' \in [Resolvers -> Tasks]
      /\ at'[t] = "idle"
      /\ \A g \in Resolvers : g # t => at'[g] = at[g] /\ work'[g] = work[g]
      /\ \A g \in Resolvers : at'[g] # "idle" => work'[g].req \in Requirements /\ work'[g].run \in Runs
  BY Moved, NoWorkTyped DEF Stages, MarketInv
<1>3. WorkTyped'
  BY <1>2 DEF WorkTyped, MarketInv
<1>4. Exclusive'
  BY <1>2 DEF Exclusive, Holding, MarketInv
<1>5. NothingFrozen'
  BY <1>2 DEF NothingFrozen, MarketInv, Resolving, Asks
<1>6. ReadInOrder' /\ LeftThere'
  BY <1>2 DEF ReadInOrder, LeftThere, MarketInv, Resolving, Asks
<1>7. ToldIsFrozen' /\ NamesItsSource'
  BY DEF ToldIsFrozen, NamesItsSource, MarketInv
<1> QED BY <1>3, <1>4, <1>5, <1>6, <1>7 DEF MarketInv

\* What a thread would freeze is a resolution, and so not the sign of none.
LEMMA AssembledTyped ==
  ASSUME NEW w \in Tasks
  PROVE  Assembled(w) \in Resolution /\ Assembled(w) # Unresolved
<1>1. w.source \in Versions /\ w.rows \in Versions /\ w.status \in Statuses
  BY DEF Tasks
<1>2. LocalCovers[w.rows] \subseteq Components
  BY <1>1, ResolutionConstants
<1>3. Proven(w.known) \subseteq Components
  BY DEF Proven
<1>4. Covered(w) \subseteq Components
  BY <1>2, <1>3 DEF Covered
<1>5. Assembled(w) \in Resolution
  BY <1>1, <1>4 DEF Assembled, Resolution
<1> QED BY <1>5, ResolutionConstants

-----------------------------------------------------------------------------
(* Before the source is compared *)

LEMMA CommitKeeps == ASSUME MarketInv, Commit PROVE MarketInv'
<1> USE DEF MarketInv
<1>1. portfolio' \in Versions /\ portfolio' = portfolio + 1 /\ portfolio \in Nat
  BY MarketConstants DEF Commit, WorkTyped
<1>2. UNCHANGED <<entries, frozen, at, work, told, used, reserved>>
  BY DEF Commit, budget
<1>3. WorkTyped'
  BY <1>1, <1>2 DEF WorkTyped
<1>4. Exclusive' /\ NothingFrozen' /\ LeftThere' /\ ToldIsFrozen' /\ NamesItsSource'
  BY <1>2 DEF Exclusive, NothingFrozen, LeftThere, ToldIsFrozen, NamesItsSource, Holding
<1>5. ReadInOrder'
  <2> SUFFICES ASSUME NEW t \in Resolvers
               PROVE  /\ at[t] = "read" => work[t].source <= portfolio'
                      /\ at[t] = "check" => work[t].source <= work[t].rows /\ work[t].rows <= portfolio'
                      /\ at[t] \in Resolving => work[t].rows = work[t].source
    BY <1>2 DEF ReadInOrder
  <2>1. work[t].source \in Nat /\ work[t].rows \in Nat
    <3>1. work[t] \in Tasks
      BY DEF WorkTyped
    <3> QED BY <3>1, MarketConstants DEF Tasks
  <2> QED BY <1>1, <2>1 DEF ReadInOrder
<1> QED BY <1>3, <1>4, <1>5

LEMMA CallKeeps == ASSUME MarketInv, NEW t \in Resolvers, Call(t) PROVE MarketInv'
<1>1. PICK r \in Requirements, run \in Runs :
        MoveTo(t, "lease", [NoWork EXCEPT !.req = r, !.run = run])
  BY DEF Call
<1> DEFINE w == [NoWork EXCEPT !.req = r, !.run = run]
<1>2. w \in Tasks /\ w.req = r /\ w.run = run
  <2>1. r \in Requirements \cup {Unresolved} /\ run \in Runs \cup {Unresolved}
    OBVIOUS
  <2> QED BY <2>1, NoWorkTyped DEF Tasks
<1> HIDE DEF w
<1>3. /\ at' \in [Resolvers -> Stages] /\ work' \in [Resolvers -> Tasks]
      /\ at'[t] = "lease"
      /\ \A g \in Resolvers : g # t => at'[g] = at[g] /\ work'[g] = work[g]
      /\ \A g \in Resolvers : at'[g] # "idle" => work'[g].req \in Requirements /\ work'[g].run \in Runs
  BY <1>1, <1>2, Moved DEF w, Stages, MarketInv
<1>4. UNCHANGED <<portfolio, entries, frozen, told, used, reserved>>
  BY DEF Call, budget
<1>5. WorkTyped'
  BY <1>3, <1>4 DEF WorkTyped, MarketInv
<1>6. Exclusive' /\ NothingFrozen' /\ ReadInOrder' /\ LeftThere'
  BY <1>3, <1>4 DEF Exclusive, NothingFrozen, ReadInOrder, LeftThere, Holding, Resolving, Asks, MarketInv
<1>7. ToldIsFrozen' /\ NamesItsSource'
  BY <1>4 DEF ToldIsFrozen, NamesItsSource, MarketInv
<1> QED BY <1>5, <1>6, <1>7 DEF MarketInv

\* The lease is taken when no other thread holds it.
LEMMA EnterKeeps == ASSUME MarketInv, NEW t \in Resolvers, Enter(t) PROVE MarketInv'
<1>1. work[t] \in Tasks /\ work[t].req \in Requirements /\ work[t].run \in Runs
  BY DEF Enter, MarketInv, WorkTyped
<1>2. /\ at' \in [Resolvers -> Stages] /\ work' \in [Resolvers -> Tasks]
      /\ at'[t] = "look" /\ work'[t] = work[t]
      /\ \A g \in Resolvers : g # t => at'[g] = at[g] /\ work'[g] = work[g]
      /\ \A g \in Resolvers : at'[g] # "idle" => work'[g].req \in Requirements /\ work'[g].run \in Runs
  BY <1>1, Moved DEF Enter, Stages, MarketInv
<1>3. UNCHANGED <<portfolio, entries, frozen, told, used, reserved>>
  BY DEF Enter, budget
<1>4. WorkTyped'
  BY <1>2, <1>3 DEF WorkTyped, MarketInv
<1>5. Exclusive'
  <2>1. \A g \in Resolvers : Holding(g) => work[g].req # work[t].req
    BY DEF Enter, LeaseFree
  <2> QED BY <1>2, <2>1 DEF Exclusive, Holding, MarketInv
<1>6. NothingFrozen' /\ ReadInOrder' /\ LeftThere'
  BY <1>2, <1>3 DEF NothingFrozen, ReadInOrder, LeftThere, Resolving, Asks, MarketInv
<1>7. ToldIsFrozen' /\ NamesItsSource'
  BY <1>3 DEF ToldIsFrozen, NamesItsSource, MarketInv
<1> QED BY <1>4, <1>5, <1>6, <1>7 DEF MarketInv

\* A resolution that is there is told; else nothing is, and the source is
\* hashed.
LEMMA LookKeeps == ASSUME MarketInv, NEW t \in Resolvers, Look(t) PROVE MarketInv'
<1>1. work[t] \in Tasks /\ work[t].req \in Requirements /\ work[t].run \in Runs /\ at[t] = "look"
  BY DEF Look, MarketInv, WorkTyped
<1>2. UNCHANGED <<portfolio, entries, frozen, used, reserved>>
  BY DEF Look, budget
<1>3. CASE Found(work[t].req)
  <2> DEFINE x == [req |-> work[t].req, resolution |-> frozen[work[t].req]]
  <2>1. MoveTo(t, "idle", NoWork) /\ told' = told \cup {x}
    BY <1>3 DEF Look, Returns
  <2>2. /\ at' \in [Resolvers -> Stages] /\ work' \in [Resolvers -> Tasks]
        /\ at'[t] = "idle"
        /\ \A g \in Resolvers : g # t => at'[g] = at[g] /\ work'[g] = work[g]
        /\ \A g \in Resolvers : at'[g] # "idle" => work'[g].req \in Requirements /\ work'[g].run \in Runs
    BY <2>1, Moved, NoWorkTyped DEF Stages, MarketInv
  <2>3. x \in [req : Requirements, resolution : Resolution]
    BY <1>1, <1>3 DEF Found, MarketInv, WorkTyped
  <2>4. WorkTyped'
    BY <2>1, <2>2, <2>3, <1>2 DEF WorkTyped, MarketInv
  <2>5. Exclusive' /\ NothingFrozen' /\ ReadInOrder' /\ LeftThere'
    BY <2>2, <1>2 DEF Exclusive, NothingFrozen, ReadInOrder, LeftThere, Holding, Resolving, Asks, MarketInv
  <2>6. ToldIsFrozen' /\ NamesItsSource'
    BY <2>1, <1>2 DEF ToldIsFrozen, NamesItsSource, MarketInv
  <2> QED BY <2>4, <2>5, <2>6 DEF MarketInv
<1>4. CASE ~ Found(work[t].req)
  <2> DEFINE w == [work[t] EXCEPT !.source = portfolio]
  <2>1. MoveTo(t, "read", w) /\ told' = told
    BY <1>4 DEF Look
  <2>2. w \in Tasks /\ w.req = work[t].req /\ w.run = work[t].run /\ w.source = portfolio /\ portfolio \in Nat
    BY <1>1, MarketConstants DEF Tasks, MarketInv, WorkTyped
  <2> HIDE DEF w
  <2>3. /\ at' \in [Resolvers -> Stages] /\ work' \in [Resolvers -> Tasks]
        /\ at'[t] = "read" /\ work'[t] = w
        /\ \A g \in Resolvers : g # t => at'[g] = at[g] /\ work'[g] = work[g]
        /\ \A g \in Resolvers : at'[g] # "idle" => work'[g].req \in Requirements /\ work'[g].run \in Runs
    BY <2>1, <2>2, <1>1, Moved DEF Stages, MarketInv
  <2>4. WorkTyped'
    BY <2>1, <2>3, <1>2 DEF WorkTyped, MarketInv
  <2>5. Exclusive'
    BY <2>2, <2>3, <1>1 DEF Exclusive, Holding, MarketInv
  <2>6. NothingFrozen'
    BY <2>2, <2>3, <1>2, <1>4 DEF NothingFrozen, Found, Resolving, Asks, MarketInv
  <2>7. ReadInOrder' /\ LeftThere'
    BY <2>2, <2>3, <1>2 DEF ReadInOrder, LeftThere, Resolving, Asks, MarketInv
  <2>8. ToldIsFrozen' /\ NamesItsSource'
    BY <2>1, <1>2 DEF ToldIsFrozen, NamesItsSource, MarketInv
  <2> QED BY <2>4, <2>5, <2>6, <2>7, <2>8 DEF MarketInv
<1> QED BY <1>3, <1>4

LEMMA ReadRowsKeeps == ASSUME MarketInv, NEW t \in Resolvers, ReadRows(t) PROVE MarketInv'
<1> DEFINE w == [work[t] EXCEPT !.rows = portfolio]
<1>1. work[t] \in Tasks /\ work[t].req \in Requirements /\ work[t].run \in Runs /\ at[t] = "read"
  BY DEF ReadRows, MarketInv, WorkTyped
<1>2. UNCHANGED <<portfolio, entries, frozen, told, used, reserved>> /\ MoveTo(t, "check", w)
  BY DEF ReadRows, budget
<1>3. /\ w \in Tasks /\ w.req = work[t].req /\ w.run = work[t].run /\ w.source = work[t].source
      /\ w.rows = portfolio /\ portfolio \in Nat
  BY <1>1, MarketConstants DEF Tasks, MarketInv, WorkTyped
<1> HIDE DEF w
<1>4. /\ at' \in [Resolvers -> Stages] /\ work' \in [Resolvers -> Tasks]
      /\ at'[t] = "check" /\ work'[t] = w
      /\ \A g \in Resolvers : g # t => at'[g] = at[g] /\ work'[g] = work[g]
      /\ \A g \in Resolvers : at'[g] # "idle" => work'[g].req \in Requirements /\ work'[g].run \in Runs
  BY <1>1, <1>2, <1>3, Moved DEF Stages, MarketInv
<1>5. WorkTyped'
  BY <1>2, <1>4 DEF WorkTyped, MarketInv
<1>6. Exclusive' /\ NothingFrozen'
  BY <1>1, <1>2, <1>3, <1>4 DEF Exclusive, NothingFrozen, Holding, Resolving, Asks, MarketInv
<1>7. ReadInOrder' /\ LeftThere'
  BY <1>1, <1>2, <1>3, <1>4 DEF ReadInOrder, LeftThere, Resolving, Asks, MarketInv
<1>8. ToldIsFrozen' /\ NamesItsSource'
  BY <1>2 DEF ToldIsFrozen, NamesItsSource, MarketInv
<1> QED BY <1>5, <1>6, <1>7, <1>8 DEF MarketInv

\* The same hash before and after: the rows between them are of that version.
LEMMA CheckSourceKeeps ==
  ASSUME MarketInv, NEW t \in Resolvers, CheckSource(t) PROVE MarketInv'
<1>1. work[t] \in Tasks /\ work[t].req \in Requirements /\ work[t].run \in Runs /\ at[t] = "check"
  BY DEF CheckSource, MarketInv, WorkTyped
<1>2. UNCHANGED <<portfolio, entries, frozen, told, used, reserved>>
  BY DEF CheckSource, Fails, budget
<1>3. CASE SameSource(work[t])
  <2>1. MoveTo(t, "cover", work[t])
    BY <1>3 DEF CheckSource
  <2>2. work[t].rows = work[t].source
    <3>1. work[t].source \in Nat /\ work[t].rows \in Nat /\ portfolio \in Nat
      BY <1>1, MarketConstants DEF Tasks, MarketInv, WorkTyped
    <3>2. work[t].source <= work[t].rows /\ work[t].rows <= portfolio
      BY <1>1 DEF ReadInOrder, MarketInv
    <3> QED BY <3>1, <3>2, <1>3 DEF SameSource
  <2>3. /\ at' \in [Resolvers -> Stages] /\ work' \in [Resolvers -> Tasks]
        /\ at'[t] = "cover" /\ work'[t] = work[t]
        /\ \A g \in Resolvers : g # t => at'[g] = at[g] /\ work'[g] = work[g]
        /\ \A g \in Resolvers : at'[g] # "idle" => work'[g].req \in Requirements /\ work'[g].run \in Runs
    BY <1>1, <2>1, Moved DEF Stages, MarketInv
  <2>4. WorkTyped'
    BY <1>2, <2>3 DEF WorkTyped, MarketInv
  <2>5. Exclusive' /\ NothingFrozen'
    BY <1>1, <1>2, <2>3 DEF Exclusive, NothingFrozen, Holding, Resolving, Asks, MarketInv
  <2>6. ReadInOrder' /\ LeftThere'
    BY <1>2, <2>2, <2>3 DEF ReadInOrder, LeftThere, Resolving, Asks, MarketInv
  <2>7. ToldIsFrozen' /\ NamesItsSource'
    BY <1>2 DEF ToldIsFrozen, NamesItsSource, MarketInv
  <2> QED BY <2>4, <2>5, <2>6, <2>7 DEF MarketInv
<1>4. CASE ~ SameSource(work[t])
  BY <1>2, <1>4, GivesUp DEF CheckSource, Fails
<1> QED BY <1>3, <1>4

-----------------------------------------------------------------------------
(* Between the comparison and the freezing *)

LEMMA CoverKeeps == ASSUME MarketInv, NEW t \in Resolvers, Cover(t) PROVE MarketInv'
<1> DEFINE w == [work[t] EXCEPT !.known = entries]
           missing == {i \in DOMAIN Wanted[w.req] : Wanted[w.req][i] \notin Covered(w)}
<1>1. work[t] \in Tasks /\ at[t] = "cover" /\ work[t].req \in Requirements /\ work[t].run \in Runs
  BY DEF Cover, MarketInv, WorkTyped
<1>2. /\ w \in Tasks /\ w.req = work[t].req /\ w.run = work[t].run /\ w.source = work[t].source
      /\ w.rows = work[t].rows
  BY <1>1 DEF Tasks, MarketInv, WorkTyped
<1>3. UNCHANGED <<portfolio, entries, frozen, told, used, reserved>> /\ entries \in SUBSET Entry
      /\ used \in [Runs -> Int] /\ reserved \in [Runs -> Int]
  BY DEF Cover, MarketInv, WorkTyped, budget
<1>4. missing \in SUBSET Nat /\ missing \subseteq DOMAIN Wanted[w.req]
  <2>1. DOMAIN Wanted[w.req] \subseteq Nat
    BY <1>1, <1>2, MarketConstants
  <2> QED BY <2>1
<1> HIDE DEF w, missing
<1>5. CASE \E status \in Statuses : MoveTo(t, "freeze", [w EXCEPT !.status = status])
  <2>1. PICK status \in Statuses : MoveTo(t, "freeze", [w EXCEPT !.status = status])
    BY <1>5
  <2> DEFINE v == [w EXCEPT !.status = status]
  <2>2. /\ v \in Tasks /\ v.req = work[t].req /\ v.run = work[t].run /\ v.source = work[t].source
        /\ v.rows = work[t].rows
    BY <1>2 DEF Tasks
  <2> HIDE DEF v
  <2> QED BY <1>1, <1>3, <2>1, <2>2, Resolves DEF v, Resolving, Asks
<1>6. CASE missing # {} /\ MoveTo(t, "reserve", [w EXCEPT !.left = missing])
  <2> DEFINE v == [w EXCEPT !.left = missing]
  <2>2. /\ v \in Tasks /\ v.req = work[t].req /\ v.run = work[t].run /\ v.source = work[t].source
        /\ v.rows = work[t].rows /\ v.left = missing
    BY <1>2, <1>4 DEF Tasks
  <2>3. MoveTo(t, "reserve", v)
    BY <1>6
  <2> HIDE DEF v
  <2> QED BY <1>1, <1>2, <1>3, <1>4, <1>6, <2>2, <2>3, Resolves DEF Resolving, Asks
<1>7. \/ \E status \in {"not_needed", "withheld", "unavailable"} :
            MoveTo(t, "freeze", [w EXCEPT !.status = status])
      \/ missing # {} /\ MoveTo(t, "reserve", [w EXCEPT !.left = missing])
  BY Zenon DEF Cover, w, missing
<1> QED BY <1>5, <1>6, <1>7 DEF Statuses

\* There is a next request.
LEMMA FirstIsLeft ==
  ASSUME NEW w, w.left \subseteq Nat, w.left # {}
  PROVE  First(w) \in w.left
<1>1. PICK i \in w.left : \A j \in w.left : ~ (<<j, i>> \in OpToRel(<, Nat))
  BY NatLessThanWellFounded, WFMin
<1>2. \A j \in w.left : i <= j
  <2> SUFFICES ASSUME NEW j \in w.left PROVE i <= j
    OBVIOUS
  <2>1. i \in Nat /\ j \in Nat
    OBVIOUS
  <2>2. ~ (j < i)
    BY <1>1, <2>1 DEF OpToRel
  <2> QED BY <2>1, <2>2
<1> QED BY <1>2 DEF First

\* A budget is a number for every run, and stays one when it changes.
LEMMA ReserveKeeps == ASSUME MarketInv, NEW t \in Resolvers, Reserve(t) PROVE MarketInv'
<1> DEFINE run == work[t].run
           cap == Capacity(run)
<1>1. work[t] \in Tasks /\ at[t] = "reserve" /\ work[t].req \in Requirements /\ run \in Runs
  BY DEF Reserve, MarketInv, WorkTyped
<1>2. cap \in Int
  BY <1>1, MarketConstants DEF Capacity, Min2, MarketInv, WorkTyped
<1>3. /\ UNCHANGED <<portfolio, entries, frozen, told, used>>
      /\ entries' \in SUBSET Entry /\ used' \in [Runs -> Int] /\ reserved' \in [Runs -> Int]
  BY <1>1, <1>2 DEF Reserve, MarketInv, WorkTyped
<1>4. work[t].left # {} /\ work[t].left \subseteq DOMAIN Wanted[work[t].req]
  BY <1>1 DEF LeftThere, MarketInv, Asks
<1>5. CASE cap > 0
  <2> DEFINE v == [work[t] EXCEPT !.cap = cap]
  <2>1. MoveTo(t, "slot", v)
    BY <1>5 DEF Reserve
  <2>2. /\ v \in Tasks /\ v.req = work[t].req /\ v.run = work[t].run /\ v.source = work[t].source
        /\ v.rows = work[t].rows /\ v.left = work[t].left
    BY <1>1, <1>2 DEF Tasks
  <2> HIDE DEF v
  <2> QED BY <1>1, <1>3, <1>4, <2>1, <2>2, Resolves DEF Resolving, Asks
<1>6. CASE ~ cap > 0
  <2> DEFINE status == IF work[t].receipts = {} THEN "exhausted" ELSE FallbackStatus(work[t].receipts)
             v == [work[t] EXCEPT !.status = status]
  <2>1. MoveTo(t, "freeze", v)
    BY <1>6 DEF Reserve
  <2>2. status \in Statuses
    BY DEF FallbackStatus, Statuses
  <2> HIDE DEF status
  <2>3. /\ v \in Tasks /\ v.req = work[t].req /\ v.run = work[t].run /\ v.source = work[t].source
        /\ v.rows = work[t].rows
    BY <1>1, <2>2 DEF Tasks
  <2> HIDE DEF v
  <2> QED BY <1>1, <1>3, <2>1, <2>3, Resolves DEF Resolving, Asks
<1> QED BY <1>5, <1>6

LEMMA AcquireKeeps == ASSUME MarketInv, NEW t \in Resolvers, Acquire(t) PROVE MarketInv'
<1>1. work[t] \in Tasks /\ at[t] = "slot" /\ MoveTo(t, "call", work[t])
  BY DEF Acquire, MarketInv, WorkTyped
<1>2. work[t].left # {} /\ work[t].left \subseteq DOMAIN Wanted[work[t].req]
  BY <1>1 DEF LeftThere, MarketInv, Asks
<1>3. /\ UNCHANGED <<portfolio, frozen, told>>
      /\ entries' \in SUBSET Entry /\ used' \in [Runs -> Int] /\ reserved' \in [Runs -> Int]
  BY DEF Acquire, MarketInv, WorkTyped
<1> QED BY <1>1, <1>2, <1>3, Resolves DEF Resolving, Asks

LEMMA GatewayKeeps == ASSUME MarketInv, NEW t \in Resolvers, Gateway(t) PROVE MarketInv'
<1>0. PICK n \in 0 .. work[t].cap :
        \E reply \in Reports(n) :
          MoveTo(t, IF reply = "succeeded" THEN "persist" ELSE "settle",
                 [work[t] EXCEPT !.reply = reply, !.charged = Charge(reply, n, work[t].cap)])
  BY Zenon DEF Gateway
<1>1. PICK reply \in Reports(n) :
        MoveTo(t, IF reply = "succeeded" THEN "persist" ELSE "settle",
               [work[t] EXCEPT !.reply = reply, !.charged = Charge(reply, n, work[t].cap)])
  BY <1>0
<1> DEFINE charged == Charge(reply, n, work[t].cap)
           v == [work[t] EXCEPT !.reply = reply, !.charged = charged]
           stage == IF reply = "succeeded" THEN "persist" ELSE "settle"
<1>2. work[t] \in Tasks /\ at[t] = "call"
  BY DEF Gateway, MarketInv, WorkTyped
<1>3. reply \in Replies /\ charged \in Int
  BY <1>2 DEF Reports, Replies, Charge, Tasks
<1>4. stage \in {"persist", "settle"} /\ MoveTo(t, stage, v)
  BY <1>1
<1> HIDE DEF charged, stage
<1>5. /\ v \in Tasks /\ v.req = work[t].req /\ v.run = work[t].run /\ v.source = work[t].source
      /\ v.rows = work[t].rows /\ v.left = work[t].left
  BY <1>2, <1>3 DEF Tasks
<1> HIDE DEF v
<1>6. v.left # {} /\ v.left \subseteq DOMAIN Wanted[v.req]
  BY <1>2, <1>5 DEF LeftThere, MarketInv, Asks
<1>7. /\ UNCHANGED <<portfolio, frozen, told>>
      /\ entries' \in SUBSET Entry /\ used' \in [Runs -> Int] /\ reserved' \in [Runs -> Int]
  BY DEF Gateway, budget, MarketInv, WorkTyped
<1> QED BY <1>2, <1>4, <1>5, <1>6, <1>7, Resolves DEF Resolving, Asks

LEMMA PersistKeeps == ASSUME MarketInv, NEW t \in Resolvers, Persist(t) PROVE MarketInv'
<1> DEFINE made(proof) == [component |-> Asked(work[t]), origin |-> work[t].req, proof |-> proof]
<1>1. PICK proof \in Proofs :
        /\ entries' = entries \cup {made(proof)}
        /\ MoveTo(t, "settle", [work[t] EXCEPT !.known = work[t].known \cup {made(proof)}])
  BY Zenon DEF Persist
<1> DEFINE e == made(proof)
           v == [work[t] EXCEPT !.known = work[t].known \cup {e}]
<1>2. work[t] \in Tasks /\ at[t] = "persist" /\ work[t].req \in Requirements
  BY DEF Persist, MarketInv, WorkTyped
<1>3. work[t].left # {} /\ work[t].left \subseteq DOMAIN Wanted[work[t].req]
  BY <1>2 DEF LeftThere, MarketInv, Asks
<1>4. e \in Entry
  <2>1. First(work[t]) \in DOMAIN Wanted[work[t].req]
    <3>1. work[t].left \subseteq Nat
      BY <1>2 DEF Tasks
    <3> QED BY <1>3, <3>1, FirstIsLeft
  <2>2. Asked(work[t]) \in Components
    BY <1>2, <2>1 DEF Asked, Components
  <2> QED BY <1>2, <2>2 DEF Entry
<1> HIDE DEF e
<1>5. work[t].known \cup {e} \in SUBSET Entry
  BY <1>2, <1>4 DEF Tasks
<1>6. /\ v \in Tasks /\ v.req = work[t].req /\ v.run = work[t].run /\ v.source = work[t].source
      /\ v.rows = work[t].rows /\ v.left = work[t].left
  BY <1>2, <1>5 DEF Tasks
<1>7. MoveTo(t, "settle", v)
  BY <1>1 DEF e
<1>8. /\ UNCHANGED <<portfolio, frozen, told>>
      /\ entries' \in SUBSET Entry /\ used' \in [Runs -> Int] /\ reserved' \in [Runs -> Int]
  <2>1. entries' = entries \cup {e}
    BY <1>1 DEF e
  <2> QED BY <1>4, <2>1 DEF Persist, budget, MarketInv, WorkTyped
<1> HIDE DEF v
<1> QED BY <1>2, <1>3, <1>6, <1>7, <1>8, Resolves DEF Resolving, Asks

LEMMA SettleKeeps == ASSUME MarketInv, NEW t \in Resolvers, Settle(t) PROVE MarketInv'
<1> DEFINE receipts == work[t].receipts \cup {ReceiptOf(work[t].reply)}
           rest == work[t].left \ {First(work[t])}
           over == work[t].reply = "unavailable" \/ rest = {}
           status == IF over THEN FallbackStatus(receipts) ELSE work[t].status
           stage == IF over THEN "freeze" ELSE "reserve"
           v == [work[t] EXCEPT !.left = rest, !.cap = 0, !.reply = "none",
                                !.charged = 0, !.receipts = receipts, !.status = status]
<1>1. work[t] \in Tasks /\ at[t] = "settle" /\ work[t].run \in Runs
  BY DEF Settle, MarketInv, WorkTyped
<1>2. MoveTo(t, stage, v)
  BY Zenon DEF Settle
<1>3. receipts \in SUBSET {"succeeded", "zero", "attempted"}
  <2>1. ReceiptOf(work[t].reply) \in {"succeeded", "zero", "attempted"}
    BY DEF ReceiptOf
  <2>2. work[t].receipts \in SUBSET {"succeeded", "zero", "attempted"}
    BY <1>1 DEF Tasks
  <2> QED BY <2>1, <2>2
<1>4. status \in Statuses /\ rest \in SUBSET Nat
  BY <1>1 DEF FallbackStatus, Statuses, Tasks
<1>5. rest \subseteq DOMAIN Wanted[work[t].req]
  BY <1>1 DEF LeftThere, MarketInv, Asks
<1>6. stage \in {"freeze", "reserve"} /\ (stage = "reserve" => rest # {})
  OBVIOUS
<1>7. /\ UNCHANGED <<portfolio, frozen, told>>
      /\ entries' \in SUBSET Entry /\ used' \in [Runs -> Int] /\ reserved' \in [Runs -> Int]
  <2>1. work[t].charged \in Int /\ work[t].cap \in Int
    BY <1>1 DEF Tasks
  <2> QED BY <1>1, <2>1 DEF Settle, MarketInv, WorkTyped
<1> HIDE DEF receipts, rest, over, status, stage
<1>8. /\ v \in Tasks /\ v.req = work[t].req /\ v.run = work[t].run /\ v.source = work[t].source
      /\ v.rows = work[t].rows /\ v.left = rest
  <2>1. "none" \in Replies /\ 0 \in Int
    BY DEF Replies
  <2> QED BY <1>1, <1>3, <1>4, <2>1 DEF Tasks
<1> HIDE DEF v
<1> QED BY <1>1, <1>2, <1>5, <1>6, <1>7, <1>8, Resolves DEF Resolving, Asks

-----------------------------------------------------------------------------
(* The freezing, and faults *)

\* Who freezes is the only one who resolves the requirement, and nothing was
\* told of it yet.
LEMMA FreezeKeeps == ASSUME MarketInv, NEW t \in Resolvers, Freeze(t) PROVE MarketInv'
<1> DEFINE r == work[t].req
           resolution == Assembled(work[t])
           x == [req |-> r, resolution |-> resolution]
<1>1. work[t] \in Tasks /\ r \in Requirements /\ at[t] = "freeze"
  BY DEF Freeze, MarketInv, WorkTyped
<1>2. frozen[r] = Unresolved
  BY <1>1 DEF NothingFrozen, MarketInv, Resolving
<1>3. resolution \in Resolution /\ resolution # Unresolved /\ resolution.rows = resolution.source
  <2>1. work[t].rows = work[t].source
    BY <1>1 DEF ReadInOrder, MarketInv, Resolving
  <2> QED BY <1>1, <2>1, AssembledTyped DEF Assembled
<1>4. /\ frozen' = [frozen EXCEPT ![r] = resolution]
      /\ MoveTo(t, "idle", NoWork) /\ told' = told \cup {x}
      /\ UNCHANGED <<portfolio, entries, used, reserved>>
  BY <1>2, Zenon DEF Freeze, Returns, Kept, budget
<1> HIDE DEF resolution
<1>5. /\ at' \in [Resolvers -> Stages] /\ work' \in [Resolvers -> Tasks]
      /\ at'[t] = "idle"
      /\ \A g \in Resolvers : g # t => at'[g] = at[g] /\ work'[g] = work[g]
      /\ \A g \in Resolvers : at'[g] # "idle" => work'[g].req \in Requirements /\ work'[g].run \in Runs
  BY <1>4, Moved, NoWorkTyped DEF Stages, MarketInv
<1>6. /\ frozen' \in [Requirements -> Resolution \cup {Unresolved}]
      /\ frozen'[r] = resolution
      /\ \A q \in Requirements : q # r => frozen'[q] = frozen[q]
  BY <1>1, <1>3, <1>4 DEF MarketInv, WorkTyped
<1>7. WorkTyped'
  BY <1>1, <1>3, <1>4, <1>5, <1>6 DEF WorkTyped, MarketInv
<1>8. Exclusive' /\ ReadInOrder' /\ LeftThere'
  BY <1>4, <1>5 DEF Exclusive, ReadInOrder, LeftThere, Holding, Resolving, Asks, MarketInv
<1>9. NothingFrozen'
  <2> SUFFICES ASSUME NEW g \in Resolvers, at'[g] \in {"read", "check"} \cup Resolving
               PROVE  frozen'[work'[g].req] = Unresolved
    BY DEF NothingFrozen
  <2>1. g # t /\ at'[g] = at[g] /\ work'[g] = work[g]
    BY <1>5 DEF Resolving, Asks
  <2>2. work[g].req # r /\ work[g].req \in Requirements
    BY <1>1, <2>1 DEF Exclusive, Holding, Resolving, Asks, MarketInv, WorkTyped
  <2> QED BY <1>6, <2>1, <2>2 DEF NothingFrozen, MarketInv
<1>10. ToldIsFrozen'
  <2> SUFFICES ASSUME NEW y \in told' PROVE frozen'[y.req] = y.resolution
    BY DEF ToldIsFrozen
  <2>1. CASE y \in told
    <3>1. frozen[y.req] = y.resolution /\ y.req \in Requirements /\ y.resolution \in Resolution
      BY <2>1 DEF ToldIsFrozen, MarketInv, WorkTyped
    <3>2. y.req # r
      BY <1>2, <3>1, ResolutionConstants
    <3> QED BY <1>6, <3>1, <3>2
  <2>2. CASE y = x
    BY <1>6, <2>2
  <2> QED BY <1>4, <2>1, <2>2
<1>11. NamesItsSource'
  BY <1>3, <1>6 DEF NamesItsSource, MarketInv
<1> QED BY <1>7, <1>8, <1>9, <1>10, <1>11 DEF MarketInv

LEMMA FaultKeeps == ASSUME MarketInv, NEW t \in Resolvers, Fault(t) PROVE MarketInv'
  BY GivesUp DEF Fault, Fails, budget

\* A crash ends what the threads of a run hold, and takes nothing from disk.
LEMMA CrashKeeps == ASSUME MarketInv, NEW run \in Runs, Crash(run) PROVE MarketInv'
<1>1. /\ at' \in [Resolvers -> Stages] /\ work' \in [Resolvers -> Tasks]
      /\ \A g \in Resolvers : at'[g] = "idle" \/ (at'[g] = at[g] /\ work'[g] = work[g])
  BY NoWorkTyped DEF Crash, MarketInv, WorkTyped, Stages
<1>2. UNCHANGED <<portfolio, entries, frozen, told>>
  BY DEF Crash
<1>3. used' \in [Runs -> Int] /\ reserved' \in [Runs -> Int]
  BY DEF Crash, MarketInv, WorkTyped
<1>4. WorkTyped'
  BY <1>1, <1>2, <1>3 DEF WorkTyped, MarketInv
<1>5. Exclusive' /\ NothingFrozen'
  BY <1>1, <1>2 DEF Exclusive, NothingFrozen, Holding, Resolving, Asks, MarketInv
<1>6. ReadInOrder' /\ LeftThere'
  BY <1>1, <1>2 DEF ReadInOrder, LeftThere, Resolving, Asks, MarketInv
<1>7. ToldIsFrozen' /\ NamesItsSource'
  BY <1>2 DEF ToldIsFrozen, NamesItsSource, MarketInv
<1> QED BY <1>4, <1>5, <1>6, <1>7 DEF MarketInv

-----------------------------------------------------------------------------
(* The invariant *)

LEMMA MarketStarts == MarketInit => MarketInv
<1> SUFFICES ASSUME MarketInit PROVE MarketInv
  OBVIOUS
<1>1. at = [t \in Resolvers |-> "idle"] /\ work = [t \in Resolvers |-> NoWork]
  BY DEF MarketInit
<1>2. WorkTyped
  BY <1>1, MarketConstants, NoWorkTyped DEF MarketInit, WorkTyped, Stages
<1>3. Exclusive /\ NothingFrozen /\ ReadInOrder /\ LeftThere
  BY <1>1 DEF Exclusive, NothingFrozen, ReadInOrder, LeftThere, Holding, Resolving, Asks
<1>4. ToldIsFrozen /\ NamesItsSource
  BY DEF MarketInit, ToldIsFrozen, NamesItsSource
<1> QED BY <1>2, <1>3, <1>4 DEF MarketInv

LEMMA MarketKept == MarketInv /\ [MarketNext]_marketVars => MarketInv'
<1> SUFFICES ASSUME MarketInv, [MarketNext]_marketVars PROVE MarketInv'
  OBVIOUS
<1>1. CASE Commit
  BY <1>1, CommitKeeps
<1>2. CASE \E t \in Resolvers : Call(t)
  BY <1>2, CallKeeps
<1>3. CASE \E t \in Resolvers : Fault(t)
  BY <1>3, FaultKeeps
<1>4. CASE \E run \in Runs : Crash(run)
  BY <1>4, CrashKeeps
<1>5. ASSUME NEW t \in Resolvers, Resolve(t) PROVE MarketInv'
  BY <1>5, EnterKeeps, LookKeeps, ReadRowsKeeps, CheckSourceKeeps, CoverKeeps, ReserveKeeps,
     AcquireKeeps, GatewayKeeps, PersistKeeps, SettleKeeps, FreezeKeeps DEF Resolve
<1>6. CASE UNCHANGED marketVars
  BY <1>6 DEF marketVars, MarketInv, WorkTyped, Exclusive, NothingFrozen, ReadInOrder, LeftThere,
     ToldIsFrozen, NamesItsSource, Holding
<1> QED BY <1>1, <1>2, <1>3, <1>4, <1>5, <1>6 DEF MarketNext

LEMMA MarketHolds == MarketSpec => []MarketInv
  BY MarketStarts, MarketKept, PTL DEF MarketSpec

\* Whoever is about to freeze a resolution finds none: the lease that is held
\* since the look makes the comparison of _create_or_compare a formality.
THEOREM OneResolution == MarketSpec => []NoConflict
<1>1. MarketInv => NoConflict
  BY DEF MarketInv, NothingFrozen, NoConflict, Resolving
<1> QED BY <1>1, MarketHolds, PTL

\* Everybody who was told a resolution of a requirement was told the same one,
\* and it is the one on disk: over any number of calls, threads, runs, crashes
\* and commits to the portfolio.
THEOREM SameToAll == MarketSpec => []ToldIsFrozen
<1>1. MarketInv => ToldIsFrozen
  BY DEF MarketInv
<1> QED BY <1>1, MarketHolds, PTL

\* A resolution names the version of the portfolio its rows were read from,
\* though the portfolio may change at any step.
THEOREM SourceNamed == MarketSpec => []NamesItsSource
<1>1. MarketInv => NamesItsSource
  BY DEF MarketInv
<1> QED BY <1>1, MarketHolds, PTL

-----------------------------------------------------------------------------
(* What is answered is not asked for again *)

Answered(r, c, known) ==
    \E e \in known : e.origin = r /\ e.component = c /\ e.proof # "nothing"
Conflicted(c, known) ==
    \E d, e \in known : d.component = c /\ e.component = c /\ d.proof = "p" /\ e.proof = "q"
\* A component may be asked for: it was not answered, or answers contradict
\* each other, which no further answer mends.
Open(r, c, known) == Answered(r, c, known) => Conflicted(c, known)

\* Whatever a thread has left to ask for may be asked for, except the request
\* that was just answered and is to be settled.
LeftOpen ==
    \A t \in Resolvers : at[t] \in Asks =>
        \A i \in work[t].left :
            \/ Open(work[t].req, Wanted[work[t].req][i], entries)
            \/ at[t] = "settle" /\ i = First(work[t])

\* What entries of a component prove, as Proven counts them.
ProofsOf(c, known) == {e.proof : e \in {x \in known : x.component = c}} \ {"nothing"}

\* A component that was answered and is not proven is conflicted.
LEMMA UnprovenIsOpen ==
  ASSUME NEW known \in SUBSET Entry, NEW r, NEW c \in Components, c \notin Proven(known)
  PROVE  Open(r, c, known)
<1> SUFFICES ASSUME NEW e \in known, e.component = c, e.proof # "nothing"
             PROVE  Conflicted(c, known)
  BY DEF Open, Answered
<1> DEFINE found == ProofsOf(c, known)
<1>1. e.proof \in found
  BY DEF ProofsOf
<1>2. found # {e.proof}
  <2>1. Cardinality({e.proof}) = 1
    BY FS_Singleton
  <2>2. Cardinality(found) # 1
    BY DEF Proven, ProofsOf
  <2> QED BY <2>1, <2>2
<1> HIDE DEF found
<1>3. PICK proof \in found : proof # e.proof
  BY <1>1, <1>2
<1>4. PICK d \in known : d.component = c /\ d.proof = proof /\ d.proof # "nothing"
  BY <1>3 DEF found, ProofsOf
<1>5. e.proof \in {"p", "q"} /\ d.proof \in {"p", "q"} /\ d.proof # e.proof
  BY <1>3, <1>4 DEF Entry, Proofs
<1> QED BY <1>4, <1>5 DEF Conflicted

\* A conflicted component is not proven.
LEMMA ConflictedIsUnproven ==
  ASSUME NEW known \in SUBSET Entry, NEW c \in Components, Conflicted(c, known)
  PROVE  c \notin Proven(known)
<1> DEFINE found == ProofsOf(c, known)
<1>1. "p" \in found /\ "q" \in found
  BY DEF Conflicted, ProofsOf
<1>2. Cardinality(found) # 1
  <2> SUFFICES ASSUME Cardinality(found) = 1 PROVE FALSE
    OBVIOUS
  <2>1. IsFiniteSet(found)
    <3>1. found \subseteq Proofs
      BY DEF ProofsOf, Entry
    <3>2. IsFiniteSet(Proofs)
      <4>1. Proofs = {"p"} \cup {"q"} \cup {"nothing"}
        BY DEF Proofs
      <4> QED BY <4>1, FS_Singleton, FS_Union
    <3> QED BY <3>1, <3>2, FS_Subset
  <2>2. \E x : found = {x}
    <3> HIDE DEF found
    <3> QED BY <2>1, FS_Singleton
  <2> QED BY <1>1, <2>2
<1> QED BY <1>2 DEF Proven, ProofsOf

\* Where no entry is added: the others are where they were, and the thread
\* that moved has only what may be asked for.
LEMMA OthersOpen ==
  ASSUME WorkTyped, LeftOpen, NEW t \in Resolvers, NEW stage \in Stages, NEW w \in Tasks,
         MoveTo(t, stage, w), UNCHANGED entries,
         stage \in Asks => w.req \in Requirements /\ w.run \in Runs /\
            \A i \in w.left : Open(w.req, Wanted[w.req][i], entries)
  PROVE  LeftOpen'
<1>1. at'[t] = stage /\ work'[t] = w
  BY DEF MoveTo, WorkTyped
<1>2. \A g \in Resolvers : g # t => at'[g] = at[g] /\ work'[g] = work[g]
  BY DEF MoveTo, WorkTyped
<1>3. ASSUME NEW g \in Resolvers, g # t, at'[g] \in Asks, NEW i \in work'[g].left
      PROVE  \/ Open(work'[g].req, Wanted[work'[g].req][i], entries')
             \/ at'[g] = "settle" /\ i = First(work'[g])
  BY <1>2, <1>3 DEF LeftOpen
<1>4. ASSUME at'[t] \in Asks, NEW i \in work'[t].left
      PROVE  Open(work'[t].req, Wanted[work'[t].req][i], entries')
  BY <1>1, <1>4
<1> QED BY <1>3, <1>4, Zenon DEF LeftOpen

\* A thread that gives up, and nothing is added.
LEMMA IdleOpen ==
  ASSUME WorkTyped, LeftOpen, NEW t \in Resolvers, MoveTo(t, "idle", NoWork), UNCHANGED entries
  PROVE  LeftOpen'
  BY OthersOpen, NoWorkTyped DEF Stages, Asks

LEMMA CoverOpens ==
  ASSUME MarketInv, LeftOpen, NEW t \in Resolvers, Cover(t) PROVE LeftOpen'
<1> DEFINE w == [work[t] EXCEPT !.known = entries]
           missing == {i \in DOMAIN Wanted[w.req] : Wanted[w.req][i] \notin Covered(w)}
<1>1. work[t] \in Tasks /\ work[t].req \in Requirements /\ work[t].run \in Runs
  BY DEF Cover, MarketInv, WorkTyped
<1>2. w \in Tasks /\ w.req = work[t].req /\ w.run = work[t].run /\ w.known = entries
  BY <1>1 DEF Tasks, MarketInv, WorkTyped
<1>3. UNCHANGED entries /\ entries \in SUBSET Entry /\ WorkTyped
  BY DEF Cover, MarketInv, WorkTyped
<1>4. missing \in SUBSET Nat
  <2>1. DOMAIN Wanted[w.req] \subseteq Nat
    BY <1>1, <1>2, MarketConstants
  <2> QED BY <2>1
<1>5. ASSUME w.req \notin Hindsight, NEW i \in missing
      PROVE  Open(w.req, Wanted[w.req][i], entries)
  <2>1. Wanted[w.req][i] \in Components
    BY <1>1, <1>2, <1>5 DEF Components
  <2>2. Wanted[w.req][i] \notin Proven(entries)
    BY <1>2, <1>5 DEF Covered
  <2> QED BY <2>1, <2>2, <1>3, UnprovenIsOpen
<1> HIDE DEF w, missing
<1>6. CASE \E status \in Statuses : MoveTo(t, "freeze", [w EXCEPT !.status = status])
  <2>1. PICK status \in Statuses : MoveTo(t, "freeze", [w EXCEPT !.status = status])
    BY <1>6
  <2>2. [w EXCEPT !.status = status] \in Tasks
    BY <1>2 DEF Tasks
  <2> QED BY <1>3, <2>1, <2>2, OthersOpen DEF Stages, Asks
<1>7. CASE w.req \notin Hindsight /\ MoveTo(t, "reserve", [w EXCEPT !.left = missing])
  <2> DEFINE v == [w EXCEPT !.left = missing]
  <2>1. v \in Tasks /\ v.req = w.req /\ v.run = w.run /\ v.left = missing
    BY <1>2, <1>4 DEF Tasks
  <2>2. MoveTo(t, "reserve", v)
    BY <1>7
  <2> HIDE DEF v
  <2>3. \A i \in v.left : Open(v.req, Wanted[v.req][i], entries)
    BY <1>5, <1>7, <2>1
  <2> QED BY <1>1, <1>2, <1>3, <2>1, <2>2, <2>3, OthersOpen DEF Stages
<1>8. \/ \E status \in {"not_needed", "withheld", "unavailable"} :
            MoveTo(t, "freeze", [w EXCEPT !.status = status])
      \/ w.req \notin Hindsight /\ MoveTo(t, "reserve", [w EXCEPT !.left = missing])
  BY Zenon DEF Cover, w, missing
<1> QED BY <1>6, <1>7, <1>8 DEF Statuses

\* A step of a thread that asks, which adds nothing and drops nothing but the
\* settled request.
LEMMA AskerOpen ==
  ASSUME MarketInv, LeftOpen, NEW t \in Resolvers, NEW stage \in Stages, NEW w \in Tasks,
         MoveTo(t, stage, w), UNCHANGED entries, at[t] \in Asks,
         stage \in Asks => w.req = work[t].req /\ w.run = work[t].run,
         stage \in Asks => w.left \subseteq work[t].left,
         at[t] = "settle" => stage \notin Asks \/ First(work[t]) \notin w.left
  PROVE  LeftOpen'
<1>1. work[t].req \in Requirements /\ work[t].run \in Runs /\ WorkTyped
  BY DEF MarketInv, WorkTyped, Asks
<1>2. ASSUME stage \in Asks, NEW i \in w.left
      PROVE  Open(w.req, Wanted[w.req][i], entries)
  BY <1>2 DEF LeftOpen
<1> QED BY <1>1, <1>2, OthersOpen

\* What is added answers the request of the thread that adds it, and no other
\* of the same requirement.
LEMMA PersistOpens ==
  ASSUME MarketInv, LeftOpen, NEW t \in Resolvers, Persist(t) PROVE LeftOpen'
<1> DEFINE made(proof) == [component |-> Asked(work[t]), origin |-> work[t].req, proof |-> proof]
<1>1. PICK proof \in Proofs :
        /\ entries' = entries \cup {made(proof)}
        /\ MoveTo(t, "settle", [work[t] EXCEPT !.known = work[t].known \cup {made(proof)}])
  BY Zenon DEF Persist
<1> DEFINE x == made(proof)
           v == [work[t] EXCEPT !.known = work[t].known \cup {x}]
<1>2. work[t] \in Tasks /\ at[t] = "persist" /\ work[t].req \in Requirements
  BY DEF Persist, MarketInv, WorkTyped
<1>3. v.req = work[t].req /\ v.left = work[t].left /\ First(v) = First(work[t])
  BY <1>2 DEF Tasks, First
<1>4. at' = [at EXCEPT ![t] = "settle"] /\ work' = [work EXCEPT ![t] = v]
      /\ entries' = entries \cup {x} /\ x.origin = work[t].req /\ x.component = Asked(work[t])
  BY <1>1 DEF MoveTo
<1> HIDE DEF x, v
<1>5. at'[t] = "settle" /\ work'[t] = v
      /\ \A g \in Resolvers : g # t => at'[g] = at[g] /\ work'[g] = work[g]
  BY <1>4 DEF MarketInv, WorkTyped
<1>6. ASSUME NEW r, NEW c, Open(r, c, entries), r # x.origin \/ c # x.component
      PROVE  Open(r, c, entries')
  BY <1>4, <1>6 DEF Open, Answered, Conflicted
<1>7. ASSUME NEW g \in Resolvers, g # t, at'[g] \in Asks, NEW i \in work'[g].left
      PROVE  \/ Open(work'[g].req, Wanted[work'[g].req][i], entries')
             \/ at'[g] = "settle" /\ i = First(work'[g])
  <2>1. work[g].req # work[t].req
    BY <1>2, <1>5, <1>7 DEF Exclusive, Holding, Asks, MarketInv
  <2>2. \/ Open(work[g].req, Wanted[work[g].req][i], entries)
        \/ at[g] = "settle" /\ i = First(work[g])
    BY <1>5, <1>7 DEF LeftOpen
  <2> QED BY <1>4, <1>5, <1>6, <1>7, <2>1, <2>2
<1>8. ASSUME NEW i \in work'[t].left
      PROVE  \/ Open(work'[t].req, Wanted[work'[t].req][i], entries')
             \/ i = First(work'[t])
  <2>1. i \in work[t].left /\ First(work'[t]) = First(work[t])
    BY <1>3, <1>5
  <2>2. Open(work[t].req, Wanted[work[t].req][i], entries)
    BY <1>2, <2>1 DEF LeftOpen, Asks
  <2>3. CASE i # First(work[t])
    <3>1. work[t].left \subseteq DOMAIN Wanted[work[t].req] /\ work[t].left \subseteq Nat
      BY <1>2 DEF LeftThere, MarketInv, Asks, Tasks
    <3>2. First(work[t]) \in work[t].left
      BY <2>1, <3>1, FirstIsLeft
    <3>3. Wanted[work[t].req][i] # x.component
      BY <1>2, <1>4, <2>1, <2>3, <3>1, <3>2, MarketConstants DEF Asked
    <3> QED BY <1>3, <1>5, <1>6, <2>2, <3>3
  <2> QED BY <2>1, <2>3
<1> QED BY <1>5, <1>7, <1>8, Zenon DEF LeftOpen

LEMMA AskingOpens ==
  ASSUME MarketInv, LeftOpen, NEW t \in Resolvers,
         Reserve(t) \/ Acquire(t) \/ Gateway(t) \/ Settle(t)
  PROVE  LeftOpen'
<1>1. work[t] \in Tasks
  BY DEF MarketInv, WorkTyped
<1>2. CASE Reserve(t)
  <2> DEFINE cap == Capacity(work[t].run)
  <2>1. cap \in Int
    BY <1>2, MarketConstants DEF Reserve, Capacity, Min2, MarketInv, WorkTyped
  <2>2. UNCHANGED entries /\ at[t] \in Asks
    BY <1>2 DEF Reserve, Asks
  <2>3. \/ MoveTo(t, "slot", [work[t] EXCEPT !.cap = cap])
        \/ \E status \in Statuses : MoveTo(t, "freeze", [work[t] EXCEPT !.status = status])
    BY <1>2 DEF Reserve, FallbackStatus, Statuses
  <2> HIDE DEF cap
  <2>4. CASE MoveTo(t, "slot", [work[t] EXCEPT !.cap = cap])
    <3> DEFINE v == [work[t] EXCEPT !.cap = cap]
    <3>1. v \in Tasks /\ v.req = work[t].req /\ v.run = work[t].run /\ v.left = work[t].left
      BY <1>1, <2>1 DEF Tasks
    <3>2. at[t] # "settle" /\ MoveTo(t, "slot", v)
      BY <1>2, <2>4 DEF Reserve
    <3> HIDE DEF v
    <3> QED BY <2>2, <3>1, <3>2, AskerOpen DEF Stages
  <2>5. ASSUME NEW status \in Statuses, MoveTo(t, "freeze", [work[t] EXCEPT !.status = status])
        PROVE  LeftOpen'
    <3>1. [work[t] EXCEPT !.status = status] \in Tasks
      BY <1>1 DEF Tasks
    <3> QED BY <2>2, <2>5, <3>1, AskerOpen DEF Stages, Asks
  <2> QED BY <2>3, <2>4, <2>5
<1>3. CASE Acquire(t)
  <2>1. at[t] = "slot" /\ MoveTo(t, "call", work[t]) /\ UNCHANGED entries
    BY <1>3 DEF Acquire
  <2> QED BY <1>1, <2>1, AskerOpen DEF Stages, Asks
<1>4. CASE Gateway(t)
  <2>1. PICK n \in 0 .. work[t].cap :
          \E reply \in Reports(n) :
            MoveTo(t, IF reply = "succeeded" THEN "persist" ELSE "settle",
                   [work[t] EXCEPT !.reply = reply, !.charged = Charge(reply, n, work[t].cap)])
    BY <1>4, Zenon DEF Gateway
  <2>2. PICK reply \in Reports(n) :
          MoveTo(t, IF reply = "succeeded" THEN "persist" ELSE "settle",
                 [work[t] EXCEPT !.reply = reply, !.charged = Charge(reply, n, work[t].cap)])
    BY <2>1
  <2> DEFINE charged == Charge(reply, n, work[t].cap)
             stage == IF reply = "succeeded" THEN "persist" ELSE "settle"
             v == [work[t] EXCEPT !.reply = reply, !.charged = charged]
  <2>3. reply \in Replies /\ charged \in Int
    BY <1>1 DEF Reports, Replies, Charge, Tasks
  <2>4. stage \in Stages /\ MoveTo(t, stage, v) /\ at[t] = "call" /\ UNCHANGED entries
    BY <1>4, <2>2 DEF Stages, Gateway
  <2> HIDE DEF charged, stage
  <2>5. v \in Tasks /\ v.req = work[t].req /\ v.run = work[t].run /\ v.left = work[t].left
    BY <1>1, <2>3 DEF Tasks
  <2> HIDE DEF v
  <2> QED BY <2>4, <2>5, AskerOpen DEF Asks
<1>5. CASE Settle(t)
  <2> DEFINE receipts == work[t].receipts \cup {ReceiptOf(work[t].reply)}
             rest == work[t].left \ {First(work[t])}
             over == work[t].reply = "unavailable" \/ rest = {}
             status == IF over THEN FallbackStatus(receipts) ELSE work[t].status
             stage == IF over THEN "freeze" ELSE "reserve"
             v == [work[t] EXCEPT !.left = rest, !.cap = 0, !.reply = "none",
                                  !.charged = 0, !.receipts = receipts, !.status = status]
  <2>1. MoveTo(t, stage, v)
    BY <1>5, Zenon DEF Settle
  <2>2. at[t] = "settle" /\ UNCHANGED entries
    BY <1>5 DEF Settle
  <2>3. receipts \in SUBSET {"succeeded", "zero", "attempted"}
    <3>1. ReceiptOf(work[t].reply) \in {"succeeded", "zero", "attempted"}
      BY DEF ReceiptOf
    <3>2. work[t].receipts \in SUBSET {"succeeded", "zero", "attempted"}
      BY <1>1 DEF Tasks
    <3> QED BY <3>1, <3>2
  <2>4. status \in Statuses /\ rest \in SUBSET Nat
    BY <1>1 DEF FallbackStatus, Statuses, Tasks
  <2>5. stage \in Stages /\ First(work[t]) \notin rest /\ rest \subseteq work[t].left
    BY DEF Stages
  <2> HIDE DEF receipts, rest, over, status, stage
  <2>6. v \in Tasks /\ v.req = work[t].req /\ v.run = work[t].run /\ v.left = rest
    <3>1. "none" \in Replies /\ 0 \in Int
      BY DEF Replies
    <3> QED BY <1>1, <2>3, <2>4, <3>1 DEF Tasks
  <2> HIDE DEF v
  <2> QED BY <2>1, <2>2, <2>5, <2>6, AskerOpen DEF Asks
<1> QED BY <1>2, <1>3, <1>4, <1>5

\* The steps on which nobody asks, or nobody does any more.
LEMMA OthersStepOpen ==
  ASSUME MarketInv, LeftOpen, NEW t \in Resolvers,
         \/ Call(t) \/ Enter(t) \/ Look(t) \/ ReadRows(t) \/ CheckSource(t)
         \/ Freeze(t) \/ Fault(t)
  PROVE  LeftOpen'
<1>1. WorkTyped /\ work[t] \in Tasks /\ portfolio \in Versions
  BY DEF MarketInv, WorkTyped
<1>2. UNCHANGED entries
  BY DEF Call, Enter, Look, ReadRows, CheckSource, Freeze, Fault
<1>3. CASE MoveTo(t, "idle", NoWork)
  BY <1>1, <1>2, <1>3, IdleOpen
<1>4. ASSUME NEW r \in Requirements, NEW run \in Runs,
             MoveTo(t, "lease", [NoWork EXCEPT !.req = r, !.run = run])
      PROVE  LeftOpen'
  <2>1. r \in Requirements \cup {Unresolved} /\ run \in Runs \cup {Unresolved}
    OBVIOUS
  <2>2. [NoWork EXCEPT !.req = r, !.run = run] \in Tasks
    BY <2>1, NoWorkTyped DEF Tasks
  <2> QED BY <1>1, <1>2, <1>4, <2>2, OthersOpen DEF Stages, Asks
<1>5. ASSUME NEW stage \in {"look", "cover"}, MoveTo(t, stage, work[t]) PROVE LeftOpen'
  BY <1>1, <1>2, <1>5, OthersOpen DEF Stages, Asks
<1>6. CASE MoveTo(t, "read", [work[t] EXCEPT !.source = portfolio])
  <2>1. [work[t] EXCEPT !.source = portfolio] \in Tasks
    BY <1>1 DEF Tasks
  <2> QED BY <1>1, <1>2, <1>6, <2>1, OthersOpen DEF Stages, Asks
<1>7. CASE MoveTo(t, "check", [work[t] EXCEPT !.rows = portfolio])
  <2>1. [work[t] EXCEPT !.rows = portfolio] \in Tasks
    BY <1>1 DEF Tasks
  <2> QED BY <1>1, <1>2, <1>7, <2>1, OthersOpen DEF Stages, Asks
<1>8. CASE Call(t)
  BY <1>4, <1>8 DEF Call
<1>9. CASE Enter(t) \/ ReadRows(t) \/ Fault(t)
  BY <1>3, <1>5, <1>7, <1>9 DEF Enter, ReadRows, Fault, Fails
<1>10. CASE Look(t) \/ CheckSource(t) \/ Freeze(t)
  BY <1>3, <1>5, <1>6, <1>10 DEF Look, CheckSource, Freeze, Fails, Returns
<1> QED BY <1>8, <1>9, <1>10

LEMMA LeftKept ==
  MarketInv /\ LeftOpen /\ [MarketNext]_marketVars => LeftOpen'
<1> SUFFICES ASSUME MarketInv, LeftOpen, [MarketNext]_marketVars PROVE LeftOpen'
  OBVIOUS
<1>1. CASE Commit \/ UNCHANGED marketVars
  BY <1>1 DEF Commit, marketVars, LeftOpen
<1>2. ASSUME NEW run \in Runs, Crash(run) PROVE LeftOpen'
  <2>1. /\ UNCHANGED entries
        /\ \A g \in Resolvers : at'[g] = "idle" \/ (at'[g] = at[g] /\ work'[g] = work[g])
    BY <1>2 DEF Crash
  <2> QED BY <2>1, Zenon DEF LeftOpen, Asks
<1>3. ASSUME NEW t \in Resolvers, Call(t) \/ Resolve(t) \/ Fault(t) PROVE LeftOpen'
  BY <1>3, OthersStepOpen, CoverOpens, AskingOpens, PersistOpens DEF Resolve
<1> QED BY <1>1, <1>2, <1>3 DEF MarketNext

\* What a requirement has been answered, and what proves it, is not asked for
\* again: by no thread that waited for the lease, by no other run, and by no
\* run after a crash, unless the answers contradict each other.
THEOREM NotAskedAgain == MarketSpec => []AskedOnce
<1>1. MarketInit => LeftOpen
  BY DEF MarketInit, LeftOpen, Asks
<1>2. MarketSpec => []LeftOpen
  BY <1>1, LeftKept, MarketHolds, PTL DEF MarketSpec
<1>3. MarketInv /\ LeftOpen => AskedOnce
  <2> SUFFICES ASSUME MarketInv, LeftOpen, NEW t \in Resolvers, Asking(t)
               PROVE  /\ frozen[work[t].req] = Unresolved
                      /\ \A e \in entries :
                            e.origin = work[t].req /\ e.component = Asked(work[t]) =>
                                e.proof = "nothing" \/ e.component \notin Proven(entries)
    BY DEF AskedOnce
  <2>1. at[t] \in Asks /\ at[t] # "settle" /\ work[t] \in Tasks /\ entries \in SUBSET Entry
    BY DEF Asking, Asks, MarketInv, WorkTyped
  <2>2. frozen[work[t].req] = Unresolved
    BY <2>1 DEF MarketInv, NothingFrozen, Resolving
  <2>3. Open(work[t].req, Asked(work[t]), entries)
    <3>1. First(work[t]) \in work[t].left
      BY <2>1, FirstIsLeft DEF LeftThere, MarketInv, Tasks
    <3> QED BY <2>1, <3>1 DEF LeftOpen, Asked
  <2>4. ASSUME NEW e \in entries, e.origin = work[t].req, e.component = Asked(work[t]), e.proof # "nothing"
        PROVE  e.component \notin Proven(entries)
    <3>1. Conflicted(e.component, entries)
      BY <2>3, <2>4 DEF Open, Answered
    <3>2. e.component \in Components
      BY <2>1 DEF Entry
    <3> QED BY <2>1, <3>1, <3>2, ConflictedIsUnproven
  <2> QED BY <2>2, <2>4
<1> QED BY <1>2, <1>3, MarketHolds, PTL

-----------------------------------------------------------------------------
(* The budget.  What is reserved of a run is the sum of what its threads    *)
(* have reserved, what is taken of its slots the number of its threads that *)
(* hold one, and what it has sent is paid for, or charged to a thread that  *)
(* has not settled.  A sum over threads is the number of the tokens that    *)
(* they hold: a thread with n of them holds <<t, 1>> to <<t, n>>.           *)

Tokens(f) == {x \in Resolvers \X (Nat \ {0}) : x[2] <= f[x[1]]}
Total(f) == Cardinality(Tokens(f))

Busy == {"slot", "call", "persist", "settle"}
Shares(run) == [t \in Resolvers |->
    IF work[t].run = run /\ at[t] \in Busy THEN work[t].cap ELSE 0]
Costs(run) == [t \in Resolvers |->
    IF work[t].run = run /\ at[t] \in {"persist", "settle"} THEN work[t].charged ELSE 0]
Seats(run) == [t \in Resolvers |->
    IF work[t].run = run /\ at[t] \in {"call", "persist", "settle"} THEN 1 ELSE 0]

\* Nobody is charged more than it has reserved.
Charged ==
    \A t \in Resolvers :
        /\ at[t] \in Busy => work[t].cap \in Nat
        /\ at[t] \in {"persist", "settle"} => work[t].charged \in 0 .. work[t].cap

Balanced(run) ==
    /\ IsFiniteSet(Tokens(Shares(run))) /\ IsFiniteSet(Tokens(Seats(run)))
    /\ used[run] \in Nat /\ used[run] + reserved[run] <= MaxRequests
    /\ reserved[run] = Total(Shares(run))
    /\ slots[run] = Total(Seats(run)) /\ slots[run] <= MaxConcurrency
    /\ sent[run] \in Nat /\ sent[run] <= used[run] + Total(Costs(run))

BudgetTyped == sent \in [Runs -> Int] /\ slots \in [Runs -> Int]
BudgetInv == BudgetTyped /\ Charged /\ \A run \in Runs : Balanced(run)

\* Nobody has any.
LEMMA NoTokens ==
  ASSUME NEW f \in [Resolvers -> Int], \A t \in Resolvers : f[t] = 0
  PROVE  IsFiniteSet(Tokens(f)) /\ Total(f) = 0
<1>1. Tokens(f) = {}
  BY DEF Tokens
<1> QED BY <1>1, FS_EmptySet DEF Total

\* The tokens of one thread.
LEMMA OwnTokens ==
  ASSUME NEW t, NEW n \in Nat
  PROVE  IsFiniteSet({t} \X (1 .. n)) /\ Cardinality({t} \X (1 .. n)) = n
<1> DEFINE T == {t} \X (1 .. n)
           f == [i \in 1 .. n |-> <<t, i>>]
<1>1. f \in [1 .. n -> T] /\ \A x \in T : \E i \in 1 .. n : f[i] = x
  OBVIOUS
<1>2. \A i, j \in 1 .. n : f[i] = f[j] => i = j
  OBVIOUS
<1> HIDE DEF T, f
<1>3. f \in Bijection(1 .. n, T)
  BY <1>1, <1>2 DEF Bijection, Injection, Surjection, IsInjective
<1>4. ExistsBijection(1 .. n, T)
  BY <1>3 DEF ExistsBijection
<1> QED BY <1>4, FS_CountingElements, FS_NatBijection DEF T

\* A thread alone changes what it holds.
LEMMA Shift ==
  ASSUME NEW f \in [Resolvers -> Int], NEW g \in [Resolvers -> Int], NEW t \in Resolvers,
         f[t] \in Nat, g[t] \in Nat, \A s \in Resolvers : s # t => f[s] = g[s],
         IsFiniteSet(Tokens(f))
  PROVE  IsFiniteSet(Tokens(g)) /\ Total(g) = Total(f) - f[t] + g[t]
<1> DEFINE R == {x \in Tokens(f) : x[1] # t}
           F == {t} \X (1 .. f[t])
           G == {t} \X (1 .. g[t])
<1>1. Tokens(f) = R \cup F /\ R \cap F = {}
  BY DEF Tokens
<1>2. Tokens(g) = R \cup G /\ R \cap G = {}
  BY DEF Tokens
<1>3. /\ IsFiniteSet(F) /\ Cardinality(F) = f[t]
      /\ IsFiniteSet(G) /\ Cardinality(G) = g[t]
  BY OwnTokens
<1>4. IsFiniteSet(R)
  <2>1. R \subseteq Tokens(f)
    OBVIOUS
  <2> QED BY <2>1, FS_Subset
<1>5. /\ Cardinality({}) = 0
      /\ Cardinality(R) \in Nat
  BY <1>4, FS_EmptySet, FS_CardinalityType
<1> HIDE DEF R, F, G
<1>6. /\ IsFiniteSet(R \cup F) /\ Cardinality(R \cup F) = Cardinality(R) + f[t]
  <2>1. Cardinality(R \cup F) = Cardinality(R) + Cardinality(F) - Cardinality(R \cap F)
        /\ IsFiniteSet(R \cup F)
    BY <1>3, <1>4, FS_Union
  <2>2. Cardinality(R \cap F) = 0
    BY <1>1, <1>5
  <2> QED BY <1>3, <1>5, <2>1, <2>2
<1>7. /\ IsFiniteSet(R \cup G) /\ Cardinality(R \cup G) = Cardinality(R) + g[t]
  <2>1. Cardinality(R \cup G) = Cardinality(R) + Cardinality(G) - Cardinality(R \cap G)
        /\ IsFiniteSet(R \cup G)
    BY <1>3, <1>4, FS_Union
  <2>2. Cardinality(R \cap G) = 0
    BY <1>2, <1>5
  <2> QED BY <1>3, <1>5, <2>1, <2>2
<1> QED BY <1>1, <1>2, <1>5, <1>6, <1>7 DEF Total

\* Who has less has some of the tokens.
LEMMA FewerTokens ==
  ASSUME NEW f \in [Resolvers -> Int], NEW g \in [Resolvers -> Int],
         \A s \in Resolvers : g[s] <= f[s]
  PROVE  Tokens(g) \subseteq Tokens(f)
  BY DEF Tokens

\* What each thread's step changes of the sums.
LEMMA BudgetShift ==
  ASSUME WorkTyped, WorkTyped', Charged, Charged', NEW q \in Runs, Balanced(q),
         NEW t \in Resolvers,
         \A g \in Resolvers : g # t => at'[g] = at[g] /\ work'[g] = work[g]
  PROVE  /\ IsFiniteSet(Tokens(Shares(q)'))
         /\ Total(Shares(q)') = Total(Shares(q)) - Shares(q)[t] + Shares(q)'[t]
         /\ IsFiniteSet(Tokens(Seats(q)'))
         /\ Total(Seats(q)') = Total(Seats(q)) - Seats(q)[t] + Seats(q)'[t]
         /\ Total(Costs(q)') = Total(Costs(q)) - Costs(q)[t] + Costs(q)'[t]
<1>1. /\ Shares(q) \in [Resolvers -> Int] /\ Shares(q)' \in [Resolvers -> Int]
      /\ Costs(q) \in [Resolvers -> Int] /\ Costs(q)' \in [Resolvers -> Int]
      /\ Seats(q) \in [Resolvers -> Int] /\ Seats(q)' \in [Resolvers -> Int]
  BY DEF WorkTyped, Tasks, Shares, Costs, Seats
<1>2. /\ Shares(q)[t] \in Nat /\ Shares(q)'[t] \in Nat
      /\ Costs(q)[t] \in Nat /\ Costs(q)'[t] \in Nat
      /\ Seats(q)[t] \in Nat /\ Seats(q)'[t] \in Nat
  BY DEF Charged, Shares, Costs, Seats, Busy
<1>3. /\ \A s \in Resolvers : s # t => Shares(q)[s] = Shares(q)'[s]
      /\ \A s \in Resolvers : s # t => Costs(q)[s] = Costs(q)'[s]
      /\ \A s \in Resolvers : s # t => Seats(q)[s] = Seats(q)'[s]
  BY DEF Shares, Costs, Seats
<1>4. /\ IsFiniteSet(Tokens(Shares(q))) /\ IsFiniteSet(Tokens(Seats(q)))
  BY DEF Balanced
<1>5. IsFiniteSet(Tokens(Costs(q)))
  <2>1. \A s \in Resolvers : Costs(q)[s] <= Shares(q)[s]
    BY DEF Charged, Shares, Costs, Busy
  <2>2. Tokens(Costs(q)) \subseteq Tokens(Shares(q))
    BY <1>1, <2>1, FewerTokens
  <2> QED BY <1>4, <2>2, FS_Subset
<1>6. /\ IsFiniteSet(Tokens(Shares(q)'))
      /\ Total(Shares(q)') = Total(Shares(q)) - Shares(q)[t] + Shares(q)'[t]
  BY <1>1, <1>2, <1>3, <1>4, Shift
<1>7. /\ IsFiniteSet(Tokens(Seats(q)'))
      /\ Total(Seats(q)') = Total(Seats(q)) - Seats(q)[t] + Seats(q)'[t]
  BY <1>1, <1>2, <1>3, <1>4, Shift
<1>8. Total(Costs(q)') = Total(Costs(q)) - Costs(q)[t] + Costs(q)'[t]
  BY <1>1, <1>2, <1>3, <1>5, Shift
<1> QED BY <1>6, <1>7, <1>8

\* The sums are natural numbers.
LEMMA TotalType ==
  ASSUME NEW f, IsFiniteSet(Tokens(f))
  PROVE  Total(f) \in Nat
  BY FS_CardinalityType DEF Total

\* A step of a thread that has nothing reserved, before and after.
LEMMA NothingPaid ==
  ASSUME MarketInv, MarketInv', BudgetInv, NEW t \in Resolvers,
         \A g \in Resolvers : g # t => at'[g] = at[g] /\ work'[g] = work[g],
         at[t] \notin Busy, at'[t] \notin Busy,
         UNCHANGED <<budget, sent>>
  PROVE  BudgetInv'
<1>1. WorkTyped /\ WorkTyped' /\ Charged /\ BudgetTyped'
  BY DEF MarketInv, BudgetInv, BudgetTyped, budget
<1>2. Charged'
  BY DEF BudgetInv, Charged, Busy
<1>3. ASSUME NEW q \in Runs
      PROVE  Balanced(q)'
  <2>1. Balanced(q)
    BY DEF BudgetInv
  <2>2. \A s \in Resolvers :
           Shares(q)'[s] = Shares(q)[s] /\ Costs(q)'[s] = Costs(q)[s]
           /\ Seats(q)'[s] = Seats(q)[s]
    BY DEF Shares, Costs, Seats, Busy
  <2>3. Shares(q)' = Shares(q) /\ Costs(q)' = Costs(q) /\ Seats(q)' = Seats(q)
    BY <2>2 DEF Shares, Costs, Seats
  <2>4. /\ Tokens(Shares(q))' = Tokens(Shares(q)) /\ Tokens(Seats(q))' = Tokens(Seats(q))
        /\ Total(Shares(q))' = Total(Shares(q)) /\ Total(Seats(q))' = Total(Seats(q))
        /\ Total(Costs(q))' = Total(Costs(q))
    BY <2>3
  <2> QED BY <2>1, <2>4 DEF Balanced, budget
<1> QED BY <1>1, <1>2, <1>3 DEF BudgetInv

\* A step of a thread that balances what it changes.
LEMMA Balances ==
  ASSUME MarketInv, MarketInv', BudgetInv, NEW t \in Resolvers, NEW r \in Runs,
         \A g \in Resolvers : g # t => at'[g] = at[g] /\ work'[g] = work[g],
         work[t].run = r, work'[t].run = r, BudgetTyped', Charged',
         \A q \in Runs : q # r =>
             used'[q] = used[q] /\ reserved'[q] = reserved[q]
             /\ slots'[q] = slots[q] /\ sent'[q] = sent[q],
         used'[r] \in Nat, sent'[r] \in Nat,
         used'[r] + reserved'[r] <= MaxRequests, slots'[r] <= MaxConcurrency,
         reserved'[r] = reserved[r] - Shares(r)[t] + Shares(r)'[t],
         slots'[r] = slots[r] - Seats(r)[t] + Seats(r)'[t],
         sent'[r] - used'[r] <= sent[r] - used[r] - Costs(r)[t] + Costs(r)'[t]
  PROVE  BudgetInv'
<1>1. WorkTyped /\ WorkTyped' /\ Charged /\ BudgetTyped
  BY DEF MarketInv, BudgetInv
<1>2. ASSUME NEW q \in Runs, q # r
      PROVE  Balanced(q)'
  <2>1. Balanced(q)
    BY DEF BudgetInv
  <2>2. \A s \in Resolvers :
           Shares(q)'[s] = Shares(q)[s] /\ Costs(q)'[s] = Costs(q)[s]
           /\ Seats(q)'[s] = Seats(q)[s]
    BY <1>2 DEF Shares, Costs, Seats
  <2>3. Shares(q)' = Shares(q) /\ Costs(q)' = Costs(q) /\ Seats(q)' = Seats(q)
    BY <2>2 DEF Shares, Costs, Seats
  <2>4. /\ Tokens(Shares(q))' = Tokens(Shares(q)) /\ Tokens(Seats(q))' = Tokens(Seats(q))
        /\ Total(Shares(q))' = Total(Shares(q)) /\ Total(Seats(q))' = Total(Seats(q))
        /\ Total(Costs(q))' = Total(Costs(q))
    BY <2>3
  <2> QED BY <1>2, <2>1, <2>4 DEF Balanced
<1>3. Balanced(r)'
  <2>1. Balanced(r)
    BY DEF BudgetInv
  <2>2. /\ IsFiniteSet(Tokens(Shares(r)'))
        /\ Total(Shares(r)') = Total(Shares(r)) - Shares(r)[t] + Shares(r)'[t]
        /\ IsFiniteSet(Tokens(Seats(r)'))
        /\ Total(Seats(r)') = Total(Seats(r)) - Seats(r)[t] + Seats(r)'[t]
        /\ Total(Costs(r)') = Total(Costs(r)) - Costs(r)[t] + Costs(r)'[t]
    BY <1>1, <2>1, BudgetShift
  <2>3. /\ used[r] \in Int /\ sent[r] \in Int /\ sent[r] <= used[r] + Total(Costs(r))
        /\ reserved[r] = Total(Shares(r)) /\ slots[r] = Total(Seats(r))
    BY <2>1 DEF Balanced
  <2>4. Costs(r)[t] \in Int /\ Costs(r)'[t] \in Int
    BY <1>1 DEF Costs, WorkTyped, Tasks
  <2>5. Total(Costs(r)) \in Nat
    <3>1. IsFiniteSet(Tokens(Costs(r)))
      <4>1. Shares(r) \in [Resolvers -> Int] /\ Costs(r) \in [Resolvers -> Int]
        BY <1>1 DEF WorkTyped, Tasks, Shares, Costs
      <4>2. \A s \in Resolvers : Costs(r)[s] <= Shares(r)[s]
        BY <1>1 DEF Charged, Shares, Costs, Busy
      <4>3. Tokens(Costs(r)) \subseteq Tokens(Shares(r))
        BY <4>1, <4>2, FewerTokens
      <4> QED BY <2>1, <4>3, FS_Subset DEF Balanced
    <3> QED BY <3>1, TotalType
  <2>6. sent'[r] <= used'[r] + Total(Costs(r)')
    <3> DEFINE c == Costs(r)[t]
               d == Costs(r)'[t]
               k == Total(Costs(r))
               m == Total(Costs(r)')
    <3>1. m = k - c + d /\ c \in Int /\ d \in Int /\ k \in Int
      BY <2>2, <2>4, <2>5
    <3>2. sent'[r] - used'[r] <= sent[r] - used[r] - c + d /\ sent[r] <= used[r] + k
      BY <2>3
    <3> HIDE DEF c, d, k, m
    <3>3. sent'[r] <= used'[r] + m
      BY <2>3, <3>1, <3>2
    <3> QED BY <3>3 DEF m
  <2>7. /\ reserved'[r] = Total(Shares(r)') /\ slots'[r] = Total(Seats(r)')
    BY <2>2, <2>3
  <2> QED BY <2>2, <2>6, <2>7 DEF Balanced
<1> QED BY <1>1, <1>2, <1>3 DEF BudgetInv

\* A thread that moves: what the sums read of it before and after.
LEMMA MovesOne ==
  ASSUME MarketInv, NEW t \in Resolvers, NEW stage, NEW w, MoveTo(t, stage, w)
  PROVE  /\ at'[t] = stage /\ work'[t] = w
         /\ \A g \in Resolvers : g # t => at'[g] = at[g] /\ work'[g] = work[g]
  BY DEF MarketInv, WorkTyped, MoveTo

\* MarketRequestBudget.reserve gives what is neither used nor reserved.
LEMMA CapacityType ==
  ASSUME BudgetInv, NEW run \in Runs
  PROVE  /\ Capacity(run) \in Nat
         /\ used[run] + reserved[run] + Capacity(run) <= MaxRequests
         /\ used[run] \in Nat /\ reserved[run] \in Nat /\ slots[run] \in Nat
         /\ sent[run] \in Nat
<1>1. Balanced(run)
  BY DEF BudgetInv
<1>2. /\ used[run] \in Nat /\ reserved[run] \in Nat /\ slots[run] \in Nat
      /\ sent[run] \in Nat /\ used[run] + reserved[run] <= MaxRequests
  BY <1>1, TotalType DEF Balanced
<1>3. MaxRequests \in Nat /\ Attempts \in Nat
  BY MarketConstants
<1> QED BY <1>2, <1>3 DEF Capacity, Min2

\* The steps of a request.  MarketRequestBudget.reserve ...
LEMMA ReserveBudget ==
  ASSUME MarketInv, MarketInv', BudgetInv, NEW t \in Resolvers, Reserve(t)
  PROVE  BudgetInv'
<1>1. PICK r \in Runs : r = work[t].run
  BY DEF Reserve, MarketInv, WorkTyped
<1> DEFINE cap == Capacity(r)
<1>2. /\ cap \in Nat /\ used[r] + reserved[r] + cap <= MaxRequests
      /\ used[r] \in Nat /\ reserved[r] \in Nat /\ slots[r] \in Nat /\ sent[r] \in Nat
  BY CapacityType
<1>3. work[t] \in Tasks /\ reserved \in [Runs -> Int] /\ used \in [Runs -> Int]
  BY DEF MarketInv, WorkTyped
<1>4. reserved' = [reserved EXCEPT ![r] = @ + cap] /\ UNCHANGED <<used, slots, sent>>
      /\ at[t] = "reserve"
  BY <1>1 DEF Reserve
<1>5. CASE cap = 0
  <2>1. reserved' = reserved
    <3> HIDE DEF cap
    <3> QED BY <1>2, <1>3, <1>4, <1>5
  <2>2. \E w : MoveTo(t, "freeze", w)
    BY <1>1, <1>5 DEF Reserve
  <2>3. /\ at'[t] = "freeze"
        /\ \A g \in Resolvers : g # t => at'[g] = at[g] /\ work'[g] = work[g]
    BY <2>2, MovesOne
  <2> QED BY <1>4, <2>1, <2>3, NothingPaid DEF Busy, budget
<1>6. CASE cap > 0
  <2> DEFINE w == [work[t] EXCEPT !.cap = cap]
  <2>1. MoveTo(t, "slot", w)
    BY <1>1, <1>6 DEF Reserve
  <2>2. /\ at'[t] = "slot" /\ work'[t] = w
        /\ \A g \in Resolvers : g # t => at'[g] = at[g] /\ work'[g] = work[g]
    BY <2>1, MovesOne
  <2>3. w.cap = cap /\ w.run = r
    BY <1>1, <1>3 DEF Tasks
  <2> HIDE DEF w, cap
  <2>4. /\ Shares(r)[t] = 0 /\ Shares(r)'[t] = cap
        /\ Seats(r)[t] = 0 /\ Seats(r)'[t] = 0 /\ Costs(r)[t] = 0 /\ Costs(r)'[t] = 0
    BY <1>4, <2>2, <2>3 DEF Shares, Seats, Costs, Busy
  <2>5. Charged'
    BY <1>2, <2>2, <2>3 DEF Charged, BudgetInv, Busy
  <2>6. /\ \A q \in Runs : q # r => reserved'[q] = reserved[q]
        /\ reserved'[r] = reserved[r] + cap
    BY <1>3, <1>4
  <2>7. BudgetTyped' /\ slots'[r] <= MaxConcurrency
    BY <1>4 DEF BudgetTyped, BudgetInv, Balanced
  <2>8. /\ used'[r] + reserved'[r] <= MaxRequests
        /\ reserved'[r] = reserved[r] - Shares(r)[t] + Shares(r)'[t]
        /\ slots'[r] = slots[r] - Seats(r)[t] + Seats(r)'[t]
        /\ sent'[r] - used'[r] <= sent[r] - used[r] - Costs(r)[t] + Costs(r)'[t]
    BY <1>2, <1>4, <2>4, <2>6
  <2> QED BY <1>1, <1>2, <1>4, <2>2, <2>3, <2>5, <2>6, <2>7, <2>8, Balances
<1> QED BY <1>2, <1>5, <1>6

\* ... acquire_concurrency_slot ...
LEMMA AcquireBudget ==
  ASSUME MarketInv, MarketInv', BudgetInv, NEW t \in Resolvers, Acquire(t)
  PROVE  BudgetInv'
<1>1. PICK r \in Runs : r = work[t].run
  BY DEF Acquire, MarketInv, WorkTyped
<1>2. /\ used[r] \in Nat /\ reserved[r] \in Nat /\ slots[r] \in Nat /\ sent[r] \in Nat
      /\ used[r] + reserved[r] <= MaxRequests
  BY CapacityType DEF BudgetInv, Balanced
<1>3. work[t] \in Tasks /\ slots \in [Runs -> Int] /\ MaxConcurrency \in Nat
  BY MarketConstants DEF MarketInv, WorkTyped, BudgetInv, BudgetTyped
<1>4. slots' = [slots EXCEPT ![r] = @ + 1] /\ UNCHANGED <<used, reserved, sent>>
      /\ at[t] = "slot" /\ slots[r] < MaxConcurrency
  BY <1>1 DEF Acquire, SlotFree
<1>5. /\ at'[t] = "call" /\ work'[t] = work[t]
      /\ \A g \in Resolvers : g # t => at'[g] = at[g] /\ work'[g] = work[g]
  BY MovesOne DEF Acquire
<1>6. /\ Shares(r)'[t] = Shares(r)[t]
      /\ Seats(r)[t] = 0 /\ Seats(r)'[t] = 1 /\ Costs(r)[t] = 0 /\ Costs(r)'[t] = 0
  BY <1>1, <1>4, <1>5 DEF Shares, Seats, Costs, Busy
<1>7. Charged'
  BY <1>4, <1>5 DEF Charged, BudgetInv, Busy
<1>8. /\ \A q \in Runs : q # r => slots'[q] = slots[q]
      /\ slots'[r] = slots[r] + 1
  BY <1>3, <1>4
<1>9. BudgetTyped'
  BY <1>3, <1>4 DEF BudgetTyped, BudgetInv
<1>10. Shares(r)[t] \in Int
  BY <1>3 DEF Shares, Tasks
<1>11. /\ slots'[r] <= MaxConcurrency /\ used'[r] + reserved'[r] <= MaxRequests
       /\ reserved'[r] = reserved[r] - Shares(r)[t] + Shares(r)'[t]
       /\ slots'[r] = slots[r] - Seats(r)[t] + Seats(r)'[t]
       /\ sent'[r] - used'[r] <= sent[r] - used[r] - Costs(r)[t] + Costs(r)'[t]
  BY <1>2, <1>3, <1>4, <1>6, <1>8, <1>10
<1> QED BY <1>1, <1>2, <1>4, <1>5, <1>7, <1>8, <1>9, <1>11, Balances

\* An unknown number of attempts is charged as all that were reserved.
LEMMA GatewayBudget ==
  ASSUME MarketInv, MarketInv', BudgetInv, NEW t \in Resolvers, Gateway(t)
  PROVE  BudgetInv'
<1>1. PICK r \in Runs : r = work[t].run
  BY DEF Gateway, MarketInv, WorkTyped
<1>2. /\ used[r] \in Nat /\ reserved[r] \in Nat /\ slots[r] \in Nat /\ sent[r] \in Nat
      /\ used[r] + reserved[r] <= MaxRequests /\ slots[r] <= MaxConcurrency
  BY CapacityType DEF BudgetInv, Balanced
<1>3. work[t] \in Tasks /\ sent \in [Runs -> Int] /\ work[t].cap \in Nat
  BY DEF MarketInv, WorkTyped, BudgetInv, BudgetTyped, Charged, Busy, Gateway
<1>4. at[t] = "call" /\ UNCHANGED <<used, reserved, slots>>
  BY DEF Gateway, budget
<1>5. PICK n \in 0 .. work[t].cap : \E reply \in Reports(n) :
          /\ sent' = [sent EXCEPT ![r] = @ + n]
          /\ MoveTo(t, IF reply = "succeeded" THEN "persist" ELSE "settle",
                    [work[t] EXCEPT !.reply = reply,
                                    !.charged = Charge(reply, n, work[t].cap)])
  BY <1>1 DEF Gateway
<1>6. PICK reply \in Reports(n) :
          /\ sent' = [sent EXCEPT ![r] = @ + n]
          /\ MoveTo(t, IF reply = "succeeded" THEN "persist" ELSE "settle",
                    [work[t] EXCEPT !.reply = reply,
                                    !.charged = Charge(reply, n, work[t].cap)])
  BY <1>5
<1> DEFINE c == Charge(reply, n, work[t].cap)
           w == [work[t] EXCEPT !.reply = reply, !.charged = c]
<1>7. c \in 0 .. work[t].cap /\ n <= c
  BY <1>3 DEF Charge
<1> HIDE DEF c
<1>8. w.charged = c /\ w.cap = work[t].cap /\ w.run = r
  BY <1>1, <1>3 DEF Tasks
<1>9. /\ at'[t] \in {"persist", "settle"} /\ work'[t] = w
      /\ \A g \in Resolvers : g # t => at'[g] = at[g] /\ work'[g] = work[g]
  BY <1>6, MovesOne DEF c
<1> HIDE DEF w
<1>10. /\ Shares(r)'[t] = Shares(r)[t] /\ Seats(r)[t] = 1 /\ Seats(r)'[t] = 1
       /\ Costs(r)[t] = 0 /\ Costs(r)'[t] = c
  BY <1>1, <1>4, <1>8, <1>9 DEF Shares, Seats, Costs, Busy
<1>11. Charged'
  BY <1>3, <1>7, <1>8, <1>9 DEF Charged, BudgetInv, Busy
<1>12. /\ \A q \in Runs : q # r => sent'[q] = sent[q]
       /\ sent'[r] = sent[r] + n /\ BudgetTyped'
  BY <1>3, <1>4, <1>6 DEF BudgetTyped, BudgetInv
<1>13. Shares(r)[t] \in Int /\ n \in Nat /\ c \in Nat
  BY <1>3, <1>7 DEF Shares, Tasks
<1>14. /\ sent'[r] \in Nat /\ used'[r] + reserved'[r] <= MaxRequests
       /\ reserved'[r] = reserved[r] - Shares(r)[t] + Shares(r)'[t]
       /\ slots'[r] = slots[r] - Seats(r)[t] + Seats(r)'[t]
       /\ sent'[r] - used'[r] <= sent[r] - used[r] - Costs(r)[t] + Costs(r)'[t]
  BY <1>2, <1>4, <1>7, <1>10, <1>12, <1>13
<1> QED BY <1>1, <1>2, <1>4, <1>8, <1>9, <1>11, <1>12, <1>14, Balances

\* The entry is stored before the attempts are settled (_external_entry_v2).
LEMMA PersistBudget ==
  ASSUME MarketInv, MarketInv', BudgetInv, NEW t \in Resolvers, Persist(t)
  PROVE  BudgetInv'
<1>1. PICK r \in Runs : r = work[t].run
  BY DEF Persist, MarketInv, WorkTyped
<1>2. /\ used[r] \in Nat /\ reserved[r] \in Nat /\ slots[r] \in Nat /\ sent[r] \in Nat
      /\ used[r] + reserved[r] <= MaxRequests /\ slots[r] <= MaxConcurrency
  BY CapacityType DEF BudgetInv, Balanced
<1>3. work[t] \in Tasks
  BY DEF MarketInv, WorkTyped
<1>4. at[t] = "persist" /\ UNCHANGED <<used, reserved, slots, sent>>
  BY DEF Persist, budget
<1>5. PICK e : MoveTo(t, "settle", [work[t] EXCEPT !.known = @ \cup {e}])
  BY DEF Persist
<1> DEFINE w == [work[t] EXCEPT !.known = @ \cup {e}]
<1>6. w.charged = work[t].charged /\ w.cap = work[t].cap /\ w.run = r
  BY <1>1, <1>3 DEF Tasks
<1>7. /\ at'[t] = "settle" /\ work'[t] = w
      /\ \A g \in Resolvers : g # t => at'[g] = at[g] /\ work'[g] = work[g]
  BY <1>5, MovesOne
<1> HIDE DEF w
<1>8. /\ Shares(r)'[t] = Shares(r)[t] /\ Seats(r)[t] = 1 /\ Seats(r)'[t] = 1
      /\ Costs(r)'[t] = Costs(r)[t]
  BY <1>1, <1>4, <1>6, <1>7 DEF Shares, Seats, Costs, Busy
<1>9. Charged' /\ BudgetTyped'
  BY <1>4, <1>6, <1>7 DEF Charged, BudgetInv, Busy, BudgetTyped
<1>10. Shares(r)[t] \in Int /\ Costs(r)[t] \in Int
  BY <1>3 DEF Shares, Costs, Tasks
<1>11. /\ used'[r] + reserved'[r] <= MaxRequests
       /\ reserved'[r] = reserved[r] - Shares(r)[t] + Shares(r)'[t]
       /\ slots'[r] = slots[r] - Seats(r)[t] + Seats(r)'[t]
       /\ sent'[r] - used'[r] <= sent[r] - used[r] - Costs(r)[t] + Costs(r)'[t]
  BY <1>2, <1>4, <1>8, <1>10
<1> QED BY <1>1, <1>2, <1>4, <1>6, <1>7, <1>9, <1>11, Balances

\* settle takes what was charged for what was reserved, and the slot is released.
LEMMA SettleBudget ==
  ASSUME MarketInv, MarketInv', BudgetInv, NEW t \in Resolvers, Settle(t)
  PROVE  BudgetInv'
<1>1. PICK r \in Runs : r = work[t].run
  BY DEF Settle, MarketInv, WorkTyped
<1>2. /\ used[r] \in Nat /\ reserved[r] \in Nat /\ slots[r] \in Nat /\ sent[r] \in Nat
      /\ used[r] + reserved[r] <= MaxRequests /\ slots[r] <= MaxConcurrency
  BY CapacityType DEF BudgetInv, Balanced
<1> DEFINE c == work[t].charged
           k == work[t].cap
<1>3. /\ work[t] \in Tasks /\ used \in [Runs -> Int] /\ reserved \in [Runs -> Int]
      /\ slots \in [Runs -> Int] /\ MaxConcurrency \in Nat
      /\ k \in Nat /\ c \in 0 .. k
  BY MarketConstants
     DEF MarketInv, WorkTyped, BudgetInv, BudgetTyped, Charged, Busy, Settle
<1>4. /\ used' = [used EXCEPT ![r] = @ + c] /\ reserved' = [reserved EXCEPT ![r] = @ - k]
      /\ slots' = [slots EXCEPT ![r] = slots[r] - 1]
      /\ at[t] = "settle" /\ UNCHANGED sent
  BY <1>1 DEF Settle, SlotsAfter
<1>5. \E stage \in {"freeze", "reserve"} : \E w : MoveTo(t, stage, w) /\ w.run = r
  <2>0. PICK stage \in {"freeze", "reserve"} :
          \E left, receipts, status :
             MoveTo(t, stage, [work[t] EXCEPT !.left = left, !.cap = 0, !.reply = "none",
                                              !.charged = 0, !.receipts = receipts,
                                              !.status = status])
    BY DEF Settle
  <2>1. PICK left, receipts, status :
          MoveTo(t, stage, [work[t] EXCEPT !.left = left, !.cap = 0, !.reply = "none",
                                           !.charged = 0, !.receipts = receipts,
                                           !.status = status])
    BY <2>0
  <2>2. [work[t] EXCEPT !.left = left, !.cap = 0, !.reply = "none", !.charged = 0,
                        !.receipts = receipts, !.status = status].run = r
    BY <1>1, <1>3 DEF Tasks
  <2> QED BY <2>1, <2>2
<1>6. /\ at'[t] \in {"freeze", "reserve"} /\ work'[t].run = r
      /\ \A g \in Resolvers : g # t => at'[g] = at[g] /\ work'[g] = work[g]
  <2>1. PICK stage \in {"freeze", "reserve"} : \E w : MoveTo(t, stage, w) /\ w.run = r
    BY <1>5
  <2>2. PICK w : MoveTo(t, stage, w) /\ w.run = r
    BY <2>1
  <2> QED BY <2>2, MovesOne
<1> HIDE DEF c, k
<1>7. /\ Shares(r)[t] = k /\ Shares(r)'[t] = 0 /\ Seats(r)[t] = 1 /\ Seats(r)'[t] = 0
      /\ Costs(r)[t] = c /\ Costs(r)'[t] = 0
  BY <1>1, <1>4, <1>6 DEF Shares, Seats, Costs, Busy, c, k
<1>8. Charged'
  BY <1>6 DEF Charged, BudgetInv, Busy
<1>9. /\ \A q \in Runs : q # r =>
            used'[q] = used[q] /\ reserved'[q] = reserved[q] /\ slots'[q] = slots[q]
      /\ used'[r] = used[r] + c /\ reserved'[r] = reserved[r] - k
      /\ slots'[r] = slots[r] - 1
  BY <1>3, <1>4
<1>10. BudgetTyped'
  BY <1>3, <1>4 DEF BudgetTyped, BudgetInv
<1>11. /\ used'[r] \in Nat /\ used'[r] + reserved'[r] <= MaxRequests
       /\ slots'[r] <= MaxConcurrency
  <2>1. MaxRequests \in Nat
    BY MarketConstants
  <2> QED BY <1>2, <1>3, <1>9, <2>1
<1>12. /\ reserved'[r] = reserved[r] - Shares(r)[t] + Shares(r)'[t]
       /\ slots'[r] = slots[r] - Seats(r)[t] + Seats(r)'[t]
       /\ sent'[r] - used'[r] <= sent[r] - used[r] - Costs(r)[t] + Costs(r)'[t]
  BY <1>2, <1>3, <1>4, <1>7, <1>9
<1> QED BY <1>1, <1>2, <1>4, <1>6, <1>8, <1>9, <1>10, <1>11, <1>12, Balances

\* With its process go a run's threads and its budget.
LEMMA CrashBudget ==
  ASSUME MarketInv, MarketInv', BudgetInv, NEW run \in Runs, Crash(run)
  PROVE  BudgetInv'
<1>1. /\ \A t \in Resolvers :
            /\ work[t].run = run => at'[t] = "idle" /\ work'[t] = NoWork
            /\ work[t].run # run => at'[t] = at[t] /\ work'[t] = work[t]
      /\ used' = [used EXCEPT ![run] = 0] /\ reserved' = [reserved EXCEPT ![run] = 0]
      /\ slots' = [slots EXCEPT ![run] = 0] /\ sent' = [sent EXCEPT ![run] = 0]
  BY DEF Crash
<1>2. /\ used \in [Runs -> Int] /\ reserved \in [Runs -> Int] /\ slots \in [Runs -> Int]
      /\ sent \in [Runs -> Int] /\ MaxRequests \in Nat /\ MaxConcurrency \in Nat
  BY MarketConstants DEF MarketInv, WorkTyped, BudgetInv, BudgetTyped
<1>3. BudgetTyped'
  BY <1>1, <1>2 DEF BudgetTyped
<1>4. Charged'
  BY <1>1 DEF Charged, BudgetInv, Busy
<1>5. ASSUME NEW q \in Runs, q # run
      PROVE  Balanced(q)'
  <2>1. Balanced(q)
    BY DEF BudgetInv
  <2>2. \A s \in Resolvers :
           Shares(q)'[s] = Shares(q)[s] /\ Costs(q)'[s] = Costs(q)[s]
           /\ Seats(q)'[s] = Seats(q)[s]
    BY <1>1, <1>5 DEF Shares, Costs, Seats, Busy
  <2>3. Shares(q)' = Shares(q) /\ Costs(q)' = Costs(q) /\ Seats(q)' = Seats(q)
    BY <2>2 DEF Shares, Costs, Seats
  <2>4. /\ Tokens(Shares(q))' = Tokens(Shares(q)) /\ Tokens(Seats(q))' = Tokens(Seats(q))
        /\ Total(Shares(q))' = Total(Shares(q)) /\ Total(Seats(q))' = Total(Seats(q))
        /\ Total(Costs(q))' = Total(Costs(q))
    BY <2>3
  <2>5. /\ used'[q] = used[q] /\ reserved'[q] = reserved[q] /\ slots'[q] = slots[q]
        /\ sent'[q] = sent[q]
    BY <1>1, <1>2, <1>5
  <2> QED BY <2>1, <2>4, <2>5 DEF Balanced
<1>6. Balanced(run)'
  <2>1. \A s \in Resolvers :
           Shares(run)'[s] = 0 /\ Costs(run)'[s] = 0 /\ Seats(run)'[s] = 0
    BY <1>1 DEF Shares, Costs, Seats, Busy
  <2>2. /\ Shares(run)' \in [Resolvers -> Int] /\ Costs(run)' \in [Resolvers -> Int]
        /\ Seats(run)' \in [Resolvers -> Int]
    BY <2>1 DEF Shares, Costs, Seats
  <2>3. /\ IsFiniteSet(Tokens(Shares(run)')) /\ IsFiniteSet(Tokens(Seats(run)'))
        /\ Total(Shares(run)') = 0 /\ Total(Seats(run)') = 0 /\ Total(Costs(run)') = 0
    BY <2>1, <2>2, NoTokens
  <2>4. used'[run] = 0 /\ reserved'[run] = 0 /\ slots'[run] = 0 /\ sent'[run] = 0
    BY <1>1, <1>2
  <2> QED BY <1>2, <2>3, <2>4 DEF Balanced
<1> QED BY <1>3, <1>4, <1>5, <1>6 DEF BudgetInv

\* A step of a thread that pays nothing.
LEMMA UnpaidBudget ==
  ASSUME MarketInv, MarketInv', BudgetInv, NEW t \in Resolvers,
         Call(t) \/ Enter(t) \/ Look(t) \/ ReadRows(t) \/ CheckSource(t) \/ Cover(t)
            \/ Freeze(t) \/ Fault(t)
  PROVE  BudgetInv'
<1>1. at[t] \notin Busy /\ UNCHANGED <<budget, sent>>
  BY DEF Call, Enter, Look, ReadRows, CheckSource, Cover, Freeze, Fault, Busy
<1>2. \E stage \in {"idle", "lease", "look", "read", "check", "cover", "reserve", "freeze"} :
          \E w : MoveTo(t, stage, w)
  BY DEF Call, Enter, Look, ReadRows, CheckSource, Cover, Freeze, Fault, Fails, Returns
<1>3. PICK stage \in {"idle", "lease", "look", "read", "check", "cover", "reserve", "freeze"} :
          \E w : MoveTo(t, stage, w)
  BY <1>2
<1>4. /\ at'[t] \notin Busy
      /\ \A g \in Resolvers : g # t => at'[g] = at[g] /\ work'[g] = work[g]
  BY <1>3, MovesOne DEF Busy
<1> QED BY <1>1, <1>4, NothingPaid

\* Every step keeps the budget balanced.
LEMMA BudgetKept ==
  ASSUME MarketInv, MarketInv', BudgetInv, [MarketNext]_marketVars
  PROVE  BudgetInv'
<1>1. CASE Commit \/ UNCHANGED marketVars
  <2>1. UNCHANGED <<at, work, used, reserved, slots, sent>>
    BY <1>1 DEF Commit, budget, marketVars
  <2>2. \A q : Shares(q)' = Shares(q) /\ Costs(q)' = Costs(q) /\ Seats(q)' = Seats(q)
    BY <2>1 DEF Shares, Costs, Seats
  <2>3. \A q \in Runs : Balanced(q)'
    <3> SUFFICES ASSUME NEW q \in Runs PROVE Balanced(q)'
      OBVIOUS
    <3>1. Balanced(q)
      BY DEF BudgetInv
    <3>2. /\ Tokens(Shares(q))' = Tokens(Shares(q)) /\ Tokens(Seats(q))' = Tokens(Seats(q))
          /\ Total(Shares(q))' = Total(Shares(q)) /\ Total(Seats(q))' = Total(Seats(q))
          /\ Total(Costs(q))' = Total(Costs(q))
      BY <2>2
    <3> QED BY <2>1, <3>1, <3>2 DEF Balanced
  <2> QED BY <2>1, <2>3 DEF BudgetInv, BudgetTyped, Charged
<1>2. ASSUME NEW t \in Resolvers, Call(t) \/ Resolve(t) \/ Fault(t)
      PROVE  BudgetInv'
  BY <1>2, UnpaidBudget, ReserveBudget, AcquireBudget, GatewayBudget, PersistBudget,
     SettleBudget DEF Resolve
<1>3. ASSUME NEW run \in Runs, Crash(run)
      PROVE  BudgetInv'
  BY <1>3, CrashBudget
<1> QED BY <1>1, <1>2, <1>3 DEF MarketNext

\* At first nothing is reserved, used or sent.
LEMMA BudgetStarts == MarketInit => BudgetInv
<1> SUFFICES ASSUME MarketInit PROVE BudgetInv
  OBVIOUS
<1>1. /\ \A t \in Resolvers : at[t] = "idle"
      /\ \A run \in Runs : used[run] = 0 /\ reserved[run] = 0 /\ slots[run] = 0 /\ sent[run] = 0
      /\ BudgetTyped /\ MaxRequests \in Nat /\ MaxConcurrency \in Nat
  BY MarketConstants DEF MarketInit, BudgetTyped
<1>2. Charged
  BY <1>1 DEF Charged, Busy
<1>3. ASSUME NEW run \in Runs
      PROVE  Balanced(run)
  <2>1. \A s \in Resolvers : Shares(run)[s] = 0 /\ Costs(run)[s] = 0 /\ Seats(run)[s] = 0
    BY <1>1 DEF Shares, Costs, Seats, Busy
  <2>2. /\ Shares(run) \in [Resolvers -> Int] /\ Costs(run) \in [Resolvers -> Int]
        /\ Seats(run) \in [Resolvers -> Int]
    BY <2>1 DEF Shares, Costs, Seats
  <2>3. /\ IsFiniteSet(Tokens(Shares(run))) /\ IsFiniteSet(Tokens(Seats(run)))
        /\ Total(Shares(run)) = 0 /\ Total(Seats(run)) = 0 /\ Total(Costs(run)) = 0
    BY <2>1, <2>2, NoTokens
  <2> QED BY <1>1, <2>3 DEF Balanced
<1> QED BY <1>1, <1>2, <1>3 DEF BudgetInv

\* The budget is balanced at all times.
LEMMA BudgetHolds == MarketSpec => [](MarketInv /\ BudgetInv)
<1>1. MarketInv /\ MarketInv' /\ BudgetInv /\ [MarketNext]_marketVars => BudgetInv'
  BY BudgetKept
<1> QED BY <1>1, BudgetStarts, MarketHolds, PTL DEF MarketSpec

\* A run never sends more attempts than its cap, however many threads share the
\* budget and whatever a provider fails to report (MarketRequestBudget).
THEOREM WithinCap == MarketSpec => []CapHolds
<1>1. MarketInv /\ BudgetInv => CapHolds
  <2> SUFFICES ASSUME MarketInv, BudgetInv, NEW r \in Runs
               PROVE  sent[r] <= MaxRequests
    BY DEF CapHolds
  <2>1. Balanced(r) /\ Charged /\ WorkTyped
    BY DEF BudgetInv, MarketInv
  <2>2. /\ Shares(r) \in [Resolvers -> Int] /\ Costs(r) \in [Resolvers -> Int]
        /\ \A s \in Resolvers : Costs(r)[s] <= Shares(r)[s]
    BY <2>1 DEF WorkTyped, Tasks, Charged, Shares, Costs, Busy
  <2>3. Tokens(Costs(r)) \subseteq Tokens(Shares(r))
    BY <2>2, FewerTokens
  <2>4. /\ IsFiniteSet(Tokens(Costs(r))) /\ Total(Costs(r)) <= Total(Shares(r))
    BY <2>1, <2>3, FS_Subset DEF Balanced, Total
  <2>5. Total(Costs(r)) \in Nat /\ Total(Shares(r)) \in Nat
    BY <2>1, <2>4, TotalType DEF Balanced
  <2>6. /\ sent[r] \in Nat /\ used[r] \in Nat /\ sent[r] <= used[r] + Total(Costs(r))
        /\ used[r] + Total(Shares(r)) <= MaxRequests /\ MaxRequests \in Nat
    BY <2>1, MarketConstants DEF Balanced
  <2> QED BY <2>4, <2>5, <2>6
<1> QED BY <1>1, BudgetHolds, PTL

\* A run none of whose threads has a request under way has no attempt set aside
\* and no slot taken (_controlled_gateway_fallback_v2's except and finally).
THEOREM NoLeak == MarketSpec => []NothingLeaks
<1>1. MarketInv /\ BudgetInv => NothingLeaks
  <2> SUFFICES ASSUME MarketInv, BudgetInv, NEW r \in Runs, UnderWay(r) = {}
               PROVE  reserved[r] = 0 /\ slots[r] = 0
    BY DEF NothingLeaks
  <2>1. \A s \in Resolvers : Shares(r)[s] = 0 /\ Seats(r)[s] = 0
    BY DEF UnderWay, Shares, Seats, Busy
  <2>2. Shares(r) \in [Resolvers -> Int] /\ Seats(r) \in [Resolvers -> Int]
    BY <2>1 DEF Shares, Seats
  <2>3. Total(Shares(r)) = 0 /\ Total(Seats(r)) = 0
    BY <2>1, <2>2, NoTokens
  <2> QED BY <2>3 DEF BudgetInv, Balanced
<1> QED BY <1>1, BudgetHolds, PTL

\* Every variable of the market cache keeps its type: budgets count attempts and
\* slots, and none is ever negative or over its cap.
THEOREM MarketTyped == MarketSpec => []MarketTypes
<1> DEFINE Bounded == calls \in 0 .. MaxCalls /\ faults \in 0 .. MaxFaults
<1>1. MarketInit => Bounded
  BY MarketConstants DEF MarketInit
<1>2. Bounded /\ [MarketNext]_marketVars => Bounded'
  <2> SUFFICES ASSUME Bounded, [MarketNext]_marketVars PROVE Bounded'
    OBVIOUS
  <2>1. /\ calls' = calls \/ (calls < MaxCalls /\ calls' = calls + 1)
        /\ faults' = faults \/ (faults < MaxFaults /\ faults' = faults + 1)
    BY DEF MarketNext, Resolve, Commit, Call, Enter, Look, ReadRows, CheckSource, Cover,
       Reserve, Acquire, Gateway, Persist, Settle, Freeze, Fault, Crash, marketVars
  <2> QED BY <2>1, MarketConstants
<1>3. MarketInv /\ BudgetInv /\ Bounded => MarketTypes
  <2> SUFFICES ASSUME MarketInv, BudgetInv, Bounded PROVE MarketTypes
    OBVIOUS
  <2>1. WorkTyped /\ BudgetTyped
    BY DEF MarketInv, BudgetInv
  <2>2. \A run \in Runs : /\ used[run] \in Nat /\ reserved[run] \in Nat
                          /\ slots[run] \in 0 .. MaxConcurrency /\ sent[run] \in Nat
    <3> SUFFICES ASSUME NEW run \in Runs
                 PROVE  /\ used[run] \in Nat /\ reserved[run] \in Nat
                        /\ slots[run] \in 0 .. MaxConcurrency /\ sent[run] \in Nat
      OBVIOUS
    <3>1. slots[run] <= MaxConcurrency /\ MaxConcurrency \in Nat
      BY MarketConstants DEF BudgetInv, Balanced
    <3> QED BY <3>1, CapacityType
  <2>3. /\ used \in [Runs -> Nat] /\ reserved \in [Runs -> Nat]
        /\ slots \in [Runs -> 0 .. MaxConcurrency] /\ sent \in [Runs -> Nat]
    BY <2>1, <2>2 DEF WorkTyped, BudgetTyped
  <2> QED BY <2>1, <2>3 DEF WorkTyped, MarketTypes
<1> QED BY <1>1, <1>2, <1>3, BudgetHolds, PTL DEF MarketSpec
=============================================================================
