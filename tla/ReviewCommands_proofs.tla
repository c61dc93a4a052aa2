------------------------ MODULE ReviewCommands_proofs ------------------------
(***************************************************************************)
(* Proofs about ReviewCommands: what an answer has reported as stored is   *)
(* stored, the effective fee correction is one that nothing visible        *)
(* supersedes, one process keeps a chain of revisions valid, and types.    *)
(*                                                                         *)
(* Rows and files are only ever added, and ids are unique.  A correction   *)
(* on its way to the INSERT names a parent that is there; since nothing    *)
(* else can get that id, what was checked against the parent still holds   *)
(* when the row is inserted, though no lock was held.                      *)
(*                                                                         *)
(* The chain of revisions does need its lock: what a thread has read as    *)
(* the last revision still is the last when the next one is made, because  *)
(* nobody of its process has written meanwhile, and nobody else has ever.  *)
(*                                                                         *)
(* The last part is about the services side by side, as they are checked.  *)
(***************************************************************************)
EXTENDS MCServices, MarketCache_proofs, PeriodicReports_proofs, ReviewRun_proofs,
        FiniteSetTheorems, TLAPS

Shapes ==
    /\ place \in [Handlers -> Places]
    /\ job = [h \in Handlers |-> job[h]]

Stores ==
    fees \cup {[revision |-> r] : r \in revisions} \cup decisions \cup links

OnlyAdded ==
    /\ fees \subseteq fees' /\ revisions \subseteq revisions'
    /\ decisions \subseteq decisions' /\ links \subseteq links'

\* A revision that is about to be verified has been written.
Written ==
    \A h \in Handlers : place[h] = "verify" => Revision(h) \in revisions

AnswerInv == Shapes /\ Written /\ AnswersStayTrue

-----------------------------------------------------------------------------
LEMMA StoresGrow == ASSUME OnlyAdded PROVE Stores \subseteq Stores'
  BY DEF OnlyAdded, Stores

\* Every step only adds to what is stored.
LEMMA NothingRemoved == ASSUME [CommandNext]_commandVars PROVE OnlyAdded
<1>1. ASSUME NEW h \in Handlers, Receive(h) \/ Die(h) PROVE OnlyAdded
  BY <1>1 DEF Receive, Die, OnlyAdded, files
<1>2. ASSUME NEW h \in Handlers, Correct(h) PROVE OnlyAdded
  BY <1>2 DEF Correct, CheckParent, FindCorrection, CheckCurrent, InsertCorrection,
     ReadChain, WriteRevision, VerifyRevision, OnlyAdded, files
<1>3. ASSUME NEW h \in Handlers, Decide(h) PROVE OnlyAdded
  BY <1>3 DEF Decide, FindDecision, AddDecision, ReadDecision, ListLinks, CreateLink,
     OnlyAdded, files
<1>4. CASE UNCHANGED commandVars
  BY <1>4 DEF commandVars, OnlyAdded
<1>5. QED
  BY <1>1, <1>2, <1>3, <1>4 DEF CommandNext

\* One thread gets a place and a job; the others keep theirs.
LEMMA OneMoves ==
  ASSUME Shapes, NEW h \in Handlers, NEW s \in Places, NEW j,
         place' = [place EXCEPT ![h] = s], job' = [job EXCEPT ![h] = j]
  PROVE  /\ Shapes' /\ place'[h] = s /\ job'[h] = j
         /\ \A g \in Handlers \ {h} : place'[g] = place[g] /\ job'[g] = job[g]
<1>1. DOMAIN job = Handlers
  BY DEF Shapes
<1>2. job' = [g \in Handlers |-> IF g = h THEN j ELSE job[g]]
  BY <1>1
<1>3. place' = [g \in Handlers |-> IF g = h THEN s ELSE place[g]]
  BY DEF Shapes
<1>4. place' \in [Handlers -> Places]
  BY <1>3 DEF Shapes
<1>5. job' = [g \in Handlers |-> job'[g]]
  BY <1>2
<1>6. QED
  BY <1>2, <1>3, <1>4, <1>5 DEF Shapes

\* The pieces of the actions, as moves.
LEMMA GoOnMoves ==
  ASSUME Shapes, NEW h \in Handlers, NEW s \in Places, GoOn(h, s)
  PROVE  /\ Shapes' /\ place'[h] = s /\ job' = job /\ acked' = acked
         /\ \A g \in Handlers \ {h} : place'[g] = place[g]
  BY DEF GoOn, Shapes

LEMMA ReturnMoves ==
  ASSUME Shapes, NEW h \in Handlers, Return(h)
  PROVE  /\ Shapes' /\ place'[h] = "idle"
         /\ \A g \in Handlers \ {h} : place'[g] = place[g] /\ job'[g] = job[g]
<1>1. "idle" \in Places
  BY DEF Places
<1>2. QED
  BY <1>1, OneMoves DEF Return

-----------------------------------------------------------------------------
(* Answers *)

\* A thread that does not come to be verifying leaves Written and the answers,
\* if it reports nothing or what is stored.
LEMMA AnswerInvKeptBy ==
  ASSUME AnswerInv, OnlyAdded, Shapes', NEW h \in Handlers,
         place'[h] = "verify" => (Revision(h) \in revisions)',
         \A g \in Handlers \ {h} : place'[g] = place[g] /\ job'[g] = job[g],
         \/ acked' = acked
         \/ \E x \in Stores' : acked' = acked \cup {x}
  PROVE  AnswerInv'
<1>1. Written'
  <2>1. SUFFICES ASSUME NEW g \in Handlers, place'[g] = "verify"
                 PROVE  (Revision(g) \in revisions)'
    BY DEF Written
  <2>2. CASE g = h
    BY <2>1, <2>2
  <2>3. CASE g # h
    BY <2>1, <2>3 DEF AnswerInv, Written, Revision, OnlyAdded
  <2>4. QED
    BY <2>2, <2>3
<1>2. AnswersStayTrue'
  <2>1. acked \subseteq Stores /\ Stores \subseteq Stores'
    BY StoresGrow DEF AnswerInv, AnswersStayTrue, Stores
  <2>2. acked' \subseteq Stores'
    BY <2>1
  <2>3. QED
    BY <2>2 DEF AnswersStayTrue, Stores
<1>3. QED
  BY <1>1, <1>2 DEF AnswerInv

LEMMA RefusalKeeps ==
  ASSUME AnswerInv, OnlyAdded, NEW h \in Handlers, Refuse(h)
  PROVE  AnswerInv'
<1>1. acked' = acked
  BY DEF Refuse
<1>2. QED
  BY <1>1, ReturnMoves, AnswerInvKeptBy DEF AnswerInv, Refuse

LEMMA TruthKeeps ==
  ASSUME AnswerInv, OnlyAdded, NEW h \in Handlers, NEW x \in Stores', Answer(h, x)
  PROVE  AnswerInv'
<1>1. acked' = acked \cup {x}
  BY DEF Answer
<1>2. QED
  BY <1>1, ReturnMoves, AnswerInvKeptBy DEF AnswerInv, Answer

LEMMA GoingOnKeeps ==
  ASSUME AnswerInv, OnlyAdded, NEW h \in Handlers, NEW s \in Places \ {"verify"}, GoOn(h, s)
  PROVE  AnswerInv'
  BY GoOnMoves, AnswerInvKeptBy DEF AnswerInv

LEMMA ReplayKeeps ==
  ASSUME AnswerInv, OnlyAdded, NEW h \in Handlers, Replay(h)
  PROVE  AnswerInv'
  BY RefusalKeeps, TruthKeeps DEF Replay, OnlyAdded, Stores

LEMMA AnswerInvOfRequests ==
  ASSUME AnswerInv, OnlyAdded, NEW h \in Handlers, Receive(h) \/ Die(h)
  PROVE  AnswerInv'
<1>1. CASE Receive(h)
  <2>1. PICK j \in FeeJobs \cup ReviewJobs \cup DecisionJobs \cup LinkJobs :
          job' = [job EXCEPT ![h] = j] /\ place' = [place EXCEPT ![h] = j.kind]
    BY <1>1 DEF Receive
  <2>2. j.kind \in Places \ {"verify"}
    BY DEF FeeJobs, ReviewJobs, DecisionJobs, LinkJobs, Places
  <2>3. acked' = acked
    BY <1>1 DEF Receive
  <2>4. QED
    BY <2>1, <2>2, <2>3, OneMoves, AnswerInvKeptBy DEF AnswerInv
<1>2. CASE Die(h)
  BY <1>2, RefusalKeeps DEF Die
<1>3. QED
  BY <1>1, <1>2

LEMMA AnswerInvOfFees ==
  ASSUME AnswerInv, OnlyAdded, NEW h \in Handlers,
         CheckParent(h) \/ FindCorrection(h) \/ CheckCurrent(h) \/ InsertCorrection(h)
  PROVE  AnswerInv'
<1>1. {"append", "supersede", "insert"} \subseteq Places \ {"verify"}
  BY DEF Places
<1>2. CASE CheckParent(h) \/ FindCorrection(h) \/ CheckCurrent(h)
  BY <1>1, <1>2, ReplayKeeps, RefusalKeeps, GoingOnKeeps
     DEF CheckParent, FindCorrection, CheckCurrent
<1>3. CASE InsertCorrection(h)
  <2>1. CASE Refuse(h)
    BY <2>1, RefusalKeeps
  <2>2. CASE Answer(h, job[h].row) /\ fees' = fees \cup {job[h].row}
    BY <2>2, TruthKeeps DEF Stores
  <2>3. QED
    BY <1>3, <2>1, <2>2 DEF InsertCorrection
<1>4. QED
  BY <1>2, <1>3

LEMMA AnswerInvOfReviews ==
  ASSUME AnswerInv, OnlyAdded, NEW h \in Handlers,
         ReadChain(h) \/ WriteRevision(h) \/ VerifyRevision(h)
  PROVE  AnswerInv'
<1>1. CASE ReadChain(h)
  BY <1>1, RefusalKeeps, GoingOnKeeps DEF ReadChain, Places
<1>2. CASE WriteRevision(h)
  <2>1. CASE Refuse(h)
    BY <2>1, RefusalKeeps
  <2>2. CASE GoOn(h, "verify") /\ revisions' = revisions \cup {Revision(h)}
    <3>1. "verify" \in Places
      BY DEF Places
    <3>2. /\ Shapes' /\ job' = job /\ acked' = acked
          /\ \A g \in Handlers \ {h} : place'[g] = place[g]
      BY <2>2, <3>1, GoOnMoves DEF AnswerInv
    <3>3. (Revision(h) \in revisions)'
      BY <2>2, <3>2 DEF Revision
    <3>4. QED
      BY <3>2, <3>3, AnswerInvKeptBy
  <2>3. QED
    BY <1>2, <2>1, <2>2 DEF WriteRevision
<1>3. CASE VerifyRevision(h)
  <2>1. Revision(h) \in revisions
    BY <1>3 DEF VerifyRevision, AnswerInv, Written
  <2>2. [revision |-> Revision(h)] \in Stores'
    BY <2>1 DEF OnlyAdded, Stores
  <2>3. QED
    BY <1>3, <2>2, RefusalKeeps, TruthKeeps DEF VerifyRevision
<1>4. QED
  BY <1>1, <1>2, <1>3

LEMMA AnswerInvOfDecisions ==
  ASSUME AnswerInv, OnlyAdded, NEW h \in Handlers, Decide(h)
  PROVE  AnswerInv'
<1>1. CASE FindDecision(h)
  BY <1>1, RefusalKeeps, GoingOnKeeps, TruthKeeps DEF FindDecision, Places, OnlyAdded, Stores
<1>2. CASE AddDecision(h)
  BY <1>2, RefusalKeeps, TruthKeeps DEF AddDecision, Stores
<1>3. CASE ReadDecision(h)
  BY <1>3, RefusalKeeps, GoingOnKeeps DEF ReadDecision, Places
<1>4. CASE ListLinks(h)
  <2>1. ASSUME NEW l \in LinkStored(h), Answer(h, l) PROVE AnswerInv'
    BY <2>1, TruthKeeps DEF LinkStored, OnlyAdded, Stores
  <2>2. QED
    BY <1>4, <2>1, GoingOnKeeps DEF ListLinks, Places
<1>5. CASE CreateLink(h)
  <2> DEFINE link == [id |-> job[h].id, by |-> h]
  <2>1. CASE links' = links \cup {link} /\ Answer(h, link)
    BY <2>1, TruthKeeps DEF Stores
  <2>2. ASSUME NEW l \in LinkStored(h), Answer(h, l) PROVE AnswerInv'
    BY <2>2, TruthKeeps DEF LinkStored, OnlyAdded, Stores
  <2>3. QED
    BY <1>5, <2>1, <2>2 DEF CreateLink
<1>6. QED
  BY <1>1, <1>2, <1>3, <1>4, <1>5 DEF Decide

\* What an answer has reported as stored stays stored, exactly as it was
\* reported: whatever is repeated, changed under the same id, or handled by two
\* processes at once (correct_fee, create_decision, link_decision, correct_review).
THEOREM AnswersTrue == CommandSpec => []AnswersStayTrue
<1>1. CommandInit => AnswerInv
  BY DEF CommandInit, AnswerInv, Shapes, Written, AnswersStayTrue, Places
<1>2. AnswerInv /\ [CommandNext]_commandVars => AnswerInv'
  <2> SUFFICES ASSUME AnswerInv, [CommandNext]_commandVars PROVE AnswerInv'
    OBVIOUS
  <2>1. OnlyAdded
    BY NothingRemoved
  <2>2. CASE UNCHANGED commandVars
    BY <2>2 DEF commandVars, AnswerInv, Shapes, Written, Revision, AnswersStayTrue
  <2>3. CASE CommandNext
    BY <2>1, <2>3, AnswerInvOfRequests, AnswerInvOfFees, AnswerInvOfReviews,
       AnswerInvOfDecisions DEF CommandNext, Correct
  <2>4. QED
    BY <2>2, <2>3
<1>3. AnswerInv => AnswersStayTrue
  BY DEF AnswerInv
<1>4. QED
  BY <1>1, <1>2, <1>3, PTL DEF CommandSpec
-----------------------------------------------------------------------------
(* Fee corrections *)

FeeStages == {"fee", "append", "supersede", "insert"}

HasParent(row) == row.supersedes \in {None} \cup {x.id : x \in fees}

\* The rows: an id is of one row, a parent is there and is not later.
FeeChain ==
    /\ fees \subseteq FeeRow
    /\ \A x, y \in fees : x.id = y.id => x = y
    /\ \A y \in fees : HasParent(y)
    /\ \A x, y \in fees : y.supersedes = x.id =>
          x # y /\ y.effective >= x.effective /\ y.known >= x.known

\* The requests on their way.
FeeRequest(s, row) ==
    /\ s \in FeeStages => row \in FeeRow /\ HasParent(row)
    /\ s = "insert" => Follows(row)

CorrectionInv == Shapes /\ FeeChain /\ \A h \in Handlers : FeeRequest(place[h], job[h].row)

\* A thread moves and the rows stay.
LEMMA CorrectionInvKeptBy ==
  ASSUME CorrectionInv, Shapes', fees' = fees, NEW h \in Handlers,
         FeeRequest(place'[h], job'[h].row),
         \A g \in Handlers \ {h} : place'[g] = place[g] /\ job'[g] = job[g]
  PROVE  CorrectionInv'
<1>1. \A g \in Handlers : FeeRequest(place'[g], job'[g].row)
  BY DEF CorrectionInv
<1>2. (\A g \in Handlers : FeeRequest(place[g], job[g].row))'
  BY <1>1 DEF FeeRequest, HasParent, Follows
<1>3. FeeChain'
  BY DEF CorrectionInv, FeeChain, HasParent
<1>4. QED
  BY <1>2, <1>3 DEF CorrectionInv

LEMMA FeeInvAtReturn ==
  ASSUME CorrectionInv, fees' = fees, NEW h \in Handlers, Return(h)
  PROVE  CorrectionInv'
<1>1. /\ Shapes' /\ place'[h] = "idle"
      /\ \A g \in Handlers \ {h} : place'[g] = place[g] /\ job'[g] = job[g]
  BY ReturnMoves DEF CorrectionInv
<1>2. FeeRequest(place'[h], job'[h].row)
  BY <1>1 DEF FeeRequest, FeeStages
<1>3. QED
  BY <1>1, <1>2, CorrectionInvKeptBy

LEMMA FeeInvAtGoOn ==
  ASSUME CorrectionInv, fees' = fees, NEW h \in Handlers, NEW s \in Places, GoOn(h, s),
         FeeRequest(s, job[h].row)
  PROVE  CorrectionInv'
<1>1. /\ Shapes' /\ place'[h] = s /\ job' = job
      /\ \A g \in Handlers \ {h} : place'[g] = place[g]
  BY GoOnMoves DEF CorrectionInv
<1>2. QED
  BY <1>1, CorrectionInvKeptBy

LEMMA FeeInvAtReceive ==
  ASSUME CorrectionInv, NEW h \in Handlers, Receive(h)
  PROVE  CorrectionInv'
<1>1. PICK j \in FeeJobs \cup ReviewJobs \cup DecisionJobs \cup LinkJobs :
        job' = [job EXCEPT ![h] = j] /\ place' = [place EXCEPT ![h] = j.kind]
  BY DEF Receive
<1>2. j.kind \in Places /\ j.kind # "insert"
  BY DEF FeeJobs, ReviewJobs, DecisionJobs, LinkJobs, Places
<1>3. j.kind \in FeeStages => j.row \in FeeRow /\ HasParent(j.row)
  BY DEF FeeJobs, ReviewJobs, DecisionJobs, LinkJobs, FeeStages, HasParent
<1>4. /\ Shapes' /\ place'[h] = j.kind /\ job'[h] = j
      /\ \A g \in Handlers \ {h} : place'[g] = place[g] /\ job'[g] = job[g]
  BY <1>1, <1>2, OneMoves DEF CorrectionInv
<1>5. FeeRequest(place'[h], job'[h].row)
  BY <1>2, <1>3, <1>4 DEF FeeRequest
<1>6. QED
  BY <1>4, <1>5, CorrectionInvKeptBy DEF Receive

LEMMA FeeInvAtChecks ==
  ASSUME CorrectionInv, NEW h \in Handlers,
         CheckParent(h) \/ FindCorrection(h) \/ CheckCurrent(h)
  PROVE  CorrectionInv'
<1>1. fees' = fees
  BY DEF CheckParent, FindCorrection, CheckCurrent
<1>2. job[h].row \in FeeRow /\ HasParent(job[h].row)
  BY DEF CorrectionInv, FeeRequest, FeeStages, CheckParent, FindCorrection, CheckCurrent
<1>3. CASE Return(h)
  BY <1>1, <1>3, FeeInvAtReturn
<1>4. CASE GoOn(h, "append") \/ GoOn(h, "supersede")
  <2>1. /\ {"append", "supersede"} \subseteq Places
        /\ FeeRequest("append", job[h].row) /\ FeeRequest("supersede", job[h].row)
    BY <1>2 DEF Places, FeeRequest
  <2>2. QED
    BY <1>1, <1>4, <2>1, FeeInvAtGoOn
<1>5. CASE GoOn(h, "insert") /\ Follows(job[h].row)
  <2>1. "insert" \in Places /\ FeeRequest("insert", job[h].row)
    BY <1>2, <1>5 DEF Places, FeeRequest
  <2>2. QED
    BY <1>1, <1>5, <2>1, FeeInvAtGoOn
<1>6. QED
  BY <1>3, <1>4, <1>5
     DEF CheckParent, FindCorrection, CheckCurrent, Replay, Answer, Refuse

\* The INSERT: the new row's id is nobody's parent yet, so what was checked
\* against the parents of all rows and requests goes on to hold.
LEMMA FeeInvAtInsert ==
  ASSUME CorrectionInv, NEW h \in Handlers, InsertCorrection(h)
  PROVE  CorrectionInv'
<1> DEFINE r == job[h].row
<1>1. CASE Refuse(h) /\ UNCHANGED fees
  BY <1>1, FeeInvAtReturn DEF Refuse
<1>2. CASE ~ Stored(h) /\ Return(h) /\ fees' = fees \cup {r}
  <2>1. r \in FeeRow /\ HasParent(r) /\ Follows(r)
    BY DEF InsertCorrection, CorrectionInv, FeeRequest, FeeStages
  <2>2. r.id # None /\ \A x \in fees : x.id # r.id
    BY <1>2, <2>1, CommandConstants DEF Stored, FeeRow
  <2>3. \A row : HasParent(row) => row.supersedes # r.id
    BY <2>2 DEF HasParent
  <2>4. \A row : HasParent(row) => HasParent(row)'
    BY <1>2 DEF HasParent
  <2> HIDE DEF r
  <2>5. FeeChain'
    <3>1. fees' \subseteq FeeRow /\ \A x, y \in fees' : x.id = y.id => x = y
      BY <1>2, <2>1, <2>2 DEF CorrectionInv, FeeChain
    <3>2. \A y \in fees' : HasParent(y)'
      BY <1>2, <2>1, <2>4 DEF CorrectionInv, FeeChain
    <3>3. ASSUME NEW x \in fees', NEW y \in fees', y.supersedes = x.id
          PROVE  x # y /\ y.effective >= x.effective /\ y.known >= x.known
      <4>1. HasParent(y)
        BY <1>2, <2>1 DEF CorrectionInv, FeeChain
      <4>2. x \in fees
        BY <1>2, <2>3, <3>3, <4>1
      <4>3. CASE y = r
        BY <2>1, <2>2, <3>3, <4>2, <4>3 DEF Follows
      <4>4. CASE y # r
        BY <1>2, <3>3, <4>2, <4>4 DEF CorrectionInv, FeeChain
      <4>5. QED
        BY <4>3, <4>4
    <3>4. QED
      BY <3>1, <3>2, <3>3 DEF FeeChain
  <2>6. /\ Shapes' /\ place'[h] = "idle"
        /\ \A g \in Handlers \ {h} : place'[g] = place[g] /\ job'[g] = job[g]
    BY <1>2, ReturnMoves DEF CorrectionInv
  <2>7. ASSUME NEW g \in Handlers PROVE FeeRequest(place[g], job[g].row)'
    <3>1. CASE g = h
      BY <2>6, <3>1 DEF FeeRequest, FeeStages
    <3>2. CASE g # h
      <4>1. place'[g] = place[g] /\ job'[g] = job[g] /\ FeeRequest(place[g], job[g].row)
        BY <2>6, <3>2 DEF CorrectionInv
      <4>2. ASSUME place[g] \in FeeStages
            PROVE  job[g].row.supersedes \in {None} \cup {x.id : x \in fees'}
        BY <1>2, <4>1, <4>2 DEF FeeRequest, HasParent
      <4>3. ASSUME place[g] = "insert", NEW x \in fees', x.id = job[g].row.supersedes
            PROVE  job[g].row.effective >= x.effective /\ job[g].row.known >= x.known
        <5>1. HasParent(job[g].row) /\ Follows(job[g].row)
          BY <4>1, <4>3 DEF FeeRequest, FeeStages
        <5>2. x \in fees
          BY <1>2, <2>3, <4>3, <5>1
        <5>3. QED
          BY <4>3, <5>1, <5>2 DEF Follows
      <4>4. QED
        BY <4>1, <4>2, <4>3 DEF FeeRequest, HasParent, Follows
    <3>3. QED
      BY <3>1, <3>2
  <2>8. QED
    BY <2>5, <2>6, <2>7 DEF CorrectionInv
<1>3. QED
  BY <1>1, <1>2 DEF InsertCorrection, Answer

\* Of the other commands, no thread comes to a fee stage.
LEMMA FeeInvElsewhere ==
  ASSUME CorrectionInv, NEW h \in Handlers,
         \/ Die(h) \/ Decide(h)
         \/ ReadChain(h) \/ WriteRevision(h) \/ VerifyRevision(h)
  PROVE  CorrectionInv'
<1>1. fees' = fees
  BY DEF Die, Decide, FindDecision, AddDecision, ReadDecision, ListLinks, CreateLink,
     ReadChain, WriteRevision, VerifyRevision
<1>2. \/ Return(h)
      \/ \E s \in Places \ FeeStages : GoOn(h, s)
  BY DEF Die, Decide, FindDecision, AddDecision, ReadDecision, ListLinks, CreateLink,
     ReadChain, WriteRevision, VerifyRevision, Answer, Refuse, Places, FeeStages
<1>3. \A s \in Places \ FeeStages : FeeRequest(s, job[h].row)
  BY DEF FeeRequest, FeeStages
<1>4. QED
  BY <1>1, <1>2, <1>3, FeeInvAtReturn, FeeInvAtGoOn

\* The invariant of the rows and the requests.
LEMMA FeeHolds == CommandSpec => []CorrectionInv
<1>1. CommandInit => CorrectionInv
  BY DEF CommandInit, CorrectionInv, Shapes, FeeChain, FeeRequest, FeeStages, Places
<1>2. CorrectionInv /\ [CommandNext]_commandVars => CorrectionInv'
  <2> SUFFICES ASSUME CorrectionInv, [CommandNext]_commandVars PROVE CorrectionInv'
    OBVIOUS
  <2>1. CASE UNCHANGED commandVars
    BY <2>1 DEF commandVars, CorrectionInv, Shapes, FeeChain, FeeRequest, HasParent, Follows
  <2>2. CASE CommandNext
    BY <2>2, FeeInvAtReceive, FeeInvAtChecks, FeeInvAtInsert, FeeInvElsewhere
       DEF CommandNext, Correct
  <2>3. QED
    BY <2>1, <2>2
<1>3. QED
  BY <1>1, <1>2, PTL DEF CommandSpec

\* A parent is not later than the row that supersedes it, and the newest is later
\* than everything else that is visible.
LEMMA ChainOrdersFees == ASSUME CorrectionInv PROVE EffectiveFeeIsLast
<1> SUFFICES ASSUME CorrectionInv, NEW asOf \in Times, NEW cutoff \in Times,
                    NEW x \in Newest(Visible(asOf, cutoff)),
                    NEW y \in Visible(asOf, cutoff), y.supersedes = x.id
             PROVE  FALSE
  BY DEF EffectiveFeeIsLast
<1>1. x \in fees /\ y \in fees
  BY DEF Newest, Visible
<1>2. x # y /\ y.effective >= x.effective /\ y.known >= x.known
  BY <1>1 DEF CorrectionInv, FeeChain
<1>3. Later(x, y)
  BY <1>2 DEF Newest
<1>4. /\ x.effective \in Nat /\ x.known \in Nat
      /\ y.effective \in Nat /\ y.known \in Nat
  BY <1>1, CommandConstants DEF CorrectionInv, FeeChain, FeeRow
<1>5. QED
  BY <1>2, <1>3, <1>4 DEF Later

\* As of every time and knowledge cutoff the effective fee correction is one that
\* nothing visible supersedes, however corrections were interleaved
\* (append_fee_correction, get_effective_fee).
THEOREM LastFeeEffective == CommandSpec => []EffectiveFeeIsLast
  BY FeeHolds, ChainOrdersFees, PTL

-----------------------------------------------------------------------------
(* The chain of revisions.  A thread reads the chain and writes the next    *)
(* revision under the lock of its process.  If nobody outside the process   *)
(* has written in between, what it read as the last still is the last.      *)

AtReview == {"review", "write", "verify"}
AtChain == {"write", "verify"}

\* Who works on a review names a revision that is there.
ReviewRequest(s, j) ==
    s \in AtReview => j.parent \in revisions /\ j.id \in ReviewRequests

OneAtATime ==
    \A g, h \in Handlers :
        g # h /\ ProcessOf[g] = ProcessOf[h] /\ place[g] \in AtChain =>
            place[h] \notin AtChain

\* What a thread is about to follow is the last, unless another process wrote.
IsLast(h) ==
    place[h] = "write" /\ writers \subseteq {ProcessOf[h]} =>
        \A t \in revisions : Len(t) <= Len(job[h].parent)

Chain ==
    /\ revisions \subseteq Seq(ReviewRequests)
    /\ \E s \in revisions : \A t \in revisions : Len(t) <= Len(s)
    /\ IsFiniteSet(writers)
    /\ (\A p, q \in writers : p = q) => ChainValid

ChainInv ==
    /\ Shapes /\ Chain /\ OneAtATime
    /\ \A h \in Handlers : ReviewRequest(place[h], job[h]) /\ IsLast(h)

\* A thread moves, and no revision is written.
LEMMA ChainKeptBy ==
  ASSUME ChainInv, Shapes', UNCHANGED <<revisions, writers>>, NEW h \in Handlers,
         \A g \in Handlers \ {h} : place'[g] = place[g] /\ job'[g] = job[g],
         ReviewRequest(place'[h], job'[h]), IsLast(h)',
         place'[h] \in AtChain => place[h] \in AtChain \/ RevisionLockFree(h)
  PROVE  ChainInv'
<1>1. Chain'
  BY DEF ChainInv, Chain, ChainValid
<1>2. OneAtATime'
  <2> SUFFICES ASSUME NEW f \in Handlers, NEW g \in Handlers, f # g,
                      ProcessOf[f] = ProcessOf[g], place'[f] \in AtChain,
                      place'[g] \in AtChain
               PROVE  FALSE
    BY DEF OneAtATime
  <2>1. CASE f = h
    BY <2>1 DEF ChainInv, OneAtATime, RevisionLockFree, AtChain
  <2>2. CASE g = h
    BY <2>2 DEF ChainInv, OneAtATime, RevisionLockFree, AtChain
  <2>3. CASE f # h /\ g # h
    BY <2>3 DEF ChainInv, OneAtATime
  <2> QED BY <2>1, <2>2, <2>3
<1>3. \A g \in Handlers : (ReviewRequest(place[g], job[g]) /\ IsLast(g))'
  BY DEF ChainInv, ReviewRequest, IsLast
<1> QED BY <1>1, <1>2, <1>3 DEF ChainInv

\* A thread that is not at a review afterwards.
LEMMA ChainLeft ==
  ASSUME ChainInv, Shapes', UNCHANGED <<revisions, writers>>, NEW h \in Handlers,
         \A g \in Handlers \ {h} : place'[g] = place[g] /\ job'[g] = job[g],
         place'[h] \notin AtReview
  PROVE  ChainInv'
<1>1. ReviewRequest(place'[h], job'[h]) /\ IsLast(h)' /\ place'[h] \notin AtChain
  BY DEF ReviewRequest, IsLast, AtReview, AtChain
<1> QED BY <1>1, ChainKeptBy

LEMMA ChainAtReturn ==
  ASSUME ChainInv, UNCHANGED <<revisions, writers>>, NEW h \in Handlers, Return(h)
  PROVE  ChainInv'
<1>1. /\ Shapes' /\ place'[h] = "idle"
      /\ \A g \in Handlers \ {h} : place'[g] = place[g] /\ job'[g] = job[g]
  BY ReturnMoves DEF ChainInv
<1> QED BY <1>1, ChainLeft DEF AtReview

LEMMA ChainAtGoOn ==
  ASSUME ChainInv, UNCHANGED <<revisions, writers>>, NEW h \in Handlers,
         NEW s \in Places \ AtReview, GoOn(h, s)
  PROVE  ChainInv'
<1>1. /\ Shapes' /\ place'[h] = s /\ job' = job
      /\ \A g \in Handlers \ {h} : place'[g] = place[g]
  BY GoOnMoves DEF ChainInv
<1> QED BY <1>1, ChainLeft

LEMMA ChainAtReceive ==
  ASSUME ChainInv, NEW h \in Handlers, Receive(h)
  PROVE  ChainInv'
<1>1. PICK j \in FeeJobs \cup ReviewJobs \cup DecisionJobs \cup LinkJobs :
          job' = [job EXCEPT ![h] = j] /\ place' = [place EXCEPT ![h] = j.kind]
  BY DEF Receive
<1>2. /\ j.kind \in {"fee", "review", "decision", "link"}
      /\ j.kind = "review" => j.parent \in revisions /\ j.id \in ReviewRequests
  BY DEF FeeJobs, ReviewJobs, DecisionJobs, LinkJobs
<1>3. j.kind \in Places /\ j.kind \notin AtChain
  BY <1>2 DEF Places, AtChain
<1>4. UNCHANGED <<revisions, writers>>
  BY DEF Receive, files
<1>5. /\ Shapes' /\ place'[h] = j.kind /\ job'[h] = j
      /\ \A g \in Handlers \ {h} : place'[g] = place[g] /\ job'[g] = job[g]
  BY <1>1, <1>3, OneMoves DEF ChainInv
<1>6. ReviewRequest(place'[h], job'[h]) /\ IsLast(h)' /\ place'[h] \notin AtChain
  BY <1>2, <1>3, <1>5 DEF ReviewRequest, IsLast, AtReview, AtChain
<1> QED BY <1>4, <1>5, <1>6, ChainKeptBy

\* Requests that are about something else.
LEMMA ChainElsewhere ==
  ASSUME ChainInv, NEW h \in Handlers,
         Die(h) \/ CheckParent(h) \/ FindCorrection(h) \/ CheckCurrent(h)
            \/ InsertCorrection(h) \/ VerifyRevision(h) \/ Decide(h)
  PROVE  ChainInv'
<1>1. UNCHANGED <<revisions, writers>>
  BY DEF Die, CheckParent, FindCorrection, CheckCurrent, InsertCorrection, VerifyRevision,
     Decide, FindDecision, AddDecision, ReadDecision, ListLinks, CreateLink, files
<1>2. Return(h) \/ \E s \in {"append", "supersede", "insert", "add", "links", "create"} : GoOn(h, s)
  BY DEF Die, CheckParent, FindCorrection, CheckCurrent, InsertCorrection, VerifyRevision,
     Decide, FindDecision, AddDecision, ReadDecision, ListLinks, CreateLink, Replay, Refuse,
     Answer
<1>3. {"append", "supersede", "insert", "add", "links", "create"} \subseteq Places \ AtReview
  BY DEF Places, AtReview
<1> QED BY <1>1, <1>2, <1>3, ChainAtReturn, ChainAtGoOn

\* The chain is read under the lock, and its last is the one to follow.
LEMMA ChainAtRead ==
  ASSUME ChainInv, NEW h \in Handlers, ReadChain(h)
  PROVE  ChainInv'
<1>1. UNCHANGED <<revisions, writers>> /\ place[h] = "review" /\ RevisionLockFree(h)
  BY DEF ReadChain, files
<1>2. CASE ChainValid /\ Latest = job[h].parent /\ TargetThere(job[h].id, job[h].parent)
  <2>1. GoOn(h, "write")
    BY <1>2 DEF ReadChain
  <2>2. /\ Shapes' /\ place'[h] = "write" /\ job' = job
        /\ \A g \in Handlers \ {h} : place'[g] = place[g]
    BY <2>1, GoOnMoves DEF ChainInv, Places
  <2>3. \A t \in revisions : Len(t) <= Len(Latest)
    BY DEF ChainInv, Chain, Latest
  <2>4. IsLast(h)'
    BY <1>1, <1>2, <2>2, <2>3 DEF IsLast
  <2>5. ReviewRequest(place'[h], job'[h])
    BY <1>1, <2>2 DEF ChainInv, ReviewRequest, AtReview
  <2> QED BY <1>1, <2>2, <2>4, <2>5, ChainKeptBy
<1>3. CASE ~ (ChainValid /\ Latest = job[h].parent /\ TargetThere(job[h].id, job[h].parent))
  BY <1>1, <1>3, ChainAtReturn DEF ReadChain, Refuse
<1> QED BY <1>2, <1>3

\* The next revision is created.
LEMMA ChainAtWrite ==
  ASSUME ChainInv, NEW h \in Handlers, WriteRevision(h)
  PROVE  ChainInv'
<1>1. CASE Revision(h) \in revisions
  BY <1>1, ChainAtReturn DEF WriteRevision, Refuse
<1>2. CASE Revision(h) \notin revisions
  <2> DEFINE r == Revision(h)
             p == job[h].parent
  <2>1. /\ GoOn(h, "verify") /\ revisions' = revisions \cup {r}
        /\ writers' = writers \cup {ProcessOf[h]} /\ place[h] = "write"
    BY <1>2 DEF WriteRevision
  <2>2. /\ Shapes' /\ place'[h] = "verify" /\ job' = job
        /\ \A g \in Handlers \ {h} : place'[g] = place[g]
    BY <2>1, GoOnMoves DEF ChainInv, Places
  <2>3. revisions \subseteq Seq(ReviewRequests) /\ p \in revisions /\ job[h].id \in ReviewRequests
    BY <2>1 DEF ChainInv, Chain, ReviewRequest, AtReview
  <2>4. r \in Seq(ReviewRequests) /\ Len(r) = Len(p) + 1 /\ Len(p) \in Nat
    BY <2>3 DEF Revision
  <2> HIDE DEF r, p
  <2>5. \A t \in revisions : Len(t) \in Nat
    BY <2>3
  <2>6. \E s \in revisions' : \A t \in revisions' : Len(t) <= Len(s)
    <3>1. PICK s \in revisions : \A t \in revisions : Len(t) <= Len(s)
      BY DEF ChainInv, Chain
    <3>2. CASE Len(r) <= Len(s)
      BY <2>1, <3>1, <3>2
    <3>3. CASE ~ (Len(r) <= Len(s))
      <4>1. \A t \in revisions : Len(t) <= Len(r)
        BY <2>4, <2>5, <3>1, <3>3
      <4>2. Len(r) <= Len(r)
        BY <2>4
      <4> QED BY <2>1, <4>1, <4>2
    <3> QED BY <3>2, <3>3
  <2>7. IsFiniteSet(writers')
    BY <2>1, FS_AddElement DEF ChainInv, Chain
  <2>8. ASSUME \A x, y \in writers' : x = y
        PROVE  ChainValid'
    <3>1. writers \subseteq {ProcessOf[h]}
      BY <2>1, <2>8
    <3>2. \A t \in revisions : Len(t) <= Len(p)
      BY <2>1, <3>1 DEF ChainInv, IsLast, p
    <3>3. \A t \in revisions : Len(t) # Len(r)
      BY <2>4, <2>5, <3>2
    <3>4. \A s, t \in revisions : Len(s) = Len(t) => s = t
      BY <3>1 DEF ChainInv, Chain, ChainValid
    <3> QED BY <2>1, <3>3, <3>4 DEF ChainValid
  <2>9. revisions' \subseteq Seq(ReviewRequests)
    BY <2>1, <2>3, <2>4
  <2>10. Chain'
    BY <2>6, <2>7, <2>8, <2>9 DEF Chain
  <2>11. OneAtATime'
    BY <2>1, <2>2 DEF ChainInv, OneAtATime, AtChain
  <2>12. ASSUME NEW g \in Handlers
         PROVE  (ReviewRequest(place[g], job[g]) /\ IsLast(g))'
    <3>1. ReviewRequest(place[g], job[g])'
      BY <2>1, <2>2 DEF ChainInv, ReviewRequest, AtReview
    <3>2. IsLast(g)'
      <4> SUFFICES ASSUME place'[g] = "write", writers' \subseteq {ProcessOf[g]}
                   PROVE  FALSE
        BY DEF IsLast
      <4>1. g # h /\ place[g] = "write"
        BY <2>2
      <4>2. ProcessOf[g] = ProcessOf[h]
        BY <2>1
      <4> QED BY <2>1, <4>1, <4>2 DEF ChainInv, OneAtATime, AtChain
    <3> QED BY <3>1, <3>2
  <2> QED BY <2>2, <2>10, <2>11, <2>12 DEF ChainInv
<1> QED BY <1>1, <1>2

\* The invariant of the chain, its writers and who works on it.
LEMMA ChainHolds == CommandSpec => []ChainInv
<1>1. CommandInit => ChainInv
  <2> SUFFICES ASSUME CommandInit PROVE ChainInv
    OBVIOUS
  <2>1. Chain
    <3>1. revisions = {<<>>} /\ writers = {} /\ <<>> \in Seq(ReviewRequests) /\ Len(<<>>) = 0
      BY DEF CommandInit
    <3> QED BY <3>1, FS_EmptySet DEF Chain, ChainValid
  <2>2. \A h \in Handlers : place[h] = "idle"
    BY DEF CommandInit
  <2>3. Shapes
    BY DEF CommandInit, Shapes, Places
  <2> QED BY <2>1, <2>2, <2>3 DEF ChainInv, OneAtATime, ReviewRequest, IsLast, AtReview, AtChain
<1>2. ChainInv /\ [CommandNext]_commandVars => ChainInv'
  <2> SUFFICES ASSUME ChainInv, [CommandNext]_commandVars PROVE ChainInv'
    OBVIOUS
  <2>1. CASE UNCHANGED commandVars
    BY <2>1 DEF commandVars, ChainInv, Shapes, Chain, ChainValid, OneAtATime, ReviewRequest,
       IsLast
  <2>2. CASE CommandNext
    BY <2>2, ChainAtReceive, ChainElsewhere, ChainAtRead, ChainAtWrite DEF CommandNext, Correct
  <2> QED BY <2>1, <2>2
<1> QED BY <1>1, <1>2, PTL DEF CommandSpec

\* One writer at most is all writers being the same.
LEMMA OneWriter == ASSUME ChainInv PROVE OneProcessKeepsChain
<1> SUFFICES ASSUME ChainInv, Cardinality(writers) <= 1, NEW p \in writers,
                    NEW q \in writers, p # q
             PROVE  FALSE
  BY DEF OneProcessKeepsChain, ChainInv, Chain
<1>1. IsFiniteSet(writers)
  BY DEF ChainInv, Chain
<1>2. IsFiniteSet({p}) /\ Cardinality({p}) = 1
  BY FS_Singleton
<1>3. Cardinality({p} \cup {q}) = 2
  BY <1>2, FS_AddElement
<1>4. Cardinality({p} \cup {q}) <= Cardinality(writers) /\ Cardinality(writers) \in Nat
  BY <1>1, FS_Subset, FS_CardinalityType
<1> QED BY <1>3, <1>4

\* While one dashboard process writes the revisions of a review, its chain is
\* valid (correct_review, _review_chain).
THEOREM OneProcessChain == CommandSpec => []OneProcessKeepsChain
  BY ChainHolds, OneWriter, PTL

-----------------------------------------------------------------------------
(* Typing *)

\* Who decides or links names a request, and a decision says one of the notes.
DecisionRequest(s, j) ==
    /\ s \in {"decision", "add", "link", "links", "create"} => j.id \in Decisions
    /\ s \in {"decision", "add"} => j.note \in Notes

DecisionInv ==
    /\ Shapes
    /\ decisions \in SUBSET [id : Decisions, note : Notes]
    /\ links \in SUBSET [id : Decisions, by : Handlers]
    /\ \A h \in Handlers : DecisionRequest(place[h], job[h])

\* A thread moves, and only decisions and links of requests are stored.
LEMMA DecisionKeptBy ==
  ASSUME DecisionInv, Shapes', NEW h \in Handlers,
         \A g \in Handlers \ {h} : place'[g] = place[g] /\ job'[g] = job[g],
         DecisionRequest(place'[h], job'[h]),
         decisions' \in SUBSET [id : Decisions, note : Notes],
         links' \in SUBSET [id : Decisions, by : Handlers]
  PROVE  DecisionInv'
  BY DEF DecisionInv, DecisionRequest

LEMMA DecisionStep ==
  ASSUME DecisionInv, [CommandNext]_commandVars
  PROVE  DecisionInv'
<1>1. ASSUME NEW h \in Handlers, Receive(h)
      PROVE  DecisionInv'
  <2>1. PICK j \in FeeJobs \cup ReviewJobs \cup DecisionJobs \cup LinkJobs :
          job' = [job EXCEPT ![h] = j] /\ place' = [place EXCEPT ![h] = j.kind]
    BY <1>1 DEF Receive
  <2>2. j.kind \in Places /\ DecisionRequest(j.kind, j)
    BY DEF FeeJobs, ReviewJobs, DecisionJobs, LinkJobs, DecisionRequest, Places
  <2>3. /\ Shapes' /\ place'[h] = j.kind /\ job'[h] = j
        /\ \A g \in Handlers \ {h} : place'[g] = place[g] /\ job'[g] = job[g]
    BY <2>1, <2>2, OneMoves DEF DecisionInv
  <2>4. UNCHANGED <<decisions, links>>
    BY <1>1 DEF Receive, files
  <2> QED BY <2>2, <2>3, <2>4, DecisionKeptBy DEF DecisionInv
<1>2. ASSUME NEW h \in Handlers, Return(h),
             decisions' \in SUBSET [id : Decisions, note : Notes],
             links' \in SUBSET [id : Decisions, by : Handlers]
      PROVE  DecisionInv'
  <2>1. /\ Shapes' /\ place'[h] = "idle"
        /\ \A g \in Handlers \ {h} : place'[g] = place[g] /\ job'[g] = job[g]
    BY <1>2, ReturnMoves DEF DecisionInv
  <2>2. DecisionRequest(place'[h], job'[h])
    BY <2>1 DEF DecisionRequest
  <2> QED BY <1>2, <2>1, <2>2, DecisionKeptBy
<1>3. ASSUME NEW h \in Handlers, NEW s \in Places, GoOn(h, s), DecisionRequest(s, job[h]),
             UNCHANGED <<decisions, links>>
      PROVE  DecisionInv'
  <2>1. /\ Shapes' /\ place'[h] = s /\ job' = job
        /\ \A g \in Handlers \ {h} : place'[g] = place[g]
    BY <1>3, GoOnMoves DEF DecisionInv
  <2> QED BY <1>3, <2>1, DecisionKeptBy DEF DecisionInv
<1>4. ASSUME NEW h \in Handlers, Die(h) \/ Correct(h)
      PROVE  DecisionInv'
  <2>1. UNCHANGED <<decisions, links>>
    BY <1>4 DEF Die, Correct, CheckParent, FindCorrection, CheckCurrent, InsertCorrection,
       ReadChain, WriteRevision, VerifyRevision, files
  <2>2. Return(h) \/ \E s \in {"append", "supersede", "insert", "write", "verify"} : GoOn(h, s)
    BY <1>4 DEF Die, Correct, CheckParent, FindCorrection, CheckCurrent, InsertCorrection,
       ReadChain, WriteRevision, VerifyRevision, Replay, Refuse, Answer
  <2>3. \A s \in {"append", "supersede", "insert", "write", "verify"} :
            s \in Places /\ DecisionRequest(s, job[h])
    BY DEF Places, DecisionRequest
  <2>4. /\ decisions' \in SUBSET [id : Decisions, note : Notes]
        /\ links' \in SUBSET [id : Decisions, by : Handlers]
    BY <2>1 DEF DecisionInv
  <2> QED BY <1>2, <1>3, <2>1, <2>2, <2>3, <2>4
<1>5. ASSUME NEW h \in Handlers, Decide(h)
      PROVE  DecisionInv'
  <2>1. DecisionRequest(place[h], job[h])
    BY DEF DecisionInv
  <2>2. /\ decisions \in SUBSET [id : Decisions, note : Notes]
        /\ links \in SUBSET [id : Decisions, by : Handlers]
    BY DEF DecisionInv
  <2>3. CASE Return(h)
    <3>1. decisions' = decisions \/ (place[h] = "add" /\ decisions' = decisions \cup {Decision(h)})
      BY <1>5 DEF Decide, FindDecision, AddDecision, ReadDecision, ListLinks, CreateLink, files
    <3>2. links' = links \/ (place[h] = "create" /\ links' = links \cup {[id |-> job[h].id, by |-> h]})
      BY <1>5 DEF Decide, FindDecision, AddDecision, ReadDecision, ListLinks, CreateLink, files
    <3>3. place[h] = "add" => Decision(h) \in [id : Decisions, note : Notes]
      BY <2>1 DEF DecisionRequest, Decision
    <3>4. place[h] = "create" => [id |-> job[h].id, by |-> h] \in [id : Decisions, by : Handlers]
      BY <2>1 DEF DecisionRequest
    <3> QED BY <1>2, <2>2, <2>3, <3>1, <3>2, <3>3, <3>4
  <2>4. CASE ~ Return(h)
    <3>1. /\ UNCHANGED <<decisions, links>>
          /\ \/ place[h] = "decision" /\ GoOn(h, "add")
             \/ place[h] = "link" /\ GoOn(h, "links")
             \/ place[h] = "links" /\ GoOn(h, "create")
      BY <1>5, <2>4 DEF Decide, FindDecision, AddDecision, ReadDecision, ListLinks, CreateLink,
         Answer, Refuse, files
    <3>2. "add" \in Places /\ "links" \in Places /\ "create" \in Places
      BY DEF Places
    <3> QED BY <1>3, <2>1, <3>1, <3>2 DEF DecisionRequest
  <2> QED BY <2>3, <2>4
<1>6. CASE UNCHANGED commandVars
  BY <1>6 DEF commandVars, DecisionInv, DecisionRequest, Shapes
<1> QED BY <1>1, <1>4, <1>5, <1>6 DEF CommandNext

\* A dual time is of one row: the INSERT is refused for one that is taken.
OneOfATime ==
    \A x, y \in fees : x.effective = y.effective /\ x.known = y.known => x = y

SendBounds == sends \in 0 .. MaxSends /\ deaths \in 0 .. MaxDeaths

LEMMA TimesStep ==
  ASSUME OneOfATime, SendBounds, [CommandNext]_commandVars
  PROVE  OneOfATime' /\ SendBounds'
<1>1. ASSUME NEW h \in Handlers, InsertCorrection(h), fees' # fees
      PROVE  OneOfATime'
  <2> DEFINE r == job[h].row
  <2>1. fees' = fees \cup {r} /\ \A x \in fees : ~ (x.effective = r.effective /\ x.known = r.known)
    BY <1>1 DEF InsertCorrection, TimeTaken
  <2> HIDE DEF r
  <2> QED BY <2>1 DEF OneOfATime
<1>2. ASSUME NEW h \in Handlers, Receive(h) \/ Die(h) \/ Correct(h) \/ Decide(h)
      PROVE  fees' = fees \/ InsertCorrection(h)
  BY <1>2 DEF Receive, Die, Correct, CheckParent, FindCorrection, CheckCurrent, ReadChain,
     WriteRevision, VerifyRevision, Decide, FindDecision, AddDecision, ReadDecision, ListLinks,
     CreateLink
<1>3. OneOfATime'
  BY <1>1, <1>2 DEF CommandNext, commandVars, OneOfATime
<1>4. ASSUME NEW h \in Handlers, Receive(h) \/ Die(h) \/ Correct(h) \/ Decide(h)
      PROVE  \/ UNCHANGED counters
             \/ sends < MaxSends /\ sends' = sends + 1 /\ deaths' = deaths
             \/ deaths < MaxDeaths /\ deaths' = deaths + 1 /\ sends' = sends
  BY <1>4 DEF Receive, Die, Correct, CheckParent, FindCorrection, CheckCurrent, InsertCorrection,
     ReadChain, WriteRevision, VerifyRevision, Decide, FindDecision, AddDecision, ReadDecision,
     ListLinks, CreateLink, counters
<1>5. \/ UNCHANGED counters
      \/ sends < MaxSends /\ sends' = sends + 1 /\ deaths' = deaths
      \/ deaths < MaxDeaths /\ deaths' = deaths + 1 /\ sends' = sends
  BY <1>4 DEF CommandNext, commandVars, counters
<1>6. SendBounds'
  BY <1>5, CommandConstants DEF SendBounds, counters
<1> QED BY <1>3, <1>6

\* Shapes of the rows, the files and each thread's request; a trade has one
\* correction of an id and one at a dual time, so that the last is unique.
THEOREM CommandTyped == CommandSpec => []CommandTypes
<1>1. CommandInit => DecisionInv /\ OneOfATime /\ SendBounds
  BY CommandConstants DEF CommandInit, DecisionInv, DecisionRequest, Shapes, Places, OneOfATime,
     SendBounds
<1>2. DecisionInv /\ [CommandNext]_commandVars => DecisionInv'
  BY DecisionStep
<1>3. OneOfATime /\ SendBounds /\ [CommandNext]_commandVars => OneOfATime' /\ SendBounds'
  BY TimesStep
<1>4. CommandSpec => [](DecisionInv /\ OneOfATime /\ SendBounds)
  BY <1>1, <1>2, <1>3, PTL DEF CommandSpec
<1>5. CorrectionInv /\ ChainInv /\ DecisionInv /\ OneOfATime /\ SendBounds => CommandTypes
  <2> SUFFICES ASSUME CorrectionInv, ChainInv, DecisionInv, OneOfATime, SendBounds PROVE CommandTypes
    OBVIOUS
  <2>1. /\ fees \in SUBSET FeeRow
        /\ \A x, y \in fees :
              x.id = y.id \/ (x.effective = y.effective /\ x.known = y.known) => x = y
    BY DEF CorrectionInv, FeeChain, OneOfATime
  <2>2. revisions \subseteq Seq(ReviewRequests)
    BY DEF ChainInv, Chain
  <2>3. /\ decisions \in SUBSET [id : Decisions, note : Notes]
        /\ links \in SUBSET [id : Decisions, by : Handlers]
        /\ place \in [Handlers -> Places]
    BY DEF DecisionInv, Shapes
  <2>4. \A h \in Handlers :
            place[h] \in {"fee", "append", "supersede", "insert"} => job[h].row \in FeeRow
    BY DEF CorrectionInv, FeeRequest, FeeStages
  <2> QED BY <2>1, <2>2, <2>3, <2>4 DEF CommandTypes, SendBounds
<1> QED BY <1>4, <1>5, FeeHolds, ChainHolds, PTL
-----------------------------------------------------------------------------
(* The services side by side.  MCServices lets one of them run at a time.   *)

\* Of each service the composition shows only behaviours of its own.
LEMMA EachRunsItself ==
  Spec => CommandSpec /\ MarketSpec /\ PeriodicSpec /\ WorkerSpec /\ RunSpec
<1>1. Init => CommandInit /\ MarketInit /\ PeriodicInit /\ WorkerInit /\ RunInit
  BY DEF Init
<1>2. [Next]_vars => /\ [CommandNext]_commandVars /\ [MarketNext]_marketVars
                     /\ [PeriodicNext]_periodicVars /\ [WorkerNext]_workerVars
                     /\ [RunNext]_runVars
  BY DEF Next, vars, Commands, Market, Periodic, Worker, ReviewRuns
<1>3. QED
  BY <1>1, <1>2, PTL DEF Spec, CommandSpec, MarketSpec, PeriodicSpec, WorkerSpec, RunSpec

\* What the services store keeps its shape, and no two rows share what they are
\* looked up by: daily reports and decisions that are saved twice, corrections
\* of one dual time.
THEOREM ServicesTyped == Spec => []ServiceTypes
<1>1. CommandTypes /\ MarketTypes /\ PeriodicTypes /\ RunTypes => ServiceTypes
  BY DEF ServiceTypes
<1>2. QED
  BY <1>1, EachRunsItself, CommandTyped, MarketTyped, ReportTypes, RunTyped, PTL
=============================================================================
