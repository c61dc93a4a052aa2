--------------------------- MODULE ReviewCommands ---------------------------
(***************************************************************************)
(* The four write commands of the review dashboard                         *)
(* (src/src/portfolio/investment_review_service.py): correct_fee,          *)
(* correct_review, create_decision and link_decision.  Each request runs   *)
(* in a thread of its own (DashboardHTTPServer); a dashboard is a process, *)
(* and its locks are locks of that process only.  Whoever sent a request   *)
(* may never see the answer and send it again, or change it and send it    *)
(* under the same request id.                                              *)
(*                                                                         *)
(*   - fee corrections are rows of the sidecar.  A row names the one it    *)
(*     supersedes; it is checked by SELECTs that take no write lock, and   *)
(*     inserted afterwards (append_fee_correction);                        *)
(*   - revisions of a review are files that are created, never replaced.   *)
(*     A revision's content id covers what it revises and the request, so  *)
(*     a revision is the sequence of the requests that led to it;          *)
(*   - decisions are rows, retrospective links are files.                  *)
(*                                                                         *)
(* One trade, one review: those of others have rows, directories and locks *)
(* of their own.                                                           *)
(***************************************************************************)
EXTENDS Integers, Sequences, FiniteSets

CONSTANTS
    Handlers,       \* request threads
    ProcessOf,      \* the dashboard process a thread belongs to
    FeeRequests,    \* request ids of fee corrections
    Times,          \* the times a correction may be effective and known at
    ReviewRequests, \* the human reviews somebody may ask for
    Target,         \* the finding each of them is about
    Decisions,      \* request ids of decisions
    Notes,          \* what a decision may say
    MaxSends,       \* bound: requests that are received
    MaxDeaths,      \* bound: requests that die half-way
    None            \* no correction

ASSUME CommandConstants ==
    /\ Times \subseteq Nat
    /\ None \notin FeeRequests
    /\ DOMAIN ProcessOf = Handlers
    /\ MaxSends \in Nat /\ MaxDeaths \in Nat

\* A fee correction, as the request asks for it and as the row keeps it.
FeeRow == [id : FeeRequests, supersedes : FeeRequests \cup {None},
           effective : Times, known : Times]

VARIABLES
    fees,       \* rows of fee_corrections
    revisions,  \* revision files, and <<>> for the review they start from
    writers,    \* the processes that have written a revision
    decisions,  \* rows of decisions
    links,      \* retrospective link files, with the thread that wrote them
    place, job, \* where each thread is, and the request it works on
    acked,      \* what the answers that reported success said
    sends, deaths

commandVars == <<fees, revisions, writers, decisions, links, place, job, acked,
                 sends, deaths>>
files == <<revisions, writers, links>>
counters == <<sends, deaths>>

Places == {"idle", "fee", "append", "supersede", "insert", "review", "write",
           "verify", "decision", "add", "link", "links", "create"}
NoJob == [kind |-> "none"]

-----------------------------------------------------------------------------
(* Reading what is stored *)

\* ORDER BY effective_at, known_at (a pair of them is UNIQUE for a trade).
Later(x, y) ==
    \/ x.effective > y.effective
    \/ x.effective = y.effective /\ x.known > y.known

\* The last of some corrections; get_effective_fee and append_fee_correction
\* take the first row in descending order.
Newest(rows) == {x \in rows : \A y \in rows \ {x} : Later(x, y)}

\* The id of the correction a new one has to supersede.
CurrentCorrection == IF fees = {} THEN None ELSE (CHOOSE x \in Newest(fees) : TRUE).id

\* What get_effective_fee sees as of a time and a knowledge cutoff.
Visible(asOf, cutoff) == {x \in fees : x.effective <= asOf /\ x.known <= cutoff}

\* validate_revision_chain: the numbers are sequential, and each revision
\* supersedes the one before.
ChainValid == \A s, t \in revisions : Len(s) = Len(t) => s = t

\* _latest_review: the revision with the largest number.
Latest == CHOOSE s \in revisions : \A t \in revisions : Len(t) <= Len(s)

\* Mutant: a lock of the request instead of one of the review.
RevisionLockOfRequest(h) ==
    \A g \in Handlers : place[g] \in {"write", "verify"} => job[g] # job[h]
\* _revision_lock: no other thread of this process holds it.
RevisionLockFree(h) ==
    \A g \in Handlers :
        ProcessOf[g] = ProcessOf[h] => place[g] \notin {"write", "verify"}

\* _decision_lock, of a decision or of a link.
DecisionLockFree(h, held) ==
    \A g \in Handlers :
        ProcessOf[g] = ProcessOf[h] /\ place[g] = held => job[g].id # job[h].id

-----------------------------------------------------------------------------
(* Pieces the actions are made of *)

GoOn(h, label) ==
    /\ place' = [place EXCEPT ![h] = label]
    /\ UNCHANGED <<job, acked>>

Return(h) ==
    /\ place' = [place EXCEPT ![h] = "idle"]
    /\ job' = [job EXCEPT ![h] = NoJob]

\* An answer that reports success, with what it says is stored.
Answer(h, what) == Return(h) /\ acked' = acked \cup {what}

\* A 4xx or a 500.
Refuse(h) == Return(h) /\ UNCHANGED acked

-----------------------------------------------------------------------------
(* Requests *)

\* A client can only name a version that exists, or none.
FeeJobs ==
    [kind : {"fee"},
     row : {r \in FeeRow : r.effective <= r.known
                /\ r.supersedes \in {None} \cup {x.id : x \in fees}}]
ReviewJobs == [kind : {"review"}, id : ReviewRequests, parent : revisions]
DecisionJobs == [kind : {"decision"}, id : Decisions, note : Notes]
LinkJobs == [kind : {"link"}, id : Decisions]

Receive(h) ==
    /\ place[h] = "idle" /\ sends < MaxSends
    /\ sends' = sends + 1
    /\ \E j \in FeeJobs \cup ReviewJobs \cup DecisionJobs \cup LinkJobs :
          /\ job' = [job EXCEPT ![h] = j]
          /\ place' = [place EXCEPT ![h] = j.kind]
    /\ UNCHANGED <<fees, files, decisions, acked, deaths>>

\* The process dies, or the thread gets an exception of the database: locks
\* are released and nothing is answered.
Die(h) ==
    /\ place[h] # "idle" /\ deaths < MaxDeaths
    /\ deaths' = deaths + 1
    /\ Refuse(h)
    /\ UNCHANGED <<fees, files, decisions, sends>>

-----------------------------------------------------------------------------
(* correct_fee *)

\* Mutant: a replay is recognised by its id, whatever it asks for.
ReplayById(h) ==
    IF \E x \in fees : x.id = job[h].row.id
    THEN Answer(h, job[h].row) ELSE Refuse(h)
\* A request whose id is there already: the same content or a conflict.
Replay(h) == IF job[h].row \in fees THEN Answer(h, job[h].row) ELSE Refuse(h)

Stored(h) == \E x \in fees : x.id = job[h].row.id

\* correct_fee itself: list_fee_corrections, a replay, or the parent's check.
CheckParent(h) ==
    /\ place[h] = "fee"
    /\ IF Stored(h) THEN Replay(h)
       ELSE IF job[h].row.supersedes # CurrentCorrection THEN Refuse(h)
       ELSE GoOn(h, "append")
    /\ UNCHANGED <<fees, files, decisions, counters>>

\* The first SELECT of append_fee_correction.
FindCorrection(h) ==
    /\ place[h] = "append"
    /\ IF Stored(h) THEN Replay(h) ELSE GoOn(h, "supersede")
    /\ UNCHANGED <<fees, files, decisions, counters>>

\* Mutant: only one of the two times has to follow the parent's.
FollowsInOneTime(row) ==
    \A x \in fees : x.id = row.supersedes =>
        row.effective >= x.effective \/ row.known >= x.known
\* A superseding fee correction cannot precede its parent.
Follows(row) ==
    \A x \in fees : x.id = row.supersedes =>
        row.effective >= x.effective /\ row.known >= x.known

\* AMBIGUOUS_FEE_CORRECTION_TIME, and the UNIQUE constraint behind it.
TimeTaken(row) ==
    \E x \in fees : x.effective = row.effective /\ x.known = row.known

\* The other SELECTs: the current correction, and one at the same dual time.
CheckCurrent(h) ==
    LET row == job[h].row IN
    /\ place[h] = "supersede"
    /\ IF row.supersedes = CurrentCorrection /\ Follows(row) /\ ~ TimeTaken(row)
       THEN GoOn(h, "insert") ELSE Refuse(h)
    /\ UNCHANGED <<fees, files, decisions, counters>>

\* The INSERT, which the database refuses for an id or a time it has.
InsertCorrection(h) ==
    /\ place[h] = "insert"
    /\ IF Stored(h) \/ TimeTaken(job[h].row)
       THEN Refuse(h) /\ UNCHANGED fees
       ELSE Answer(h, job[h].row) /\ fees' = fees \cup {job[h].row}
    /\ UNCHANGED <<files, decisions, counters>>

-----------------------------------------------------------------------------
(* correct_review, under the lock of the review in this process *)

\* apply_human_review: a finding that was reviewed has got another id.
TargetThere(request, parent) ==
    \A i \in DOMAIN parent : Target[parent[i]] # Target[request]

ReadChain(h) ==
    /\ place[h] = "review" /\ RevisionLockFree(h)
    /\ IF ChainValid /\ Latest = job[h].parent
          /\ TargetThere(job[h].id, job[h].parent)
       THEN GoOn(h, "write") ELSE Refuse(h)
    /\ UNCHANGED <<fees, files, decisions, counters>>

Revision(h) == Append(job[h].parent, job[h].id)

\* save_new_episode_review: create, and refuse to replace.
WriteRevision(h) ==
    /\ place[h] = "write"
    /\ IF Revision(h) \in revisions
       THEN Refuse(h) /\ UNCHANGED <<revisions, writers>>
       ELSE /\ GoOn(h, "verify")
            /\ revisions' = revisions \cup {Revision(h)}
            /\ writers' = writers \cup {ProcessOf[h]}
    /\ UNCHANGED <<fees, decisions, links, counters>>

\* The chain is read again before the answer.
VerifyRevision(h) ==
    /\ place[h] = "verify"
    /\ IF ChainValid /\ Latest = Revision(h)
       THEN Answer(h, [revision |-> Revision(h)]) ELSE Refuse(h)
    /\ UNCHANGED <<fees, files, decisions, counters>>

-----------------------------------------------------------------------------
(* create_decision and link_decision (retrospective_context) *)

Decision(h) == [id |-> job[h].id, note |-> job[h].note]
DecisionStored(h) == \E d \in decisions : d.id = job[h].id

\* get_decision under _decision_lock.
FindDecision(h) ==
    /\ place[h] = "decision" /\ DecisionLockFree(h, "add")
    /\ IF ~ DecisionStored(h) THEN GoOn(h, "add")
       ELSE IF Decision(h) \in decisions THEN Answer(h, Decision(h))
       ELSE Refuse(h)
    /\ UNCHANGED <<fees, files, decisions, counters>>

\* add_decision: its INSERT is refused if another process was faster.
AddDecision(h) ==
    /\ place[h] = "add"
    /\ IF DecisionStored(h)
       THEN Refuse(h) /\ UNCHANGED decisions
       ELSE Answer(h, Decision(h)) /\ decisions' = decisions \cup {Decision(h)}
    /\ UNCHANGED <<fees, files, counters>>

LinkStored(h) == {l \in links : l.id = job[h].id}

\* The decision has to be there.
ReadDecision(h) ==
    /\ place[h] = "link"
    /\ IF DecisionStored(h) THEN GoOn(h, "links") ELSE Refuse(h)
    /\ UNCHANGED <<fees, files, decisions, counters>>

\* _append_retrospective_link: the links are listed under the lock.
ListLinks(h) ==
    /\ place[h] = "links" /\ DecisionLockFree(h, "create")
    /\ IF LinkStored(h) = {} THEN GoOn(h, "create")
       ELSE \E l \in LinkStored(h) : Answer(h, l)
    /\ UNCHANGED <<fees, files, decisions, counters>>

\* The file is created; if another process was faster, its link is answered.
CreateLink(h) ==
    LET link == [id |-> job[h].id, by |-> h] IN
    /\ place[h] = "create"
    /\ \/ LinkStored(h) = {} /\ links' = links \cup {link} /\ Answer(h, link)
       \/ \E l \in LinkStored(h) : Answer(h, l) /\ UNCHANGED links
    /\ UNCHANGED <<fees, revisions, writers, decisions, counters>>

-----------------------------------------------------------------------------
CommandInit ==
    /\ fees = {} /\ revisions = {<<>>} /\ writers = {}
    /\ decisions = {} /\ links = {}
    /\ place = [h \in Handlers |-> "idle"]
    /\ job = [h \in Handlers |-> NoJob]
    /\ acked = {} /\ sends = 0 /\ deaths = 0

Correct(h) ==
    \/ CheckParent(h) \/ FindCorrection(h) \/ CheckCurrent(h) \/ InsertCorrection(h)
    \/ ReadChain(h) \/ WriteRevision(h) \/ VerifyRevision(h)
Decide(h) ==
    \/ FindDecision(h) \/ AddDecision(h)
    \/ ReadDecision(h) \/ ListLinks(h) \/ CreateLink(h)

CommandNext == \E h \in Handlers : Receive(h) \/ Die(h) \/ Correct(h) \/ Decide(h)

CommandSpec == CommandInit /\ [][CommandNext]_commandVars

-----------------------------------------------------------------------------
(* Properties *)

\* Shapes of the rows, the files and each thread's request; a trade has one
\* correction of an id and one at a dual time, so that the last is unique.
CommandTypes ==
    /\ fees \in SUBSET FeeRow
    /\ \A x, y \in fees :
          x.id = y.id \/ (x.effective = y.effective /\ x.known = y.known) => x = y
    /\ revisions \subseteq Seq(ReviewRequests)
    /\ decisions \in SUBSET [id : Decisions, note : Notes]
    /\ links \in SUBSET [id : Decisions, by : Handlers]
    /\ place \in [Handlers -> Places]
    /\ \A h \in Handlers :
          place[h] \in {"fee", "append", "supersede", "insert"} => job[h].row \in FeeRow
    /\ sends \in 0 .. MaxSends /\ deaths \in 0 .. MaxDeaths

\* As of every time and knowledge cutoff the effective fee correction is one
\* that nothing visible supersedes, however corrections were interleaved
\* (append_fee_correction, get_effective_fee).
EffectiveFeeIsLast ==
    \A asOf, cutoff \in Times : \A x \in Newest(Visible(asOf, cutoff)) :
        \A y \in Visible(asOf, cutoff) : y.supersedes # x.id

\* What an answer has reported as stored stays stored, exactly as it was
\* reported: a request that is repeated, changed under the same id, or handled
\* by two processes at once gets no answer that is not true (correct_fee,
\* create_decision, link_decision, correct_review).
AnswersStayTrue ==
    acked \subseteq
        fees \cup {[revision |-> r] : r \in revisions} \cup decisions \cup links

\* While one dashboard process writes the revisions of a review, its chain is
\* valid, and with it every later read and correction of the review possible
\* (correct_review, _review_chain).
OneProcessKeepsChain == Cardinality(writers) <= 1 => ChainValid
=============================================================================
