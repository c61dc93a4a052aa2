--------------------------- MODULE SourceSync_proofs ---------------------------
(***************************************************************************)
(* Theorems about the sync of the review sidecar, for all callers, trades  *)
(* and bounds:                                                             *)
(*                                                                         *)
(*   SyncTyped       every variable keeps its type                         *)
(*   Mirrors         sync implements SourceMirror                          *)
(*   SuccessCurrent  a call that succeeds has left nothing out             *)
(*   BlockedTwice    a call is blocked only after two changes              *)
(*   HealthyComplete a healthy sidecar has its fee projections             *)
(*   PlansNeverClash fee plans conflict only after a backdated trade       *)
(***************************************************************************)
EXTENDS SourceSync, SequenceTheorems, TLAPS

-----------------------------------------------------------------------------
(* Queues of runs.  A run is removed from the middle, or with all before it. *)

Listed(q, x) == \E i \in DOMAIN q : q[i] = x
Precedes(q, x, y) == \E i, j \in DOMAIN q : i < j /\ q[i] = x /\ q[j] = y
NoRepeat(q) == \A i, j \in DOMAIN q : q[i] = q[j] => i = j

\* A run has one place in the queue (the rowid of its run).
LEMMA PlaceIsThere ==
  ASSUME NEW s, IsOpen(s)
  PROVE  Place(s) \in DOMAIN open /\ open[Place(s)] = s
  BY DEF IsOpen, Place

\* Two different runs are created one after the other (rowid).
LEMMA OneIsFirst ==
  ASSUME NEW S, NEW q \in Seq(S), NEW x, NEW y, Listed(q, x), Listed(q, y), x # y
  PROVE  Precedes(q, x, y) \/ Precedes(q, y, x)
<1>1. PICK i \in DOMAIN q : q[i] = x
  BY DEF Listed
<1>2. PICK j \in DOMAIN q : q[j] = y
  BY DEF Listed
<1>3. i \in Int /\ j \in Int /\ i # j
  BY <1>1, <1>2
<1>4. i < j \/ j < i
  BY <1>3
<1> QED BY <1>1, <1>2, <1>4 DEF Precedes

\* Creation order is a strict order of the runs that are listed (rowid).
LEMMA CreationOrder ==
  ASSUME NEW S, NEW q \in Seq(S), NoRepeat(q), NEW x, NEW y, Precedes(q, x, y)
  PROVE  /\ ~ Precedes(q, y, x) /\ x # y
         /\ Listed(q, x) /\ Listed(q, y)
         /\ \A z : Precedes(q, y, z) => Precedes(q, x, z)
<1>1. PICK i \in DOMAIN q : \E j \in DOMAIN q : i < j /\ q[i] = x /\ q[j] = y
  BY DEF Precedes
<1>2. PICK j \in DOMAIN q : i < j /\ q[i] = x /\ q[j] = y
  BY <1>1
<1>3. i \in Int /\ j \in Int
  OBVIOUS
<1>4. ASSUME Precedes(q, y, x) PROVE FALSE
  <2>1. PICK k \in DOMAIN q : \E l \in DOMAIN q : k < l /\ q[k] = y /\ q[l] = x
    BY <1>4 DEF Precedes
  <2>2. PICK l \in DOMAIN q : k < l /\ q[k] = y /\ q[l] = x
    BY <2>1
  <2>3. k = j /\ l = i
    BY <1>2, <2>2 DEF NoRepeat
  <2> QED BY <1>2, <1>3, <2>2, <2>3
<1>5. x # y
  <2>1. SUFFICES ASSUME x = y PROVE FALSE
    OBVIOUS
  <2>2. i = j
    BY <1>2, <2>1 DEF NoRepeat
  <2> QED BY <1>2, <1>3, <2>2
<1>6. ASSUME NEW z, Precedes(q, y, z) PROVE Precedes(q, x, z)
  <2>1. PICK k \in DOMAIN q : \E l \in DOMAIN q : k < l /\ q[k] = y /\ q[l] = z
    BY <1>6 DEF Precedes
  <2>2. PICK l \in DOMAIN q : k < l /\ q[k] = y /\ q[l] = z
    BY <2>1
  <2>3. k = j
    BY <1>2, <2>2 DEF NoRepeat
  <2>4. i < l
    BY <1>2, <1>3, <2>2, <2>3
  <2> QED BY <1>2, <2>2, <2>4 DEF Precedes
<1>7. Listed(q, x) /\ Listed(q, y)
  BY <1>2 DEF Listed
<1> QED BY <1>4, <1>5, <1>6, <1>7

\* A run that is saved comes last (_save_run).
LEMMA Appended ==
  ASSUME NEW S, NEW q \in Seq(S), NEW s \in S, NoRepeat(q), ~ Listed(q, s)
  PROVE  LET r == Append(q, s) IN
         /\ r \in Seq(S) /\ NoRepeat(r)
         /\ \A x : Listed(r, x) <=> Listed(q, x) \/ x = s
         /\ \A x, y : Precedes(r, x, y) <=> Precedes(q, x, y) \/ (Listed(q, x) /\ y = s)
<1> DEFINE r == Append(q, s)
<1>1. r \in Seq(S) /\ DOMAIN r = 1 .. Len(q) + 1 /\ Len(q) \in Nat /\ DOMAIN q = 1 .. Len(q)
  OBVIOUS
<1>2. r[Len(q) + 1] = s /\ \A i \in DOMAIN q : r[i] = q[i]
  OBVIOUS
<1>. HIDE DEF r
<1>3. NoRepeat(r)
  BY <1>1, <1>2 DEF NoRepeat, Listed
<1>4. ASSUME NEW x PROVE Listed(r, x) <=> Listed(q, x) \/ x = s
  BY <1>1, <1>2 DEF Listed
<1>5. ASSUME NEW x, NEW y
      PROVE  Precedes(r, x, y) <=> Precedes(q, x, y) \/ (Listed(q, x) /\ y = s)
  BY <1>1, <1>2 DEF Listed, Precedes
<1> QED BY <1>1, <1>3, <1>4, <1>5 DEF r

\* What is left after a run that closes: the runs created after it (After).
LEMMA KeptAfter ==
  ASSUME NEW S, NEW q \in Seq(S), NoRepeat(q), NEW p \in DOMAIN q
  PROVE  LET r == SubSeq(q, p + 1, Len(q)) IN
         /\ r \in Seq(S) /\ NoRepeat(r)
         /\ \A x : Listed(r, x) <=> Precedes(q, q[p], x)
         /\ \A x, y : Precedes(r, x, y) <=> Precedes(q, x, y) /\ Precedes(q, q[p], x)
<1> DEFINE r == SubSeq(q, p + 1, Len(q))
<1>1. p \in 1 .. Len(q) /\ Len(q) \in Nat /\ DOMAIN q = 1 .. Len(q)
  OBVIOUS
<1>2. /\ r \in Seq(S) /\ DOMAIN r = 1 .. Len(q) - p
      /\ \A i \in 1 .. Len(q) - p : r[i] = q[p + i]
  <2>1. \A i \in p + 1 .. Len(q) : q[i] \in S
    BY <1>1
  <2>2. /\ r \in Seq(S) /\ Len(r) = IF p + 1 <= Len(q) THEN Len(q) - (p + 1) + 1 ELSE 0
        /\ \A i \in 1 .. Len(q) - (p + 1) + 1 : r[i] = q[p + 1 + i - 1]
    BY <1>1, <2>1, SubSeqProperties
  <2>3. Len(r) = Len(q) - p
    BY <1>1, <2>2
  <2>4. DOMAIN r = 1 .. Len(r)
    BY <2>2, LenProperties
  <2> QED BY <1>1, <2>2, <2>3, <2>4
<1>. HIDE DEF r
<1>3. NoRepeat(r)
  <2> SUFFICES ASSUME NEW i \in DOMAIN r, NEW j \in DOMAIN r, r[i] = r[j] PROVE i = j
    BY DEF NoRepeat
  <2>1. q[p + i] = q[p + j] /\ p + i \in DOMAIN q /\ p + j \in DOMAIN q
    BY <1>1, <1>2
  <2>2. p + i = p + j
    BY <2>1 DEF NoRepeat
  <2>3. i \in Int /\ j \in Int /\ p \in Int
    BY <1>1, <1>2
  <2> QED BY <2>2, <2>3
<1>4. ASSUME NEW j \in DOMAIN q, p < j PROVE j - p \in DOMAIN r /\ r[j - p] = q[j]
  <2>1. j \in Int /\ p \in Int /\ j <= Len(q)
    BY <1>1
  <2>2. j - p \in 1 .. Len(q) - p /\ p + (j - p) = j
    BY <1>1, <1>4, <2>1
  <2>3. r[j - p] = q[p + (j - p)]
    BY <1>2, <2>2
  <2> QED BY <1>2, <2>2, <2>3
<1>5. \A i \in DOMAIN r : p + i \in DOMAIN q /\ r[i] = q[p + i] /\ p < p + i
  BY <1>1, <1>2
<1>6. \A i \in DOMAIN q : q[i] = q[p] => i = p
  BY DEF NoRepeat
<1>7. ASSUME NEW x PROVE Listed(r, x) <=> Precedes(q, q[p], x)
  BY <1>1, <1>4, <1>5, <1>6 DEF Listed, Precedes
<1>8. ASSUME NEW x, NEW y
      PROVE  Precedes(r, x, y) <=> Precedes(q, x, y) /\ Precedes(q, q[p], x)
  <2>1. ASSUME Precedes(r, x, y) PROVE Precedes(q, x, y) /\ Precedes(q, q[p], x)
    <3>1. PICK i \in DOMAIN r : \E j \in DOMAIN r : i < j /\ r[i] = x /\ r[j] = y
      BY <2>1 DEF Precedes
    <3>2. PICK j \in DOMAIN r : i < j /\ r[i] = x /\ r[j] = y
      BY <3>1
    <3>3. p + i < p + j
      BY <1>1, <1>2, <3>2
    <3> QED BY <1>5, <3>2, <3>3 DEF Precedes
  <2>2. ASSUME Precedes(q, x, y), Precedes(q, q[p], x) PROVE Precedes(r, x, y)
    <3>1. PICK i \in DOMAIN q : \E j \in DOMAIN q : i < j /\ q[i] = x /\ q[j] = y
      BY <2>2 DEF Precedes
    <3>2. PICK j \in DOMAIN q : i < j /\ q[i] = x /\ q[j] = y
      BY <3>1
    <3>3. PICK k \in DOMAIN q : \E l \in DOMAIN q : k < l /\ q[k] = q[p] /\ q[l] = x
      BY <2>2 DEF Precedes
    <3>4. PICK l \in DOMAIN q : k < l /\ q[k] = q[p] /\ q[l] = x
      BY <3>3
    <3>5. k = p /\ l = i
      BY <3>2, <3>4 DEF NoRepeat
    <3>6. p < i /\ p < j /\ i - p < j - p
      BY <1>1, <3>2, <3>4, <3>5
    <3> QED BY <1>4, <3>2, <3>6 DEF Precedes
  <2> QED BY <2>1, <2>2
<1> QED BY <1>2, <1>3, <1>7, <1>8 DEF r

\* What is left when a run is taken out (Abandon).
LEMMA TakenOut ==
  ASSUME NEW S, NEW q \in Seq(S), NoRepeat(q), NEW p \in DOMAIN q
  PROVE  LET r == SubSeq(q, 1, p - 1) \o SubSeq(q, p + 1, Len(q)) IN
         /\ r \in Seq(S) /\ NoRepeat(r)
         /\ \A x : Listed(r, x) <=> Listed(q, x) /\ x # q[p]
         /\ \A x, y : Precedes(r, x, y) <=> Precedes(q, x, y) /\ x # q[p] /\ y # q[p]
<1> DEFINE f == SubSeq(q, 1, p - 1)
           g == SubSeq(q, p + 1, Len(q))
           r == f \o g
<1>1. p \in 1 .. Len(q) /\ Len(q) \in Nat /\ DOMAIN q = 1 .. Len(q)
  OBVIOUS
<1>2. f \in Seq(S) /\ Len(f) = p - 1 /\ \A i \in 1 .. p - 1 : f[i] = q[i]
  <2>1. \A i \in 1 .. p - 1 : q[i] \in S
    BY <1>1
  <2>2. /\ f \in Seq(S) /\ Len(f) = IF 1 <= p - 1 THEN (p - 1) - 1 + 1 ELSE 0
        /\ \A i \in 1 .. (p - 1) - 1 + 1 : f[i] = q[1 + i - 1]
    BY <1>1, <2>1, SubSeqProperties
  <2> QED BY <1>1, <2>2
<1>3. g \in Seq(S) /\ Len(g) = Len(q) - p /\ \A i \in 1 .. Len(q) - p : g[i] = q[p + i]
  <2>1. \A i \in p + 1 .. Len(q) : q[i] \in S
    BY <1>1
  <2>2. /\ g \in Seq(S) /\ Len(g) = IF p + 1 <= Len(q) THEN Len(q) - (p + 1) + 1 ELSE 0
        /\ \A i \in 1 .. Len(q) - (p + 1) + 1 : g[i] = q[p + 1 + i - 1]
    BY <1>1, <2>1, SubSeqProperties
  <2> QED BY <1>1, <2>2
<1>. HIDE DEF f, g
<1>4. /\ r \in Seq(S) /\ Len(r) = Len(q) - 1
      /\ \A i \in 1 .. Len(q) - 1 : r[i] = IF i < p THEN q[i] ELSE q[i + 1]
  <2>1. /\ r \in Seq(S) /\ Len(r) = Len(f) + Len(g)
        /\ \A i \in 1 .. Len(f) + Len(g) : r[i] = IF i <= Len(f) THEN f[i] ELSE g[i - Len(f)]
    BY <1>2, <1>3, ConcatProperties
  <2>2. Len(f) + Len(g) = Len(q) - 1
    BY <1>1, <1>2, <1>3
  <2>3. ASSUME NEW i \in 1 .. Len(q) - 1
        PROVE  r[i] = IF i < p THEN q[i] ELSE q[i + 1]
    <3>1. CASE i < p
      BY <1>1, <1>2, <2>1, <2>2, <3>1
    <3>2. CASE ~ (i < p)
      <4>1. i - (p - 1) \in 1 .. Len(q) - p /\ p + (i - (p - 1)) = i + 1 /\ ~ (i <= p - 1)
        BY <1>1, <3>2
      <4>2. r[i] = g[i - (p - 1)]
        BY <1>2, <2>1, <2>2, <4>1
      <4>3. g[i - (p - 1)] = q[p + (i - (p - 1))]
        BY <1>3, <4>1
      <4> QED BY <3>2, <4>1, <4>2, <4>3
    <3> QED BY <3>1, <3>2
  <2> QED BY <2>1, <2>2, <2>3
<1>5. DOMAIN r = 1 .. Len(q) - 1
  BY <1>4, LenProperties
<1>. HIDE DEF r
<1> DEFINE Old(i) == IF i < p THEN i ELSE i + 1
           New(j) == IF j < p THEN j ELSE j - 1
<1>6. \A i \in DOMAIN r : Old(i) \in DOMAIN q /\ r[i] = q[Old(i)] /\ Old(i) # p
  BY <1>1, <1>4, <1>5
<1>7. \A j \in DOMAIN q : j # p => New(j) \in DOMAIN r /\ r[New(j)] = q[j]
  BY <1>1, <1>4, <1>5
<1>8. \A i, j \in DOMAIN r : (i < j <=> Old(i) < Old(j)) /\ (Old(i) = Old(j) => i = j)
  BY <1>1, <1>5
<1>9. \A i, j \in DOMAIN q : i # p /\ j # p /\ i < j => New(i) < New(j)
  BY <1>1
<1>. HIDE DEF Old, New
<1>10. \A i \in DOMAIN q : q[i] = q[p] <=> i = p
  BY DEF NoRepeat
<1>11. NoRepeat(r)
  <2> SUFFICES ASSUME NEW i \in DOMAIN r, NEW j \in DOMAIN r, r[i] = r[j] PROVE i = j
    BY DEF NoRepeat
  <2>1. Old(i) = Old(j)
    BY <1>6 DEF NoRepeat
  <2> QED BY <1>8, <2>1
<1>12. ASSUME NEW x PROVE Listed(r, x) <=> Listed(q, x) /\ x # q[p]
  <2>1. ASSUME Listed(r, x) PROVE Listed(q, x) /\ x # q[p]
    BY <1>6, <1>10, <2>1 DEF Listed
  <2>2. ASSUME Listed(q, x), x # q[p] PROVE Listed(r, x)
    BY <1>7, <2>2 DEF Listed
  <2> QED BY <2>1, <2>2
<1>13. ASSUME NEW x, NEW y
       PROVE  Precedes(r, x, y) <=> Precedes(q, x, y) /\ x # q[p] /\ y # q[p]
  <2>1. ASSUME Precedes(r, x, y) PROVE Precedes(q, x, y) /\ x # q[p] /\ y # q[p]
    BY <1>6, <1>8, <1>10, <2>1 DEF Precedes
  <2>2. ASSUME Precedes(q, x, y), x # q[p], y # q[p] PROVE Precedes(r, x, y)
    BY <1>7, <1>9, <2>2 DEF Precedes
  <2> QED BY <2>1, <2>2
<1> QED BY <1>4, <1>11, <1>12, <1>13 DEF r, f, g

\* Taking a run out of the queue, if it is in it.
LEMMA AbandonQueue ==
  ASSUME NEW s, open \in Seq(Syncers), NoRepeat(open), Abandon(s)
  PROVE  /\ open' \in Seq(Syncers) /\ NoRepeat(open') /\ last' = last
         /\ \A x : Listed(open', x) <=> Listed(open, x) /\ x # s
         /\ \A x, y : Precedes(open', x, y) <=> Precedes(open, x, y) /\ x # s /\ y # s
<1>1. CASE IsOpen(s)
  <2>1. Place(s) \in DOMAIN open /\ open[Place(s)] = s
    BY <1>1, PlaceIsThere
  <2>2. open' = SubSeq(open, 1, Place(s) - 1) \o SubSeq(open, Place(s) + 1, Len(open))
    BY <1>1 DEF Abandon, Before, After
  <2>3. \A p \in DOMAIN open :
           LET r == SubSeq(open, 1, p - 1) \o SubSeq(open, p + 1, Len(open)) IN
           /\ r \in Seq(Syncers) /\ NoRepeat(r)
           /\ \A x : Listed(r, x) <=> Listed(open, x) /\ x # open[p]
           /\ \A x, y : Precedes(r, x, y) <=> Precedes(open, x, y) /\ x # open[p] /\ y # open[p]
    BY TakenOut
  <2> QED BY <2>1, <2>2, <2>3 DEF Abandon
<1>2. CASE ~ IsOpen(s)
  <2>1. open' = open /\ last' = last
    BY <1>2 DEF Abandon
  <2>2. ~ Listed(open, s)
    BY <1>2 DEF IsOpen, Listed
  <2>3. \A x, y : Precedes(open, x, y) => Listed(open, x) /\ Listed(open, y)
    BY DEF Precedes, Listed
  <2> QED BY <2>1, <2>2, <2>3
<1> QED BY <1>1, <1>2

\* Closing a run that is in the queue drops it and the runs created before it.
LEMMA CloseQueue ==
  ASSUME NEW s, NEW status, open \in Seq(Syncers), NoRepeat(open), Close(s, status)
  PROVE  /\ open' \in Seq(Syncers) /\ NoRepeat(open')
         /\ Listed(open, s) =>
              /\ last' = status
              /\ \A x : Listed(open', x) <=> Precedes(open, s, x)
              /\ \A x, y : Precedes(open', x, y)
                               <=> Precedes(open, x, y) /\ Precedes(open, s, x)
         /\ ~ Listed(open, s) => open' = open /\ last' = last
<1>1. CASE IsOpen(s)
  <2>1. Place(s) \in DOMAIN open /\ open[Place(s)] = s
    BY <1>1, PlaceIsThere
  <2>2. open' = SubSeq(open, Place(s) + 1, Len(open)) /\ last' = status
    BY <1>1 DEF Close, After
  <2>3. Listed(open, s)
    BY <1>1 DEF IsOpen, Listed
  <2> QED BY <2>1, <2>2, <2>3, KeptAfter
<1>2. CASE ~ IsOpen(s)
  BY <1>2 DEF Close, board, IsOpen, Listed
<1> QED BY <1>1, <1>2

-----------------------------------------------------------------------------
(* Typing.  The queue holds a caller at most once, and only one that has     *)
(* saved its run.                                                            *)

QueueOK ==
    /\ NoRepeat(open)
    /\ \A s : Listed(open, s) => pc[s] \notin {"idle", "started"}

SyncTypes == TypeOK /\ QueueOK /\ edits <= MaxEdits

\* A ledger row that is put in has the two fields of a row (trade_events).
LEMMA RowTypes ==
  /\ \A new \in SUBSET Trades : [id : new, payload : {"original"}] \subseteq Row
  /\ \A r \in Row : [r EXCEPT !.payload = "edited"] \in Row
  /\ \A rows \in SUBSET Row : Ids(rows) \subseteq Trades
  BY DEF Row, Ids

\* A fee projection names a row and the rows it was computed from.
LEMMA FeePlanType ==
  ASSUME NEW rows \in SUBSET Row
  PROVE  FeePlan(rows) \in SUBSET [trade : Row, samples : SUBSET Row]
  BY DEF FeePlan, Samples

\* Publishing a version keeps the types of the ledger.
LEMMA PublishTypes ==
  ASSUME TypeOK, NEW rows \in SUBSET Row, Publish(rows)
  PROVE  /\ source' \in SUBSET Row /\ published' \in SUBSET SUBSET Row
         /\ moves' \in [Syncers -> 0 .. 2]
<1>1. \A s \in Syncers : (IF pc[s] = "idle" \/ moves[s] = 2 THEN moves[s] ELSE moves[s] + 1)
                           \in 0 .. 2
  BY DEF TypeOK
<1> QED BY <1>1 DEF Publish, TypeOK

\* A step that moves one caller and no queue keeps the queue.
LEMMA QueueFrame ==
  ASSUME TypeOK, QueueOK, NEW s \in Syncers, NEW l \in Labels, GoTo(s, l), open' = open,
         l \notin {"idle", "started"} \/ ~ Listed(open, s)
  PROVE  QueueOK'
<1>1. \A x : Listed(open, x) => pc'[x] \notin {"idle", "started"}
  <2> SUFFICES ASSUME NEW x, Listed(open, x) PROVE pc'[x] \notin {"idle", "started"}
    OBVIOUS
  <2>1. x \in Syncers
    BY DEF Listed, TypeOK
  <2>2. pc'[x] = IF x = s THEN l ELSE pc[x]
    BY <2>1 DEF GoTo, TypeOK
  <2> QED BY <2>2 DEF QueueOK
<1> QED BY <1>1 DEF QueueOK

\* Every step of a call, of the ledger and every fault keeps the types, and
\* runs enter and leave the queue only as _save_run and Close say.
LEMMA SyncTypesStep ==
  ASSUME SyncTypes, [Next]_vars
  PROVE  SyncTypes'
<1> USE DEF SyncTypes
<1>u. CASE UNCHANGED vars
  BY <1>u DEF vars, TypeOK, QueueOK
<1>a. CASE Commit
  <2>1. PICK new \in (SUBSET (Trades \ Ids(source))) \ {{}} :
             Publish(source \cup [id : new, payload : {"original"}])
    BY <1>a DEF Commit
  <2>2. source \cup [id : new, payload : {"original"}] \in SUBSET Row
    BY RowTypes DEF TypeOK
  <2>3. source' \in SUBSET Row /\ published' \in SUBSET SUBSET Row /\ moves' \in [Syncers -> 0 .. 2]
    BY <2>1, <2>2, PublishTypes
  <2> QED BY <1>a, <2>3 DEF Commit, TypeOK, QueueOK, tables, board, limits
<1>b. CASE Edit
  <2>1. PICK rows \in SUBSET Row : Publish(rows)
    <3>1. PICK r \in source :
             \/ Publish(source \ {r})
             \/ Publish((source \ {r}) \cup {[r EXCEPT !.payload = "edited"]})
      BY <1>b DEF Edit
    <3>2. /\ source \ {r} \in SUBSET Row
          /\ (source \ {r}) \cup {[r EXCEPT !.payload = "edited"]} \in SUBSET Row
      BY <3>1, RowTypes DEF TypeOK
    <3> QED BY <3>1, <3>2
  <2>2. source' \in SUBSET Row /\ published' \in SUBSET SUBSET Row /\ moves' \in [Syncers -> 0 .. 2]
    BY <2>1, PublishTypes
  <2>3. edits' \in Nat /\ edits' <= MaxEdits
    BY <1>b, SyncConstants DEF Edit, TypeOK
  <2> QED BY <1>b, <2>2, <2>3 DEF Edit, TypeOK, QueueOK, tables, board, limits
<1>c. ASSUME NEW s \in Syncers, Start(s) PROVE SyncTypes'
  <2>1. TypeOK' /\ edits' <= MaxEdits
    BY <1>c DEF Start, TypeOK, GoTo, Labels, tables, board, limits
  <2>2. ~ Listed(open, s) /\ open' = open
    BY <1>c DEF Start, QueueOK, board
  <2>3. QueueOK'
    BY <1>c, <2>2, QueueFrame DEF Start, Labels
  <2> QED BY <2>1, <2>3
<1>d. ASSUME NEW s \in Syncers, OpenRun(s) PROVE SyncTypes'
  <2>1. ~ Listed(open, s)
    BY <1>d DEF OpenRun, QueueOK
  <2>2. /\ open' \in Seq(Syncers) /\ NoRepeat(open')
        /\ \A x : Listed(open', x) <=> Listed(open, x) \/ x = s
    BY <1>d, <2>1, Appended DEF OpenRun, TypeOK, QueueOK
  <2>3. \A x : Listed(open', x) => x \in Syncers
    BY <2>2 DEF Listed
  <2>4. \A x \in Syncers : pc'[x] = IF x = s THEN "import" ELSE pc[x]
    BY <1>d DEF OpenRun, GoTo, TypeOK
  <2>5. QueueOK'
    BY <2>2, <2>3, <2>4 DEF QueueOK
  <2>6. TypeOK' /\ edits' <= MaxEdits
    BY <1>d, <2>2 DEF OpenRun, TypeOK, GoTo, Labels, ledger, tables, limits
  <2> QED BY <2>5, <2>6
<1>e. ASSUME NEW s \in Syncers, Import(s) PROVE SyncTypes'
  <2>1. PICK l \in {"fail", "verify"} : GoTo(s, l)
    BY <1>e DEF Import
  <2>2. QueueOK'
    BY <1>e, <2>1, QueueFrame DEF Import, Labels, board
  <2>3. sidecar' \in SUBSET Row /\ previous' \in SUBSET Trades /\ fees' = fees
    BY <1>e, RowTypes DEF Import, TypeOK, tables
  <2>4. pc' \in [Syncers -> Labels]
    BY <2>1 DEF GoTo, TypeOK, Labels
  <2> QED BY <1>e, <2>2, <2>3, <2>4 DEF Import, TypeOK, ledger, board, limits
<1>f. ASSUME NEW s \in Syncers, Verify(s) PROVE SyncTypes'
  <2>1. PICK l \in {"fail", "fees"} : GoTo(s, l)
    BY <1>f DEF Verify
  <2>2. QueueOK'
    BY <1>f, <2>1, QueueFrame DEF Verify, Labels, board
  <2>4. pc' \in [Syncers -> Labels]
    BY <2>1 DEF GoTo, TypeOK, Labels
  <2> QED BY <1>f, <2>2, <2>4 DEF Verify, TypeOK, ledger, tables, board, limits
<1>g. ASSUME NEW s \in Syncers, SaveFees(s) PROVE SyncTypes'
  <2>1. PICK l \in {"fail", "confirm"} : GoTo(s, l)
    BY <1>g DEF SaveFees
  <2>2. QueueOK'
    BY <1>g, <2>1, QueueFrame DEF SaveFees, Labels, board
  <2>3. fees' \in SUBSET [trade : Row, samples : SUBSET Row]
    <3>1. FeePlan(snap[s]) \in SUBSET [trade : Row, samples : SUBSET Row]
      BY FeePlanType DEF TypeOK
    <3> QED BY <1>g, <3>1 DEF SaveFees, TypeOK
  <2>4. pc' \in [Syncers -> Labels]
    BY <2>1 DEF GoTo, TypeOK, Labels
  <2> QED BY <1>g, <2>2, <2>3, <2>4 DEF SaveFees, TypeOK, ledger, board, limits
<1>h. ASSUME NEW s \in Syncers, Confirm(s) PROVE SyncTypes'
  <2>1. PICK l \in {"succeed", "retry", "block"} : GoTo(s, l)
    BY <1>h DEF Confirm
  <2>2. QueueOK'
    BY <1>h, <2>1, QueueFrame DEF Confirm, Labels, board
  <2>3. snap' \in [Syncers -> SUBSET Row]
    BY <1>h DEF Confirm, TypeOK
  <2>4. pc' \in [Syncers -> Labels]
    BY <2>1 DEF GoTo, TypeOK, Labels
  <2> QED BY <1>h, <2>2, <2>3, <2>4 DEF Confirm, TypeOK, ledger, tables, board, limits
<1>i. ASSUME NEW s \in Syncers, NEW l \in {"idle", "started"}, GoTo(s, l), Abandon(s),
             attempt' \in [Syncers -> {1, 2}], errors' \in Nat, crashes' \in Nat,
             UNCHANGED <<ledger, tables, snap>>
      PROVE  SyncTypes'
  <2>1. /\ open' \in Seq(Syncers) /\ NoRepeat(open') /\ last' = last
        /\ \A x : Listed(open', x) <=> Listed(open, x) /\ x # s
    BY <1>i, AbandonQueue DEF TypeOK, QueueOK
  <2>2. \A x : Listed(open, x) => x \in Syncers
    BY DEF Listed, TypeOK
  <2>3. \A x \in Syncers : pc'[x] = IF x = s THEN l ELSE pc[x]
    BY <1>i DEF GoTo, TypeOK
  <2>4. QueueOK'
    BY <2>1, <2>2, <2>3 DEF QueueOK
  <2>5. pc' \in [Syncers -> Labels]
    BY <1>i DEF GoTo, TypeOK, Labels
  <2> QED BY <1>i, <2>1, <2>4, <2>5 DEF TypeOK, ledger, tables
<1>j. ASSUME NEW s \in Syncers, Retry(s) PROVE SyncTypes'
  BY <1>i, <1>j DEF Retry, TypeOK, limits
<1>k. ASSUME NEW s \in Syncers, Finish(s) PROVE SyncTypes'
  <2>1. Statuses[pc[s]] \in {"succeeded", "failed", "blocked"}
    BY <1>k DEF Finish, Statuses
  <2>2. /\ open' \in Seq(Syncers) /\ NoRepeat(open')
        /\ \A x : Listed(open', x) => Listed(open, x) /\ x # s
        /\ last' \in {"none", "succeeded", "failed", "blocked"}
    <3>1. /\ open' \in Seq(Syncers) /\ NoRepeat(open')
          /\ Listed(open, s) =>
               /\ last' = Statuses[pc[s]]
               /\ \A x : Listed(open', x) <=> Precedes(open, s, x)
          /\ ~ Listed(open, s) => open' = open /\ last' = last
      BY <1>k, CloseQueue DEF Finish, TypeOK, QueueOK
    <3>2. \A x : Precedes(open, s, x) => Listed(open, x) /\ x # s
      BY CreationOrder DEF TypeOK, QueueOK
    <3> QED BY <2>1, <3>1, <3>2 DEF TypeOK
  <2>3. \A x : Listed(open, x) => x \in Syncers
    BY DEF Listed, TypeOK
  <2>4. \A x \in Syncers : pc'[x] = IF x = s THEN "idle" ELSE pc[x]
    BY <1>k DEF Finish, GoTo, TypeOK
  <2>5. QueueOK'
    BY <2>2, <2>3, <2>4 DEF QueueOK
  <2>6. pc' \in [Syncers -> Labels]
    BY <1>k DEF Finish, GoTo, TypeOK, Labels
  <2> QED BY <1>k, <2>2, <2>5, <2>6 DEF Finish, TypeOK, ledger, tables, limits
<1>l. ASSUME NEW s \in Syncers, Raise(s) PROVE SyncTypes'
  <2>1. CASE GoTo(s, "idle") /\ Abandon(s)
    BY <1>i, <1>l, <2>1 DEF Raise, TypeOK
  <2>2. CASE GoTo(s, "fail") /\ UNCHANGED board
    <3>1. QueueOK'
      BY <2>2, QueueFrame DEF Labels, board
    <3>2. pc' \in [Syncers -> Labels]
      BY <2>2 DEF GoTo, TypeOK, Labels
    <3> QED BY <1>l, <2>2, <3>1, <3>2 DEF Raise, TypeOK, ledger, tables, board
  <2> QED BY <1>l, <2>1, <2>2 DEF Raise
<1>m. ASSUME NEW s \in Syncers, Crash(s) PROVE SyncTypes'
  BY <1>i, <1>m DEF Crash, TypeOK
<1> QED BY <1>u, <1>a, <1>b, <1>c, <1>d, <1>e, <1>f, <1>g, <1>h, <1>j, <1>k, <1>l, <1>m
        DEF Next, Step

\* The types and the queue of runs, in every state of a sync.
LEMMA SyncTypesHold == Spec => []SyncTypes
<1>1. Init => SyncTypes
  <2> SUFFICES ASSUME Init PROVE SyncTypes
    OBVIOUS
  <2>1. TypeOK
    BY DEF Init, TypeOK, Labels
  <2>2. QueueOK
    BY DEF Init, QueueOK, NoRepeat, Listed
  <2> QED BY <2>1, <2>2, SyncConstants DEF Init, SyncTypes
<1>2. SyncTypes /\ [Next]_vars => SyncTypes'
  BY SyncTypesStep
<1> QED BY <1>1, <1>2, PTL DEF Spec

\* Typing: the ledger's and the sidecar's rows, the queue of runs and the
\* locals of every caller have the shapes TypeOK gives (sync_service.py).
THEOREM SyncTyped == Spec => []TypeOK
<1>1. SyncTypes => TypeOK
  BY DEF SyncTypes
<1> QED BY <1>1, SyncTypesHold, PTL

-----------------------------------------------------------------------------
(* What is copied is a version of the ledger.  Unless rows are changed by    *)
(* hand, the versions form a chain, so that one import on top of another     *)
(* leaves the larger of the two; and if no two imports tie, the rows that    *)
(* the next import compares itself with are those of the sidecar.            *)

Chain ==
    \A v, w \in published : v \subseteq source /\ (v \subseteq w \/ w \subseteq v)

VersionInv ==
    /\ source \in published /\ {} \in published
    /\ \A s \in Syncers : snap[s] \in published
    /\ edits = 0 => Chain
    /\ ~ Ties => previous = Ids(sidecar)
    /\ ~ Ties \/ edits = 0 => sidecar \in published

\* A first attempt knows of no change, and a second one of the first only.
Informed(s) ==
    IF attempt[s] = 2 \/ pc[s] = "retry"
    THEN moves[s] # 0 /\ (moves[s] = 1 => snap[s] = source)
    ELSE moves[s] = 0 => snap[s] = source

Progress(s) ==
    /\ pc[s] \in {"fees", "confirm", "succeed"} => snap[s] \subseteq sidecar
    /\ pc[s] \in {"confirm", "succeed"} => FeePlan(snap[s]) \subseteq fees
    /\ pc[s] # "idle" => Informed(s)

SyncInv == VersionInv /\ \A s \in Syncers : Progress(s)

\* Another version of the ledger, larger unless it was changed by hand.
LEMMA PublishVersion ==
  ASSUME SyncTypes, SyncInv, NEW rows, Publish(rows), UNCHANGED <<tables, pc, snap, attempt>>,
         edits' # 0 \/ (edits' = edits /\ source \subseteq rows), edits = 0 \/ edits' # 0
  PROVE  SyncInv'
<1>1. VersionInv'
  <2>1. source' \in published' /\ {} \in published' /\ \A s \in Syncers : snap'[s] \in published'
    BY DEF Publish, SyncInv, VersionInv
  <2>2. edits' = 0 => Chain'
    BY DEF Publish, SyncInv, VersionInv, Chain
  <2>3. /\ ~ Ties => previous' = Ids(sidecar)'
        /\ ~ Ties \/ edits' = 0 => sidecar' \in published'
    BY DEF Publish, SyncInv, VersionInv, tables, Ids
  <2> QED BY <2>1, <2>2, <2>3 DEF VersionInv
<1>2. ASSUME NEW s \in Syncers PROVE Progress(s)'
  <2>1. Progress(s) /\ pc'[s] = pc[s] /\ snap'[s] = snap[s] /\ attempt'[s] = attempt[s]
    BY DEF SyncInv
  <2>2. sidecar' = sidecar /\ fees' = fees
    BY DEF tables
  <2>3. FeePlan(snap[s])' = FeePlan(snap[s])
    BY DEF FeePlan, Samples
  <2>4. pc[s] # "idle" => moves'[s] = IF moves[s] = 2 THEN 2 ELSE moves[s] + 1
    BY DEF Publish
  <2>5. moves[s] \in 0 .. 2
    BY DEF SyncTypes, TypeOK
  <2>6. pc[s] # "idle" => Informed(s)'
    BY <2>1, <2>4, <2>5 DEF Informed, Progress
  <2> QED BY <2>1, <2>2, <2>3, <2>6 DEF Progress
<1> QED BY <1>1, <1>2 DEF SyncInv

\* Whoever is not moved by a step keeps what it knows, for the tables grow.
LEMMA OthersProgress ==
  ASSUME SyncInv, NEW s \in Syncers, NEW x \in Syncers, x # s,
         \E l \in Labels : GoTo(s, l), pc \in [Syncers -> Labels],
         snap'[x] = snap[x], attempt'[x] = attempt[x], moves'[x] = moves[x],
         source' = source, sidecar \subseteq sidecar', fees \subseteq fees'
  PROVE  Progress(x)'
<1>1. pc'[x] = pc[x] /\ Progress(x)
  BY DEF GoTo, SyncInv
<1>2. FeePlan(snap[x])' = FeePlan(snap[x])
  BY DEF FeePlan, Samples
<1> QED BY <1>1, <1>2 DEF Progress, Informed

\* Snapshots, imports and confirmations keep what every call knows of the
\* ledger's versions, whoever comes in between (sync).
LEMMA SyncInvStep ==
  ASSUME SyncTypes, SyncInv, [Next]_vars
  PROVE  SyncInv'
<1>t. /\ pc \in [Syncers -> Labels] /\ snap \in [Syncers -> SUBSET Row]
      /\ attempt \in [Syncers -> {1, 2}] /\ moves \in [Syncers -> 0 .. 2] /\ edits \in Nat
  BY DEF SyncTypes, TypeOK
<1>u. CASE UNCHANGED vars
  <2>1. \A s \in Syncers : FeePlan(snap[s])' = FeePlan(snap[s])
    BY <1>u DEF vars, FeePlan, Samples
  <2>2. VersionInv'
    BY <1>u DEF vars, SyncInv, VersionInv, Chain, Ids
  <2>3. \A s \in Syncers : Progress(s)'
    BY <1>u, <2>1 DEF vars, SyncInv, Progress, Informed
  <2> QED BY <2>2, <2>3 DEF SyncInv
<1>a. CASE Commit
  <2>1. PICK new : Publish(source \cup [id : new, payload : {"original"}])
    BY <1>a DEF Commit
  <2> QED BY <1>a, <2>1, PublishVersion DEF Commit
<1>b. CASE Edit
  <2>1. PICK rows : Publish(rows)
    BY <1>b DEF Edit
  <2>2. edits' # 0
    BY <1>b, <1>t DEF Edit
  <2> QED BY <1>b, <2>1, <2>2, PublishVersion DEF Edit
<1>c. ASSUME NEW s \in Syncers, NEW l \in Labels, GoTo(s, l), UNCHANGED <<ledger, tables>>,
             \A x \in Syncers : x # s => snap'[x] = snap[x] /\ attempt'[x] = attempt[x],
             snap'[s] \in published, Progress(s)'
      PROVE  SyncInv'
  <2>1. \A x \in Syncers : x # s => Progress(x)'
    BY <1>c, <1>t, OthersProgress DEF ledger, tables
  <2>2. VersionInv'
    BY <1>c DEF SyncInv, VersionInv, Chain, Ids, ledger, tables
  <2> QED BY <1>c, <2>1, <2>2 DEF SyncInv
<1>d. ASSUME NEW s \in Syncers, NEW l \in Labels, GoTo(s, l), UNCHANGED <<ledger, tables, snap, attempt>>,
             l \in {"fees", "confirm", "succeed"} => snap[s] \subseteq sidecar,
             l \in {"confirm", "succeed"} => FeePlan(snap[s]) \subseteq fees,
             l # "retry", pc[s] \notin {"idle", "retry"}
      PROVE  SyncInv'
  <2>1. pc'[s] = l /\ Progress(s)
    BY <1>d, <1>t DEF GoTo, SyncInv
  <2>2. FeePlan(snap[s])' = FeePlan(snap[s])
    BY <1>d DEF FeePlan, Samples
  <2>3. Progress(s)'
    BY <1>d, <2>1, <2>2 DEF Progress, Informed, ledger, tables
  <2> QED BY <1>c, <1>d, <2>3 DEF SyncInv, VersionInv
<1>e. ASSUME NEW s \in Syncers, GoTo(s, "idle"), UNCHANGED <<ledger, tables, snap, attempt>>
      PROVE  SyncInv'
  <2>1. Progress(s)'
    BY <1>e, <1>t DEF GoTo, Progress
  <2> QED BY <1>c, <1>e, <2>1 DEF SyncInv, VersionInv, Labels
<1>f. ASSUME NEW s \in Syncers, Start(s) PROVE SyncInv'
  <2>1. /\ pc'[s] = "started" /\ snap'[s] = source /\ attempt'[s] = 1 /\ source' = source
        /\ moves'[s] = 0
    BY <1>f, <1>t DEF Start, GoTo
  <2>2. Progress(s)'
    BY <2>1 DEF Progress, Informed
  <2>3. \A x \in Syncers : x # s => Progress(x)'
    BY <1>f, <1>t, OthersProgress DEF Start, tables, Labels
  <2>4. VersionInv'
    BY <1>f, <1>t DEF Start, SyncInv, VersionInv, Chain, Ids, tables
  <2> QED BY <2>2, <2>3, <2>4 DEF SyncInv
<1>g. ASSUME NEW s \in Syncers, OpenRun(s) PROVE SyncInv'
  BY <1>d, <1>g DEF OpenRun, Labels
<1>h. ASSUME NEW s \in Syncers, Import(s) PROVE SyncInv'
  <2>1. CASE Removed(snap[s]) \/ Changed(snap[s])
    BY <1>d, <1>h, <2>1 DEF Import, Labels
  <2>2. CASE ~ (Removed(snap[s]) \/ Changed(snap[s]))
    <3>1. /\ sidecar' = sidecar \cup snap[s] /\ fees' = fees /\ UNCHANGED <<ledger, snap, attempt>>
          /\ previous' \in {Ids(snap[s])} \cup (IF Ties THEN {previous} ELSE {})
          /\ snap[s] = {} => previous' = previous
          /\ GoTo(s, "verify") /\ pc[s] = "import"
      BY <1>h, <2>2 DEF Import
    <3>2. \A x \in Syncers : x # s => Progress(x)'
      BY <1>t, <3>1, OthersProgress DEF ledger, Labels
    <3>3. Progress(s)'
      BY <1>t, <3>1 DEF GoTo, SyncInv, Progress, Informed, ledger
    <3>4. ASSUME ~ Ties PROVE sidecar' = snap[s] /\ previous' = Ids(sidecar)'
      <4>1. previous = Ids(sidecar) /\ previous \subseteq Ids(snap[s])
        BY <2>2, <3>4 DEF SyncInv, VersionInv, Removed
      <4>2. ASSUME NEW e \in sidecar PROVE e \in snap[s]
        <5>1. e.id \in Ids(snap[s])
          BY <4>1, <4>2 DEF Ids
        <5>2. PICK r \in snap[s] : r.id = e.id
          BY <5>1 DEF Ids
        <5> QED BY <2>2, <5>2 DEF Changed
      <4>3. sidecar' = snap[s]
        BY <3>1, <4>2
      <4>4. previous' = Ids(snap[s])
        BY <3>1, <3>4
      <4> QED BY <4>3, <4>4 DEF Ids
    <3>5. ASSUME edits = 0 PROVE sidecar' \in published
      <4>1. sidecar \in published /\ snap[s] \in published /\ Chain
        BY <3>5 DEF SyncInv, VersionInv
      <4>2. sidecar \subseteq snap[s] \/ snap[s] \subseteq sidecar
        BY <4>1 DEF Chain
      <4>3. sidecar' = snap[s] \/ sidecar' = sidecar
        BY <3>1, <4>2
      <4> QED BY <4>1, <4>3
    <3>6. VersionInv'
      BY <3>1, <3>4, <3>5 DEF SyncInv, VersionInv, Chain, ledger
    <3> QED BY <3>2, <3>3, <3>6 DEF SyncInv
  <2> QED BY <2>1, <2>2
<1>i. ASSUME NEW s \in Syncers, Verify(s) PROVE SyncInv'
  <2>1. CASE sidecar = snap[s]
    BY <1>d, <1>i, <2>1 DEF Verify, Labels
  <2>2. CASE sidecar # snap[s]
    BY <1>d, <1>i, <2>2 DEF Verify, Labels
  <2> QED BY <2>1, <2>2
<1>j. ASSUME NEW s \in Syncers, SaveFees(s) PROVE SyncInv'
  <2>1. CASE FeeConflict(FeePlan(snap[s]))
    <3>1. UNCHANGED tables
      BY <1>j, <2>1 DEF SaveFees, tables
    <3> QED BY <1>d, <1>j, <2>1, <3>1 DEF SaveFees, Labels
  <2>2. CASE ~ FeeConflict(FeePlan(snap[s]))
    <3>1. /\ fees' = fees \cup FeePlan(snap[s]) /\ GoTo(s, "confirm") /\ pc[s] = "fees"
          /\ UNCHANGED <<ledger, sidecar, previous, snap, attempt>>
      BY <1>j, <2>2 DEF SaveFees
    <3>2. \A x \in Syncers : x # s => Progress(x)'
      BY <1>t, <3>1, OthersProgress DEF ledger, Labels
    <3>3. FeePlan(snap[s])' = FeePlan(snap[s])
      BY <3>1 DEF FeePlan, Samples
    <3>4. Progress(s)'
      BY <1>t, <3>1, <3>3 DEF GoTo, SyncInv, Progress, Informed, ledger
    <3>5. VersionInv'
      BY <3>1 DEF SyncInv, VersionInv, Chain, Ids, ledger
    <3> QED BY <3>2, <3>4, <3>5 DEF SyncInv
  <2> QED BY <2>1, <2>2
<1>k. ASSUME NEW s \in Syncers, Confirm(s) PROVE SyncInv'
  <2>1. CASE source = snap[s]
    BY <1>d, <1>k, <2>1 DEF Confirm, Labels, SyncInv, Progress
  <2>2. CASE source # snap[s] /\ attempt[s] # 1
    BY <1>d, <1>k, <2>2 DEF Confirm, Labels
  <2>3. CASE source # snap[s] /\ attempt[s] = 1
    <3>1. /\ pc'[s] = "retry" /\ snap'[s] = source /\ attempt'[s] = 1 /\ moves'[s] = moves[s]
          /\ source' = source
      BY <1>k, <1>t, <2>3 DEF Confirm, GoTo, ledger
    <3>2. moves[s] # 0
      BY <1>k, <2>3 DEF Confirm, SyncInv, Progress, Informed
    <3>3. Progress(s)'
      BY <3>1, <3>2 DEF Progress, Informed
    <3>4. \A x \in Syncers : x # s => snap'[x] = snap[x] /\ attempt'[x] = attempt[x]
      BY <1>k, <1>t, <2>3 DEF Confirm
    <3>5. UNCHANGED <<ledger, tables>> /\ GoTo(s, "retry")
      BY <1>k, <2>3 DEF Confirm
    <3>6. snap'[s] \in published
      BY <3>1 DEF SyncInv, VersionInv
    <3> QED BY <1>c, <3>3, <3>4, <3>5, <3>6 DEF Labels
  <2> QED BY <2>1, <2>2, <2>3
<1>l. ASSUME NEW s \in Syncers, Retry(s) PROVE SyncInv'
  <2>1. /\ pc'[s] = "started" /\ snap' = snap /\ attempt'[s] = 2 /\ source' = source
        /\ moves' = moves /\ pc[s] = "retry"
    BY <1>l, <1>t DEF Retry, GoTo, ledger
  <2>2. Progress(s)'
    BY <2>1 DEF SyncInv, Progress, Informed
  <2>3. \A x \in Syncers : x # s => snap'[x] = snap[x] /\ attempt'[x] = attempt[x]
    BY <1>l, <1>t DEF Retry
  <2>4. snap'[s] \in published
    BY <2>1 DEF SyncInv, VersionInv
  <2> QED BY <1>c, <1>l, <2>2, <2>3, <2>4 DEF Retry, Labels
<1>m. ASSUME NEW s \in Syncers, Finish(s) \/ Crash(s) PROVE SyncInv'
  BY <1>e, <1>m DEF Finish, Crash
<1>n. ASSUME NEW s \in Syncers, Raise(s) PROVE SyncInv'
  <2>1. CASE GoTo(s, "idle")
    BY <1>e, <1>n, <2>1 DEF Raise
  <2>2. CASE pc[s] \notin {"started", "fail"} /\ GoTo(s, "fail")
    <3>1. CASE pc[s] # "retry"
      BY <1>d, <1>n, <2>2, <3>1 DEF Raise, Labels
    <3>2. CASE pc[s] = "retry"
      <4>1. pc'[s] = "fail" /\ snap' = snap /\ attempt' = attempt /\ source' = source /\ moves' = moves
        BY <1>n, <1>t, <2>2 DEF Raise, GoTo, ledger
      <4>2. Progress(s)'
        BY <3>2, <4>1 DEF SyncInv, Progress, Informed
      <4> QED BY <1>c, <1>n, <2>2, <4>1, <4>2 DEF Raise, Labels, SyncInv, VersionInv
    <3> QED BY <3>1, <3>2
  <2> QED BY <1>n, <2>1, <2>2 DEF Raise
<1> QED BY <1>u, <1>a, <1>b, <1>f, <1>g, <1>h, <1>i, <1>j, <1>k, <1>l, <1>m, <1>n
        DEF Next, Step

\* What is copied is a version of the ledger, in every state of a sync.
LEMMA SyncInvHolds == Spec => []SyncInv
<1>1. Init => SyncInv
  <2> SUFFICES ASSUME Init PROVE SyncInv
    OBVIOUS
  <2>1. VersionInv
    BY DEF Init, VersionInv, Chain, Ids
  <2>2. \A s \in Syncers : Progress(s)
    BY DEF Init, Progress
  <2> QED BY <2>1, <2>2 DEF SyncInv
<1>2. SyncTypes /\ SyncInv /\ [Next]_vars => SyncInv'
  BY SyncInvStep
<1> QED BY <1>1, <1>2, SyncTypesHold, PTL DEF Spec

-----------------------------------------------------------------------------
(* The refinement.  A commit or an edit publishes another version; an import *)
(* moves the mirror to a version above it; every other step stutters.        *)

\* An import that finds no removed and no changed row takes the sidecar to a
\* version of the ledger that contains it (import_events).
LEMMA ImportCatchesUp ==
  ASSUME SyncTypes, SyncInv, NEW s \in Syncers, Import(s), ~ Ties \/ edits = 0
  PROVE  Mirror!CatchUp \/ UNCHANGED <<source, published, sidecar>>
<1>1. CASE Removed(snap[s]) \/ Changed(snap[s])
  BY <1>1 DEF Import, tables, ledger
<1>2. CASE ~ (Removed(snap[s]) \/ Changed(snap[s]))
  <2>1. /\ sidecar' = sidecar \cup snap[s] /\ UNCHANGED <<source, published>>
        /\ snap[s] \in published /\ sidecar \in published
    BY <1>2 DEF Import, SyncInv, VersionInv, ledger
  <2>2. sidecar \subseteq snap[s] \/ snap[s] \subseteq sidecar
    <3>1. CASE edits = 0
      BY <2>1, <3>1 DEF SyncInv, VersionInv, Chain
    <3>2. CASE ~ Ties
      <4>1. previous = Ids(sidecar) /\ previous \subseteq Ids(snap[s])
        BY <1>2, <3>2 DEF SyncInv, VersionInv, Removed
      <4>2. ASSUME NEW e \in sidecar PROVE e \in snap[s]
        <5>1. PICK r \in snap[s] : r.id = e.id
          BY <4>1, <4>2 DEF Ids
        <5> QED BY <1>2, <5>1 DEF Changed
      <4> QED BY <4>2
    <3> QED BY <3>1, <3>2
  <2>3. CASE sidecar \subseteq snap[s]
    <3>1. sidecar' = snap[s]
      BY <2>1, <2>3
    <3> QED BY <2>1, <2>3, <3>1 DEF Mirror!CatchUp
  <2>4. CASE snap[s] \subseteq sidecar
    BY <2>1, <2>4
  <2> QED BY <2>2, <2>3, <2>4
<1> QED BY <1>1, <1>2

\* Every step of sync and of the ledger is a step of the mirror or a stutter.
LEMMA MirrorStep ==
  ASSUME SyncTypes, SyncInv, [Next]_vars, ~ Ties \/ MaxEdits = 0
  PROVE  [Mirror!Next]_<<source, published, sidecar>>
<1> DEFINE Stutter == UNCHANGED <<source, published, sidecar>>
<1>u. CASE UNCHANGED vars
  BY <1>u DEF vars
<1>a. CASE Commit
  <2>1. PICK new \in (SUBSET (Trades \ Ids(source))) \ {{}} :
             Publish(source \cup [id : new, payload : {"original"}])
    BY <1>a DEF Commit
  <2>2. PICK t \in new : t \notin Ids(source)
    BY <2>1
  <2>3. [id |-> t, payload |-> "original"] \in source'
    BY <2>1, <2>2 DEF Publish
  <2>4. [id |-> t, payload |-> "original"] \notin source
    BY <2>2 DEF Ids
  <2>5. source' # source
    BY <2>3, <2>4
  <2> QED BY <1>a, <2>1, <2>5 DEF Commit, Publish, Mirror!Next, Mirror!Publish, tables
<1>b. CASE Edit
  <2>1. PICK r \in source :
           \/ Publish(source \ {r})
           \/ r.payload = "original"
              /\ Publish((source \ {r}) \cup {[r EXCEPT !.payload = "edited"]})
    BY <1>b DEF Edit
  <2>2. r \in Row
    BY DEF SyncTypes, TypeOK
  <2>3. r.payload = "original" => [r EXCEPT !.payload = "edited"] # r
    BY <2>2 DEF Row
  <2>4. source' # source
    BY <2>1, <2>3 DEF Publish
  <2> QED BY <1>b, <2>1, <2>4 DEF Edit, Publish, Mirror!Next, Mirror!Publish, tables
<1>c. ASSUME NEW s \in Syncers, Import(s) PROVE Mirror!CatchUp \/ Stutter
  <2>1. ~ Ties \/ edits = 0
    BY DEF SyncTypes, TypeOK
  <2> QED BY <1>c, <2>1, ImportCatchesUp
<1>d. ASSUME NEW s \in Syncers,
             \/ Start(s) \/ OpenRun(s) \/ Verify(s) \/ SaveFees(s) \/ Confirm(s)
             \/ Retry(s) \/ Finish(s) \/ Raise(s) \/ Crash(s)
      PROVE  Stutter
  BY <1>d DEF Start, OpenRun, Verify, SaveFees, Confirm, Retry, Finish, Raise, Crash,
              ledger, tables
<1> QED BY <1>u, <1>a, <1>b, <1>c, <1>d DEF Next, Step, Mirror!Next

\* The sidecar is a mirror of the ledger (SourceMirror): it moves from one
\* version to a larger one, whole, whatever calls interleave, unless rows are
\* changed by hand while imports of one second are ordered by chance.
THEOREM Mirrors ==
  ASSUME ~ Ties \/ MaxEdits = 0
  PROVE  Spec => MirrorsSource
<1>1. Init => Mirror!Init
  BY DEF Init, Mirror!Init
<1>2. SyncTypes /\ SyncInv /\ [Next]_vars => [Mirror!Next]_<<source, published, sidecar>>
  BY MirrorStep
<1> QED BY <1>1, <1>2, SyncTypesHold, SyncInvHolds, PTL DEF Spec, MirrorsSource, Mirror!Spec

-----------------------------------------------------------------------------
(* What a call that ends has found. *)

\* Only its confirmation takes a call on from there (the second snapshot).
LEMMA ConfirmedBy ==
  ASSUME SyncTypes, [Next]_vars, NEW s \in Syncers, pc[s] = "confirm",
         pc'[s] \in {"succeed", "block"}
  PROVE  Confirm(s)
<1>t. pc \in [Syncers -> Labels]
  BY DEF SyncTypes, TypeOK
<1>1. CASE UNCHANGED vars \/ Commit \/ Edit
  BY <1>1 DEF vars, Commit, Edit
<1>2. ASSUME NEW x \in Syncers, Start(x) \/ Step(x) \/ Raise(x) \/ Crash(x)
      PROVE  Confirm(s)
  <2>1. PICK l \in Labels : GoTo(x, l)
    BY <1>2 DEF Start, Step, OpenRun, Import, Verify, SaveFees, Confirm, Retry, Finish,
                Raise, Crash, Labels
  <2>2. x = s
    BY <1>t, <2>1 DEF GoTo
  <2>3. CASE Confirm(x)
    BY <2>2, <2>3
  <2>4. CASE Start(x) \/ OpenRun(x) \/ Import(x) \/ Verify(x) \/ SaveFees(x) \/ Retry(x) \/ Finish(x)
    BY <2>2, <2>4 DEF Start, OpenRun, Import, Verify, SaveFees, Retry, Finish, Statuses
  <2>5. CASE Raise(x) \/ Crash(x)
    BY <1>t, <2>2, <2>5 DEF Raise, Crash, GoTo
  <2> QED BY <1>2, <2>3, <2>4, <2>5 DEF Step
<1> QED BY <1>1, <1>2 DEF Next

\* A call that finds the source unmoved has all of its rows and their fee
\* projections in the sidecar, and nothing else unless rows were changed by hand.
LEMMA SuccessStep ==
  ASSUME SyncTypes, SyncInv, [Next]_vars, NEW s \in Syncers,
         pc[s] = "confirm", pc'[s] = "succeed"
  PROVE  /\ source \subseteq sidecar /\ FeePlan(source) \subseteq fees
         /\ edits = 0 => sidecar = source
<1>1. Confirm(s)
  BY ConfirmedBy
<1>2. source = snap[s]
  BY <1>1 DEF Confirm, GoTo, SyncTypes, TypeOK
<1>3. snap[s] \subseteq sidecar /\ FeePlan(snap[s]) \subseteq fees
  BY DEF SyncInv, Progress
<1>4. ASSUME edits = 0 PROVE sidecar \subseteq source
  BY <1>4 DEF SyncInv, VersionInv, Chain
<1> QED BY <1>2, <1>3, <1>4

\* A success means what it says, for any callers, commits and faults (sync,
\* its confirmation).
THEOREM SuccessCurrent == Spec => SuccessIsCurrent
<1>1. SyncTypes /\ SyncInv /\ [Next]_vars =>
        [\A s \in Syncers :
          pc[s] = "confirm" /\ pc'[s] = "succeed" =>
             /\ source \subseteq sidecar /\ FeePlan(source) \subseteq fees
             /\ edits = 0 => sidecar = source]_vars
  BY SuccessStep
<1> QED BY <1>1, SyncTypesHold, SyncInvHolds, PTL DEF Spec, SuccessIsCurrent

\* A call is blocked as SOURCE_CONTINUED_CHANGING_DURING_SYNC only if the
\* source has changed twice since it began (sync, the second attempt).
THEOREM BlockedTwice == Spec => BlockedOnlyIfMovedTwice
<1>1. ASSUME SyncTypes, SyncInv, [Next]_vars, NEW s \in Syncers,
             pc[s] = "confirm", pc'[s] = "block"
      PROVE  moves[s] = 2
  <2>1. Confirm(s)
    BY <1>1, ConfirmedBy
  <2>2. source # snap[s] /\ attempt[s] # 1
    BY <1>1, <2>1 DEF Confirm, GoTo, SyncTypes, TypeOK
  <2>3. attempt[s] = 2 /\ moves[s] \in 0 .. 2
    BY <1>1, <2>2 DEF SyncTypes, TypeOK
  <2>4. Informed(s)
    BY <1>1 DEF SyncInv, Progress
  <2> QED BY <2>2, <2>3, <2>4 DEF Informed
<1>2. SyncTypes /\ SyncInv /\ [Next]_vars =>
        [\A s \in Syncers :
          pc[s] = "confirm" /\ pc'[s] = "block" => moves[s] = 2]_vars
  BY <1>1
<1> QED BY <1>2, SyncTypesHold, SyncInvHolds, PTL DEF Spec, BlockedOnlyIfMovedTwice

-----------------------------------------------------------------------------
(* Fee projections.  Once rows are in without their projections, the run    *)
(* that brought them is under way and later than every run about to close   *)
(* as succeeded, or the last closed run failed and no such run is left.     *)

\* Every call that ends has its status saved: nobody dies with an open run, and
\* no failure is lost for an exception while it is recorded.
EndsRecorded ==
    \A s \in Syncers :
       pc[s] \notin {"idle", "started"} /\ pc'[s] = "idle" => Finish(s)

Waiting(t) == pc[t] = "succeed" /\ Listed(open, t)

Complete == FeePlan(sidecar) \subseteq fees

Owner(o) ==
    /\ Listed(open, o) /\ pc[o] \in {"verify", "fees", "fail"}
    /\ pc[o] # "fail" => snap[o] = sidecar
    /\ \A t \in Syncers : Waiting(t) => Precedes(open, t, o)

Reported == last \in {"failed", "blocked"} /\ \A t \in Syncers : ~ Waiting(t)

\* A run about to import cannot bring in anything behind the back of a later
\* run that has confirmed its own snapshot.
OutrunImports ==
    \A o \in Syncers : pc[o] = "import" =>
       /\ \A t \in Syncers : Waiting(t) /\ Precedes(open, o, t) => snap[o] \subseteq snap[t]
       /\ ~ Listed(open, o) => snap[o] \subseteq sidecar \/ Reported

FeesInv ==
    edits = 0 => OutrunImports /\ (Complete \/ Reported \/ \E o \in Syncers : Owner(o))

\* A step that imports, confirms and closes nothing.
LEMMA FeesFrame ==
  ASSUME SyncTypes, FeesInv, UNCHANGED <<tables, last>>, edits' = 0 => edits = 0,
         \A x, y : Precedes(open', x, y) => Precedes(open, x, y),
         \A t \in Syncers : Waiting(t)' => Waiting(t) /\ snap'[t] = snap[t],
         \A o \in Syncers : pc'[o] = "import" =>
            /\ pc[o] = "import" /\ snap'[o] = snap[o]
            /\ Listed(open, o) => Listed(open', o),
         \A o \in Syncers : Owner(o) => Owner(o)'
  PROVE  FeesInv'
<1> SUFFICES ASSUME edits' = 0 PROVE FeesInv'
  BY DEF FeesInv
<1>1. OutrunImports /\ (Complete \/ Reported \/ \E o \in Syncers : Owner(o))
  BY DEF FeesInv
<1>2. Complete => Complete'
  BY DEF Complete, FeePlan, Samples, tables
<1>3. Reported => Reported'
  BY DEF Reported
<1>4. OutrunImports'
  BY <1>1, <1>3 DEF OutrunImports, tables
<1> QED BY <1>1, <1>2, <1>3, <1>4 DEF FeesInv

\* A call that closes its run: what it drops was created before it (status).
LEMMA FinishFees ==
  ASSUME SyncTypes, SyncInv, FeesInv, NEW s \in Syncers, Finish(s)
  PROVE  FeesInv'
<1> SUFFICES ASSUME edits' = 0 PROVE FeesInv'
  BY DEF FeesInv
<1>1. /\ OutrunImports /\ (Complete \/ Reported \/ \E o \in Syncers : Owner(o))
      /\ pc \in [Syncers -> Labels] /\ open \in Seq(Syncers) /\ NoRepeat(open)
  BY DEF FeesInv, Finish, ledger, SyncTypes, TypeOK, QueueOK
<1>2. /\ pc[s] \in {"succeed", "block", "fail"} /\ Close(s, Statuses[pc[s]])
      /\ UNCHANGED <<source, edits, sidecar, fees, snap>>
      /\ \A x \in Syncers : pc'[x] = IF x = s THEN "idle" ELSE pc[x]
  BY <1>1 DEF Finish, Statuses, GoTo, ledger, tables
<1>3. Complete => Complete'
  BY <1>2 DEF Complete, FeePlan, Samples
<1>4. CASE ~ Listed(open, s)
  <2>1. open' = open /\ last' = last
    BY <1>1, <1>2, <1>4, CloseQueue
  <2>2. \A o \in Syncers : Owner(o) => Owner(o)'
    BY <1>2, <1>4, <2>1 DEF Owner, Waiting
  <2> QED BY <1>2, <2>1, <2>2, FeesFrame DEF Finish, Waiting
<1>5. CASE Listed(open, s)
  <2>1. /\ last' = Statuses[pc[s]]
        /\ \A x : Listed(open', x) <=> Precedes(open, s, x)
        /\ \A x, y : Precedes(open', x, y)
                         <=> Precedes(open, x, y) /\ Precedes(open, s, x)
    BY <1>1, <1>2, <1>5, CloseQueue
  <2>2. \A x, y : Precedes(open, x, y) =>
           /\ ~ Precedes(open, y, x) /\ x # y /\ Listed(open, x) /\ Listed(open, y)
           /\ \A z : Precedes(open, y, z) => Precedes(open, x, z)
    BY <1>1, CreationOrder
  <2>3. \A t \in Syncers : Waiting(t)' => Waiting(t) /\ Precedes(open, s, t)
    BY <1>2, <2>1, <2>2 DEF Waiting
  <2>4. \A x : Listed(open, x) => x = s \/ Precedes(open, s, x) \/ Precedes(open, x, s)
    BY <1>1, <1>5, OneIsFirst
  <2>5. \A o \in Syncers : Owner(o) /\ Precedes(open, s, o) => Owner(o)'
    BY <1>2, <2>1, <2>2, <2>3 DEF Owner
  <2>6. pc[s] # "succeed" => last' \in {"failed", "blocked"}
    BY <1>2, <2>1 DEF Statuses
  <2>7. pc[s] = "succeed" => Waiting(s)
    BY <1>5 DEF Waiting
  <2>8. Reported => Reported'
    BY <2>3, <2>6, <2>7 DEF Reported
  <2>9. \A t \in Syncers : Waiting(t) => snap[t] \subseteq sidecar
    BY DEF Waiting, SyncInv, Progress
  <2>10. OutrunImports'
    <3> SUFFICES ASSUME NEW o \in Syncers, pc'[o] = "import"
                 PROVE  /\ \A t \in Syncers : Waiting(t)' /\ Precedes(open', o, t)
                                                => snap'[o] \subseteq snap'[t]
                        /\ ~ Listed(open', o) => snap'[o] \subseteq sidecar' \/ Reported'
      BY DEF OutrunImports
    <3>1. pc[o] = "import" /\ o # s
      BY <1>2
    <3>2. \A t \in Syncers : Waiting(t) /\ Precedes(open, o, t) => snap[o] \subseteq snap[t]
      BY <1>1, <3>1 DEF OutrunImports
    <3>3. ASSUME ~ Listed(open', o), Listed(open, o)
          PROVE  snap[o] \subseteq sidecar \/ Reported'
      <4>1. Precedes(open, o, s)
        BY <2>1, <2>4, <3>1, <3>3
      <4>2. CASE pc[s] = "succeed"
        BY <2>7, <2>9, <3>2, <4>1, <4>2
      <4>3. CASE pc[s] # "succeed" /\ \E t \in Syncers : Waiting(t)'
        BY <2>2, <2>3, <2>9, <3>2, <4>1, <4>3
      <4>4. CASE pc[s] # "succeed" /\ \A t \in Syncers : ~ Waiting(t)'
        BY <2>6, <4>4 DEF Reported
      <4> QED BY <4>2, <4>3, <4>4
    <3>4. ASSUME ~ Listed(open, o) PROVE snap[o] \subseteq sidecar \/ Reported'
      BY <1>1, <2>8, <3>1, <3>4 DEF OutrunImports
    <3> QED BY <1>2, <2>1, <2>3, <3>2, <3>3, <3>4
  <2>11. ASSUME NEW o \in Syncers, Owner(o), ~ Precedes(open, s, o) PROVE Reported'
    <3>1. pc[s] # "succeed"
      BY <2>7, <2>11 DEF Owner
    <3>2. \A t \in Syncers : ~ Waiting(t)'
      BY <2>2, <2>3, <2>11 DEF Owner
    <3> QED BY <2>6, <3>1, <3>2 DEF Reported
  <2> QED BY <1>1, <1>3, <2>5, <2>8, <2>10, <2>11 DEF FeesInv
<1> QED BY <1>4, <1>5

\* An import that changes the sidecar makes its call answer for the projections;
\* no later run can have confirmed a smaller ledger (import_events).
LEMMA ImportFees ==
  ASSUME SyncTypes, SyncInv, FeesInv, NEW s \in Syncers, Import(s),
         ~ (Removed(snap[s]) \/ Changed(snap[s]))
  PROVE  FeesInv'
<1> SUFFICES ASSUME edits' = 0 PROVE FeesInv'
  BY DEF FeesInv
<1>1. /\ sidecar' = sidecar \cup snap[s] /\ pc[s] = "import" /\ edits = 0
      /\ UNCHANGED <<source, fees, open, last, snap>>
      /\ \A x \in Syncers : pc'[x] = IF x = s THEN "verify" ELSE pc[x]
  BY DEF Import, GoTo, ledger, board, SyncTypes, TypeOK
<1>2. OutrunImports /\ (Complete \/ Reported \/ \E o \in Syncers : Owner(o))
  BY <1>1 DEF FeesInv
<1>3. (Reported <=> Reported') /\ \A t \in Syncers : Waiting(t)' <=> Waiting(t)
  BY <1>1 DEF Reported, Waiting
<1>4. OutrunImports'
  BY <1>1, <1>2, <1>3 DEF OutrunImports
<1>5. CASE snap[s] \subseteq sidecar
  <2>1. sidecar' = sidecar
    BY <1>1, <1>5
  <2>2. Complete => Complete'
    BY <1>1, <2>1 DEF Complete, FeePlan, Samples
  <2>3. \A o \in Syncers : Owner(o) => Owner(o)'
    BY <1>1, <1>3, <2>1 DEF Owner
  <2> QED BY <1>2, <1>3, <1>4, <2>2, <2>3 DEF FeesInv
<1>6. CASE ~ (snap[s] \subseteq sidecar)
  <2>1. sidecar' = snap[s]
    BY <1>1, <1>6 DEF SyncInv, VersionInv, Chain
  <2>2. CASE Listed(open, s)
    <3>1. ASSUME NEW t \in Syncers, Waiting(t) PROVE Precedes(open, t, s)
      <4>1. snap[t] \subseteq sidecar /\ t # s /\ Listed(open, t)
        BY <1>1, <3>1 DEF Waiting, SyncInv, Progress
      <4>2. ~ Precedes(open, s, t)
        BY <1>1, <1>2, <1>6, <3>1, <4>1 DEF OutrunImports
      <4>3. open \in Seq(Syncers)
        BY DEF SyncTypes, TypeOK
      <4> QED BY <2>2, <4>1, <4>2, <4>3, OneIsFirst
    <3>2. Owner(s)'
      BY <1>1, <1>3, <2>1, <2>2, <3>1 DEF Owner
    <3> QED BY <1>4, <3>2 DEF FeesInv
  <2>3. CASE ~ Listed(open, s)
    BY <1>1, <1>2, <1>3, <1>4, <1>6, <2>3 DEF OutrunImports, FeesInv
  <2> QED BY <2>2, <2>3
<1> QED BY <1>5, <1>6

\* A call that saves its fee plan has saved the one of the sidecar, if nobody
\* imported since it was verified (save_fee_plan).
LEMMA SaveFeesFees ==
  ASSUME SyncTypes, SyncInv, FeesInv, NEW s \in Syncers, SaveFees(s),
         ~ FeeConflict(FeePlan(snap[s]))
  PROVE  FeesInv'
<1> SUFFICES ASSUME edits' = 0 PROVE FeesInv'
  BY DEF FeesInv
<1>1. /\ fees' = fees \cup FeePlan(snap[s]) /\ pc[s] = "fees" /\ edits = 0
      /\ UNCHANGED <<source, sidecar, open, last, snap>>
      /\ \A x \in Syncers : pc'[x] = IF x = s THEN "confirm" ELSE pc[x]
  BY DEF SaveFees, GoTo, ledger, board, SyncTypes, TypeOK
<1>2. OutrunImports /\ (Complete \/ Reported \/ \E o \in Syncers : Owner(o))
  BY <1>1 DEF FeesInv
<1>3. (Reported <=> Reported') /\ \A t \in Syncers : Waiting(t)' <=> Waiting(t)
  BY <1>1 DEF Reported, Waiting
<1>4. OutrunImports'
  BY <1>1, <1>2, <1>3 DEF OutrunImports
<1>5. FeePlan(sidecar)' = FeePlan(sidecar)
  BY <1>1 DEF FeePlan, Samples
<1>6. \A o \in Syncers : Owner(o) => Owner(o)' \/ (o = s /\ snap[s] = sidecar)
  BY <1>1, <1>3 DEF Owner
<1>7. snap[s] = sidecar => Complete'
  BY <1>1, <1>5 DEF Complete
<1>8. Complete => Complete'
  BY <1>1, <1>5 DEF Complete
<1> QED BY <1>2, <1>3, <1>4, <1>6, <1>7, <1>8 DEF FeesInv

\* A call that finds the source unmoved finds all projections saved too, and
\* nothing under way that could bring more (sync, the second snapshot).
LEMMA ConfirmFees ==
  ASSUME SyncTypes, SyncInv, FeesInv, NEW s \in Syncers, Confirm(s), source = snap[s]
  PROVE  FeesInv'
<1> SUFFICES ASSUME edits' = 0 PROVE FeesInv'
  BY DEF FeesInv
<1>1. /\ pc[s] = "confirm" /\ edits = 0
      /\ UNCHANGED <<source, sidecar, fees, open, last, snap>>
      /\ \A x \in Syncers : pc'[x] = IF x = s THEN "succeed" ELSE pc[x]
  BY DEF Confirm, GoTo, ledger, tables, board, SyncTypes, TypeOK
<1>2. OutrunImports
  BY <1>1 DEF FeesInv
<1>3. /\ \A o \in Syncers : snap[o] \subseteq source
      /\ sidecar = source /\ FeePlan(source) \subseteq fees
  <2>1. Chain /\ sidecar \in published /\ \A o \in Syncers : snap[o] \in published
    BY <1>1 DEF SyncInv, VersionInv
  <2>2. snap[s] \subseteq sidecar /\ FeePlan(snap[s]) \subseteq fees
    BY <1>1 DEF SyncInv, Progress
  <2> QED BY <2>1, <2>2 DEF Chain
<1>4. Complete'
  BY <1>1, <1>3 DEF Complete, FeePlan, Samples
<1>5. OutrunImports'
  BY <1>1, <1>2, <1>3 DEF OutrunImports, Waiting
<1> QED BY <1>4, <1>5 DEF FeesInv

\* Steps of a call that import, confirm and close nothing (GoTo).
LEMMA MoveFees ==
  ASSUME SyncTypes, FeesInv, UNCHANGED <<tables, board, edits>>, NEW s \in Syncers,
         NEW l \in Labels, GoTo(s, l), l \notin {"import", "succeed"},
         pc[s] \in {"verify", "fees", "fail"} =>
            l = "fail" \/ (l = "fees" /\ snap[s] = sidecar),
         \A x \in Syncers : snap'[x] = snap[x] \/ (x = s /\ pc[s] \notin {"verify", "fees", "fail"})
  PROVE  FeesInv'
<1>1. \A x \in Syncers : pc'[x] = IF x = s THEN l ELSE pc[x]
  BY DEF GoTo, SyncTypes, TypeOK
<1>2. \A t \in Syncers : Waiting(t)' => Waiting(t) /\ snap'[t] = snap[t]
  BY <1>1 DEF Waiting, board
<1>3. \A o \in Syncers : Owner(o) => Owner(o)'
  BY <1>1, <1>2 DEF Owner, board, tables
<1>4. \A o \in Syncers : pc'[o] = "import" => pc[o] = "import" /\ snap'[o] = snap[o]
  BY <1>1
<1> QED BY <1>2, <1>3, <1>4, FeesFrame DEF board

\* Every step that loses no status keeps somebody answerable for the missing
\* projections (sync, and what status() reads).
LEMMA FeesStep ==
  ASSUME SyncTypes, SyncInv, FeesInv, [Next]_vars, EndsRecorded
  PROVE  FeesInv'
<1>t. pc \in [Syncers -> Labels] /\ open \in Seq(Syncers) /\ edits \in Nat
  BY DEF SyncTypes, TypeOK
<1>u. CASE UNCHANGED vars
  BY <1>u, FeesFrame DEF vars, tables, Waiting, Owner
<1>a. CASE Commit \/ Edit
  <2>1. UNCHANGED <<tables, board, pc, snap>> /\ (edits' = 0 => edits = 0)
    BY <1>a, <1>t DEF Commit, Edit
  <2> QED BY <2>1, FeesFrame DEF tables, board, Waiting, Owner
<1>b. ASSUME NEW s \in Syncers, Start(s) PROVE FeesInv'
  BY <1>b, <1>t, MoveFees DEF Start, Labels
<1>c. ASSUME NEW s \in Syncers, OpenRun(s) PROVE FeesInv'
  <2> SUFFICES ASSUME edits' = 0 PROVE FeesInv'
    BY DEF FeesInv
  <2>1. /\ pc[s] = "started" /\ edits = 0 /\ UNCHANGED <<source, sidecar, fees, last, snap>>
        /\ \A x \in Syncers : pc'[x] = IF x = s THEN "import" ELSE pc[x]
    BY <1>c, <1>t DEF OpenRun, GoTo, ledger, tables
  <2>2. ~ Listed(open, s)
    BY <2>1 DEF SyncTypes, QueueOK
  <2>3. /\ \A x : Listed(open', x) <=> Listed(open, x) \/ x = s
        /\ \A x, y : Precedes(open', x, y) <=> Precedes(open, x, y) \/ (Listed(open, x) /\ y = s)
    BY <1>c, <1>t, <2>2, Appended DEF OpenRun, SyncTypes, QueueOK
  <2>4. OutrunImports /\ (Complete \/ Reported \/ \E o \in Syncers : Owner(o))
    BY <2>1 DEF FeesInv
  <2>5. \A t \in Syncers : Waiting(t)' <=> Waiting(t)
    BY <2>1, <2>3 DEF Waiting
  <2>6. Reported' <=> Reported
    BY <2>1, <2>5 DEF Reported
  <2>7. \A o \in Syncers : Owner(o) => Owner(o)'
    BY <2>1, <2>3, <2>5 DEF Owner
  <2>8. OutrunImports'
    BY <2>1, <2>2, <2>3, <2>4, <2>5, <2>6 DEF OutrunImports, Precedes, Listed, Waiting
  <2>9. Complete => Complete'
    BY <2>1 DEF Complete, FeePlan, Samples
  <2> QED BY <2>4, <2>6, <2>7, <2>8, <2>9 DEF FeesInv
<1>d. ASSUME NEW s \in Syncers, Import(s) PROVE FeesInv'
  <2>1. CASE Removed(snap[s]) \/ Changed(snap[s])
    BY <1>d, <2>1, MoveFees DEF Import, Labels, ledger
  <2> QED BY <1>d, <2>1, ImportFees
<1>e. ASSUME NEW s \in Syncers, Verify(s) PROVE FeesInv'
  <2>1. CASE sidecar = snap[s]
    BY <1>e, <2>1, MoveFees DEF Verify, Labels, ledger
  <2>2. CASE sidecar # snap[s]
    BY <1>e, <2>2, MoveFees DEF Verify, Labels, ledger
  <2> QED BY <2>1, <2>2
<1>f. ASSUME NEW s \in Syncers, SaveFees(s) PROVE FeesInv'
  <2>1. CASE FeeConflict(FeePlan(snap[s]))
    BY <1>f, <2>1, MoveFees DEF SaveFees, Labels, ledger, tables
  <2> QED BY <1>f, <2>1, SaveFeesFees
<1>g. ASSUME NEW s \in Syncers, Confirm(s) PROVE FeesInv'
  <2>1. CASE source # snap[s]
    <3>1. /\ UNCHANGED <<tables, board, edits>> /\ pc[s] = "confirm"
          /\ \A x \in Syncers : x # s => snap'[x] = snap[x]
      BY <1>g, <1>t DEF Confirm, ledger, SyncTypes, TypeOK
    <3>2. GoTo(s, "retry") \/ GoTo(s, "block")
      BY <1>g, <2>1 DEF Confirm
    <3> QED BY <3>1, <3>2, MoveFees DEF Labels
  <2> QED BY <1>g, <2>1, ConfirmFees
<1>h. ASSUME NEW s \in Syncers, Retry(s) PROVE FeesInv'
  <2>1. /\ pc[s] = "retry" /\ UNCHANGED <<edits, tables, snap>>
        /\ \A x \in Syncers : pc'[x] = IF x = s THEN "started" ELSE pc[x]
    BY <1>h, <1>t DEF Retry, GoTo, ledger
  <2>2. /\ last' = last
        /\ \A x : Listed(open', x) <=> Listed(open, x) /\ x # s
        /\ \A x, y : Precedes(open', x, y) <=> Precedes(open, x, y) /\ x # s /\ y # s
    BY <1>h, <1>t, AbandonQueue DEF Retry, SyncTypes, QueueOK
  <2>3. \A t \in Syncers : Waiting(t)' => Waiting(t) /\ t # s
    BY <2>1, <2>2 DEF Waiting
  <2>4. \A o \in Syncers : Owner(o) => Owner(o)'
    BY <2>1, <2>2, <2>3 DEF Owner, tables
  <2> QED BY <2>1, <2>2, <2>3, <2>4, FeesFrame
<1>i. ASSUME NEW s \in Syncers, Finish(s) PROVE FeesInv'
  BY <1>i, FinishFees
<1>j. ASSUME NEW s \in Syncers, Raise(s) \/ Crash(s) PROVE FeesInv'
  <2>1. CASE pc[s] # "started" /\ GoTo(s, "idle")
    <3>1. pc[s] # "idle" /\ pc'[s] = "idle"
      BY <1>j, <1>t, <2>1 DEF Raise, Crash, GoTo
    <3>2. Finish(s)
      BY <2>1, <3>1 DEF EndsRecorded
    <3> QED BY <3>2, FinishFees
  <2>2. CASE pc[s] = "started" /\ GoTo(s, "idle") /\ Abandon(s)
    <3>1. ~ Listed(open, s)
      BY <2>2 DEF SyncTypes, QueueOK
    <3>2. UNCHANGED board
      BY <2>2, <3>1 DEF Abandon, board, IsOpen, Listed
    <3> QED BY <1>j, <2>2, <3>2, MoveFees DEF Raise, Crash, Labels, ledger
  <2>3. CASE GoTo(s, "fail") /\ UNCHANGED board
    BY <1>j, <2>3, MoveFees DEF Raise, Crash, Labels, ledger
  <2> QED BY <1>j, <2>1, <2>2, <2>3 DEF Raise, Crash
<1> QED BY <1>u, <1>a, <1>b, <1>c, <1>d, <1>e, <1>f, <1>g, <1>h, <1>i, <1>j DEF Next, Step

\* A healthy sidecar has all its fee projections while nobody syncs, unless rows
\* were changed by hand, if every call that ends has its status saved: whatever
\* calls failed, and in whatever order the runs were closed (status, sync).
THEOREM HealthyComplete ==
  Spec /\ [][EndsRecorded]_vars => []HealthyHasFees
<1>1. Init => FeesInv
  BY DEF Init, FeesInv, OutrunImports, Complete, FeePlan
<1>2. SyncTypes /\ SyncInv /\ FeesInv /\ [Next]_vars /\ [EndsRecorded]_vars => FeesInv'
  <2> SUFFICES ASSUME SyncTypes, SyncInv, FeesInv, [Next]_vars, [EndsRecorded]_vars
               PROVE  FeesInv'
    OBVIOUS
  <2>1. CASE UNCHANGED vars
    BY <2>1, FeesFrame DEF vars, tables, Waiting, Owner
  <2> QED BY <2>1, FeesStep
<1>3. FeesInv => HealthyHasFees
  <2> SUFFICES ASSUME FeesInv, Health = "healthy", edits = 0, \A s \in Syncers : pc[s] = "idle"
               PROVE  Complete
    BY DEF HealthyHasFees, Complete
  <2>1. last \notin {"failed", "blocked"}
    BY DEF Health
  <2> QED BY <2>1 DEF FeesInv, Reported, Owner
<1> QED BY <1>1, <1>2, <1>3, SyncTypesHold, SyncInvHolds, PTL DEF Spec

-----------------------------------------------------------------------------
(* Fee plans of different versions.  A projection depends on the samples     *)
(* known by its trade's date.  While every commit is later than the ledger,  *)
(* no version adds a sample to a trade of another one.                       *)

\* What a version has and an earlier one has not is later than the earlier one.
Later(v, w) == v \subseteq w => \A r \in v, x \in w \ v : DateOf[r.id] < DateOf[x.id]

PlanInv ==
    edits = 0 =>
        /\ \A r \in source : r.payload = "original"
        /\ \A v, w \in published : Later(v, w)
        /\ \A f \in fees : \E v \in published : f \in FeePlan(v)

\* No version of the ledger has a plan that save_fee_plan would refuse.
PlansFit == edits = 0 => \A v \in published : ~ FeeConflict(FeePlan(v))

\* A trade has the same projection in any two versions it is in.
LEMMA PlansAgree ==
  ASSUME SyncTypes, Chain, \A r \in source : r.payload = "original",
         NEW v \in published, NEW w \in published, Later(v, w), Later(w, v),
         NEW f \in FeePlan(v), NEW g \in FeePlan(w), f.trade.id = g.trade.id
  PROVE  f = g
<1>1. /\ f.trade \in v /\ f = [trade |-> f.trade, samples |-> Samples(f.trade, v)]
      /\ g.trade \in w /\ g = [trade |-> g.trade, samples |-> Samples(g.trade, w)]
  BY DEF FeePlan
<1>2. v \subseteq source /\ w \subseteq source /\ source \subseteq Row /\ (v \subseteq w \/ w \subseteq v)
  BY DEF Chain, SyncTypes, TypeOK
<1>3. f.trade = g.trade
  <2>1. /\ f.trade \in Row /\ f.trade.payload = "original"
        /\ g.trade \in Row /\ g.trade.payload = "original"
    BY <1>1, <1>2
  <2> QED BY <2>1 DEF Row
<1> DEFINE r == f.trade
<1>4. Samples(r, v) = Samples(r, w)
  <2>1. ASSUME NEW x \in v \cup w, DateOf[x.id] <= DateOf[r.id]
        PROVE  x \in v /\ x \in w
    <3>1. x \in Row /\ r \in Row /\ r \in v /\ r \in w
      BY <1>1, <1>2, <1>3
    <3>2. DateOf[x.id] \in Nat /\ DateOf[r.id] \in Nat
      BY <3>1, SyncConstants DEF Row
    <3>3. ~ (DateOf[r.id] < DateOf[x.id])
      BY <2>1, <3>2
    <3> QED BY <1>2, <3>1, <3>3 DEF Later
  <2>2. ASSUME NEW x, x \in Samples(r, v) PROVE x \in Samples(r, w)
    BY <2>1, <2>2 DEF Samples
  <2>3. ASSUME NEW x, x \in Samples(r, w) PROVE x \in Samples(r, v)
    BY <2>1, <2>3 DEF Samples
  <2> QED BY <2>2, <2>3
<1> QED BY <1>1, <1>3, <1>4

LEMMA PlansAlike ==
  ASSUME SyncTypes, SyncInv, PlanInv
  PROVE  PlansFit
<1> SUFFICES ASSUME edits = 0, NEW w \in published, NEW f \in fees, NEW g \in FeePlan(w),
                    f.trade.id = g.trade.id
             PROVE  f = g
  BY DEF PlansFit, FeeConflict
<1>1. PICK v \in published : f \in FeePlan(v)
  BY DEF PlanInv
<1> QED BY <1>1, PlansAgree DEF PlanInv, SyncInv, VersionInv

\* A commit of later trades makes a version that is later than those before.
LEMMA PlanStep ==
  ASSUME ~ Backdated, SyncTypes, SyncInv, PlanInv, [Next]_vars
  PROVE  PlanInv'
<1> SUFFICES ASSUME edits' = 0 PROVE PlanInv'
  BY DEF PlanInv
<1>1. CASE Commit
  <2>1. edits = 0 /\ edits' = edits /\ fees' = fees
    BY <1>1 DEF Commit, tables
  <2>2. PICK new \in SUBSET (Trades \ Ids(source)) :
            /\ \A t \in new, u \in Ids(source) : DateOf[u] < DateOf[t]
            /\ source' = source \cup [id : new, payload : {"original"}]
            /\ published' = published \cup {source'}
    BY <1>1 DEF Commit, Publish
  <2>3. \A x \in source' \ source : x.id \in new /\ x.payload = "original"
    BY <2>2
  <2>4. \A r \in source' : r.payload = "original"
    BY <2>1, <2>3 DEF PlanInv
  <2>5. \A v \in published : v \subseteq source /\ source \in published
    BY <2>1 DEF SyncInv, VersionInv, Chain
  <2>6. ASSUME NEW v \in published' , NEW w \in published' PROVE Later(v, w)
    <3>1. CASE v \in published /\ w \in published
      BY <2>1, <3>1 DEF PlanInv
    <3>2. CASE v = source'
      BY <2>2, <2>5, <3>2 DEF Later
    <3>3. CASE v \in published /\ w = source'
      <4> SUFFICES ASSUME NEW r \in v, NEW x \in source' \ v PROVE DateOf[r.id] < DateOf[x.id]
        BY <3>3 DEF Later
      <4>1. r \in source /\ r.id \in Ids(source)
        BY <2>5, <3>3 DEF Ids
      <4>2. CASE x \in source
        BY <2>1, <2>5, <3>3, <4>2 DEF PlanInv, Later
      <4>3. CASE x \notin source
        BY <2>2, <2>3, <4>1, <4>3
      <4> QED BY <4>2, <4>3
    <3> QED BY <2>2, <3>1, <3>2, <3>3
  <2>7. \A f \in fees' : \E v \in published' : f \in FeePlan(v)
    BY <2>1, <2>2 DEF PlanInv
  <2>8. \A v, w \in published' : Later(v, w)
    BY <2>6
  <2> QED BY <2>4, <2>7, <2>8 DEF PlanInv, Later, FeePlan, Samples
<1>2. CASE Edit
  BY <1>2 DEF Edit, SyncTypes, TypeOK
<1>3. ASSUME NEW s \in Syncers, SaveFees(s) PROVE PlanInv'
  <2>1. UNCHANGED <<source, published, edits>> /\ snap[s] \in published
    BY <1>3 DEF SaveFees, ledger, SyncInv, VersionInv
  <2>2. \A f \in fees' : f \in fees \/ f \in FeePlan(snap[s])
    BY <1>3 DEF SaveFees
  <2> QED BY <2>1, <2>2 DEF PlanInv, Later, FeePlan, Samples
<1>4. CASE UNCHANGED <<source, published, edits, fees>>
  BY <1>4 DEF PlanInv, Later, FeePlan, Samples
<1> QED BY <1>1, <1>2, <1>3, <1>4
   DEF Next, Step, Start, OpenRun, Import, Verify, Confirm, Retry, Finish, Raise, Crash,
       ledger, tables, vars

\* Unless rows were changed by hand, save_fee_plan never finds another
\* projection of a trade at its time, whoever has saved which version, if every
\* commit is later than what is booked: it takes a trade that comes in with an
\* earlier date than others to make syncs fail for good.
THEOREM PlansNeverClash == ~ Backdated /\ Spec => []PlansFit
<1>1. Init => PlanInv
  BY DEF Init, PlanInv, Later
<1>2. ASSUME ~ Backdated
      PROVE  SyncTypes /\ SyncInv /\ PlanInv /\ [Next]_vars => PlanInv'
  BY <1>2, PlanStep
<1>3. SyncTypes /\ SyncInv /\ PlanInv => PlansFit
  BY PlansAlike
<1>4. CASE Backdated
  BY <1>4
<1>5. CASE ~ Backdated
  BY <1>1, <1>2, <1>3, <1>5, SyncTypesHold, SyncInvHolds, PTL DEF Spec
<1> QED BY <1>4, <1>5
=============================================================================
