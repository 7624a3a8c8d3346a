------------------------ MODULE PublishedBoardProofs ------------------------
(* Proofs about ScoreRefresh, for any number of drivers, trips, workers and  *)
(* expiration calls: every table and every transaction has well-formed rows, *)
(* no event is counted twice, and the audit finds each published entry at    *)
(* the rank of its driver.                                                   *)
EXTENDS ScoreRefreshProofs

-----------------------------------------------------------------------------
(* The invariant *)

ClockInv ==
  /\ now \in 0..MaxTime /\ expirations \subseteq {EffectiveAt[x] : x \in Expirers}

LockInv ==
  /\ at = [p \in Processes |-> at[p]]
  /\ failures \in 0..MaxFailures
  /\ cityLock \in Expirers \cup {None} /\ citySharers \subseteq Processes

(* The events of a driver in all batches together. *)
InBatches(d) == SumFunctionOnSet([w \in Workers |-> claimed[w][d]], Workers)

(* An event is pending or in one batch, and each comes from a change. *)
CountInv ==
  /\ changes \in 0..MaxChanges
  /\ unclaimed \in [Drivers -> Nat] /\ claimed \in [Workers -> [Drivers -> Nat]]
  /\ \A d \in Drivers : unclaimed[d] + InBatches(d) <= changes

IsRow(r) == r # None => r \in Rows

(* The rows of a transaction are well-formed, and a row it loaded is still   *)
(* there when its update is merged.                                          *)
ProcessRows(p) ==
  /\ at[p] \in Nat
  /\ pc[p] \in {"aggregated", "loaded", "inserted"} => work[p].new \in Rows /\ IsRow(work[p].old)
  /\ pc[p] = "loaded" /\ work[p].old # None => score[work[p].driver] # None
  /\ \A d \in Drivers : rowLock[d] = p => dirty[p][d] \in Rows

RowsInv == (\A d \in Drivers : IsRow(score[d])) /\ \A p \in Processes : ProcessRows(p)

(* Scores are committed with a board, of which they are the ranking by       *)
(* PublishedIsRanking, and only if they have averages to rank by.            *)
BoardInv ==
  /\ newest \in Nat /\ published.version \in 0..newest
  /\ published.version = 0 =>
       published.entries = <<>> /\ \A d \in Drivers : score[d] = None
  /\ Rankable(score)

BoardsInv == ClockInv /\ LockInv /\ CountInv /\ RowsInv /\ BoardInv

-----------------------------------------------------------------------------
(* The clock, the locks *)

LEMMA LatestIsTime ==
  ASSUME ClockInv
  PROVE  now \in Nat /\ LatestExpiration \in Nat
<1>1. now \in Nat
  BY RowsAssumption DEF ClockInv
<1>2. CASE expirations = {}
  BY <1>1, <1>2 DEF LatestExpiration
<1>3. CASE expirations # {}
  <2>1. PICK f : f = [x \in Expirers |-> EffectiveAt[x]]
    OBVIOUS
  <2>2. PICK R : R = {f[x] : x \in Expirers}
    OBVIOUS
  <2>3. f \in Surjection(Expirers, R)
    BY <2>1, <2>2 DEF Surjection
  <2>4. IsFiniteSet(R)
    BY <2>3, CityAssumption, FS_Surjection
  <2>5. expirations \in SUBSET R
    BY <2>1, <2>2 DEF ClockInv
  <2>6. IsFiniteSet(expirations)
    BY <2>4, <2>5, FS_Subset
  <2>7. expirations \subseteq Nat
    BY RowsAssumption DEF ClockInv, Times
  <2>8. Max(expirations) \in expirations
    <3>1. PICK E : E = expirations
      OBVIOUS
    <3>2. IsFiniteSet(E) /\ E \subseteq Int /\ E # {}
      BY <1>3, <2>6, <2>7, <3>1
    <3>3. Max(E) \in E
      BY <3>2, Greatest
    <3> QED BY <3>1, <3>3
  <2> QED BY <1>1, <1>3, <2>7, <2>8 DEF LatestExpiration
<1> QED BY <1>1, <1>2, <1>3

LEMMA GreatestOfThree ==
  ASSUME NEW a \in Nat, NEW b \in Nat, NEW c \in Nat
  PROVE  Max({a, b, c}) \in Nat
<1>1. \E m \in {a, b, c} : \A n \in {a, b, c} : m >= n
  OBVIOUS
<1> QED BY <1>1 DEF Max

LEMMA ClockStep ==
  ASSUME ClockInv, [Next]_vars
  PROVE  ClockInv'
<1>1. CASE Tick
  BY <1>1, RowsAssumption DEF ClockInv, Tick, tables
<1>2. CASE \E x \in Expirers : CommitExpiration(x)
  BY <1>2 DEF ClockInv, CommitExpiration
<1>3. CASE UNCHANGED <<now, expirations>>
  BY <1>3 DEF ClockInv
<1> QED
  BY <1>1, <1>2, <1>3 DEF Next, vars, tables, ChangeReview, WorkerStep, FailBatch, ExpirerStep,
     FailExpiration, Claim, CheckExpiration, LockCity, RejectSecondRun, Recalculate, Aggregate,
     Load, FlushUpdate, FlushInsert, ReferenceCity, PublishAndCommit, DuplicateRow, RefuseEntry,
     CancelBatch, RollBack, CancelExpiration, RollBackExpiration

LEMMA LockStep ==
  ASSUME LockInv, [Next]_vars
  PROVE  LockInv'
<1>0. failures' = failures \/ (failures < MaxFailures /\ failures' = failures + 1)
  BY DEF Next, vars, Tick, ChangeReview, WorkerStep, FailBatch, ExpirerStep,
     FailExpiration, Claim, CheckExpiration, LockCity, RejectSecondRun, Recalculate, Aggregate,
     Load, FlushUpdate, FlushInsert, ReferenceCity, PublishAndCommit, DuplicateRow, RefuseEntry,
     CancelBatch, CancelExpiration, CommitExpiration
<1>1. failures' \in 0..MaxFailures
  BY <1>0, CityAssumption DEF LockInv
<1>6. at' = [p \in Processes |-> at'[p]]
  <2>1. CASE \E p, t : at' = [at EXCEPT ![p] = t]
    BY <2>1 DEF LockInv
  <2>2. CASE at' = at
    BY <2>2 DEF LockInv
  <2>3. CASE \E p, place : EndTransaction(p, place)
    BY <2>1, <2>3 DEF EndTransaction
  <2>4. CASE \E w \in Workers : Claim(w)
    BY <2>1, <2>4 DEF Claim
  <2>5. CASE \E x \in Expirers : LockCity(x)
    BY <2>1, <2>5 DEF LockCity
  <2> QED
    BY <2>2, <2>3, <2>4, <2>5 DEF Next, vars, local, Tick, ChangeReview, WorkerStep, FailBatch,
       ExpirerStep, FailExpiration, CheckExpiration, RejectSecondRun, Recalculate, Aggregate,
       Load, FlushUpdate, FlushInsert, ReferenceCity, PublishAndCommit, DuplicateRow, RefuseEntry,
       CancelBatch, RollBack, CancelExpiration, RollBackExpiration, CommitExpiration
<1>2. CASE UNCHANGED <<cityLock, citySharers>>
  BY <1>1, <1>6, <1>2 DEF LockInv
<1>3. CASE \E p \in Processes : \E place : EndTransaction(p, place)
  BY <1>1, <1>6, <1>3 DEF LockInv, EndTransaction
<1>4. CASE \E p \in Processes : ReferenceCity(p)
  BY <1>1, <1>6, <1>4 DEF LockInv, ReferenceCity
<1>5. CASE \E x \in Expirers : LockCity(x)
  BY <1>1, <1>6, <1>5 DEF LockInv, LockCity
<1> QED
  BY <1>2, <1>3, <1>4, <1>5 DEF Next, vars, rowlocks, Processes, Tick, ChangeReview, WorkerStep,
     FailBatch, ExpirerStep, FailExpiration, Claim, CheckExpiration, RejectSecondRun, Recalculate,
     Aggregate, Load, FlushUpdate, FlushInsert, PublishAndCommit, DuplicateRow, RefuseEntry,
     CancelBatch, RollBack, CancelExpiration, RollBackExpiration, CommitExpiration

-----------------------------------------------------------------------------
(* Events *)

(* The batch of a worker becomes `batch'. *)
LEMMA BatchCount ==
  ASSUME CountInv, NEW w \in Workers, NEW batch \in [Drivers -> Nat],
         claimed' = [claimed EXCEPT ![w] = batch], unclaimed' \in [Drivers -> Nat],
         \A d \in Drivers : unclaimed'[d] + batch[d] <= unclaimed[d] + claimed[w][d],
         changes' = changes
  PROVE  CountInv'
<1>1. claimed' \in [Workers -> [Drivers -> Nat]]
  BY DEF CountInv
<1>2. ASSUME NEW d \in Drivers PROVE unclaimed'[d] + InBatches(d)' <= changes
  <2>1. PICK f : f = [v \in Workers |-> claimed[v][d]]
    OBVIOUS
  <2>2. PICK g : g = [v \in Workers |-> claimed'[v][d]]
    OBVIOUS
  <2>3. \A v \in Workers : f[v] \in Nat /\ g[v] \in Nat /\ (v # w => g[v] = f[v])
    BY <1>1, <2>1, <2>2 DEF CountInv
  <2>4. f[w] = claimed[w][d] /\ g[w] = batch[d]
    BY <2>1, <2>2 DEF CountInv
  <2>5. SumFunctionOnSet(g, Workers) = SumFunctionOnSet(f, Workers) - f[w] + g[w]
    <3>1. IsFiniteSet(Workers)
      BY CityAssumption
    <3> QED BY <2>3, <3>1, SumChange
  <2>6. SumFunctionOnSet(f, Workers) \in Nat
    BY <2>3, CityAssumption, SumType
  <2>7. InBatches(d) = SumFunctionOnSet(f, Workers)
    BY <2>1 DEF InBatches
  <2>8. InBatches(d)' = SumFunctionOnSet(g, Workers)
    BY <2>2 DEF InBatches
  <2>9. PICK s : s = SumFunctionOnSet(f, Workers)
    OBVIOUS
  <2>10. PICK t : t = SumFunctionOnSet(g, Workers)
    OBVIOUS
  <2>11. unclaimed[d] + s <= changes
    BY <2>7, <2>9 DEF CountInv
  <2>12. /\ s \in Nat /\ t = s - f[w] + g[w] /\ f[w] \in Nat /\ g[w] \in Nat
         /\ unclaimed'[d] \in Nat /\ unclaimed[d] \in Nat /\ changes \in Nat
    BY <2>3, <2>5, <2>6, <2>9, <2>10, CityAssumption DEF CountInv
  <2>13. unclaimed'[d] + g[w] <= unclaimed[d] + f[w]
    BY <2>4
  <2>14. unclaimed'[d] + t <= changes
    BY <2>11, <2>12, <2>13
  <2> QED BY <2>8, <2>10, <2>14
<1> QED BY <1>1, <1>2 DEF CountInv

LEMMA CountStep ==
  ASSUME CountInv, [Next]_vars
  PROVE  CountInv'
<1>1. ASSUME NEW t \in Trips, NEW r \in Ratings, ChangeReview(t, r) PROVE CountInv'
  <2>1. /\ changes < MaxChanges /\ changes' = changes + 1 /\ claimed' = claimed
        /\ unclaimed' = [unclaimed EXCEPT ![DriverOf[t]] = @ + 1]
    BY <1>1 DEF ChangeReview, local
  <2>2. changes \in Nat /\ changes' \in 0..MaxChanges
    BY <2>1, CityAssumption DEF CountInv
  <2>3. ASSUME NEW d \in Drivers
        PROVE  unclaimed'[d] \in Nat /\ unclaimed'[d] + InBatches(d)' <= changes'
    <3>1. PICK s : s = InBatches(d)
      OBVIOUS
    <3>2. InBatches(d)' = s
      BY <2>1, <3>1 DEF InBatches
    <3>3. s \in Nat
      <4>1. PICK f : f = [v \in Workers |-> claimed[v][d]]
        OBVIOUS
      <4>2. \A v \in Workers : f[v] \in Nat
        BY <4>1 DEF CountInv
      <4> QED BY <3>1, <4>1, <4>2, CityAssumption, SumType DEF InBatches
    <3>4. unclaimed[d] \in Nat /\ unclaimed[d] + s <= changes
      BY <3>1 DEF CountInv
    <3>5. unclaimed'[d] = unclaimed[d] \/ unclaimed'[d] = unclaimed[d] + 1
      BY <2>1 DEF CountInv
    <3>6. unclaimed'[d] \in Nat /\ unclaimed'[d] + s <= changes'
      BY <2>1, <2>2, <3>3, <3>4, <3>5
    <3> QED BY <3>2, <3>6
  <2>4. unclaimed' \in [Drivers -> Nat]
    <3>1. unclaimed' = [d \in Drivers |-> unclaimed'[d]]
      BY <2>1 DEF CountInv
    <3> QED BY <2>3, <3>1
  <2> QED BY <2>1, <2>2, <2>3, <2>4 DEF CountInv
<1>2. ASSUME NEW w \in Workers, Claim(w) PROVE CountInv'
  <2>1. PICK batch \in [Drivers -> 0..MaxChanges] :
          /\ \A d \in Drivers : batch[d] <= unclaimed[d]
          /\ claimed' = [claimed EXCEPT ![w] = batch]
          /\ unclaimed' = [d \in Drivers |-> unclaimed[d] - batch[d]]
    BY <1>2 DEF Claim
  <2>2. batch \in [Drivers -> Nat] /\ changes' = changes
    BY <1>2, CityAssumption DEF Claim
  <2>3. \A d \in Drivers : /\ unclaimed'[d] \in Nat
                           /\ unclaimed'[d] + batch[d] <= unclaimed[d] + claimed[w][d]
    BY <2>1, <2>2 DEF CountInv
  <2> QED BY <2>1, <2>2, <2>3, BatchCount
<1>3. ASSUME NEW w \in Workers, PublishAndCommit(w) PROVE CountInv'
  <2>1. NoEvents \in [Drivers -> Nat] /\ \A d \in Drivers : NoEvents[d] = 0
    BY DEF NoEvents
  <2>2. claimed' = [claimed EXCEPT ![w] = NoEvents] /\ unclaimed' = unclaimed /\ changes' = changes
    BY <1>3 DEF PublishAndCommit
  <2>3. \A d \in Drivers : unclaimed'[d] + NoEvents[d] <= unclaimed[d] + claimed[w][d]
    BY <2>1, <2>2 DEF CountInv
  <2>4. unclaimed' \in [Drivers -> Nat]
    BY <2>2 DEF CountInv
  <2> QED BY <2>1, <2>2, <2>3, <2>4, BatchCount
<1>4. ASSUME NEW w \in Workers, RollBack(w) PROVE CountInv'
  <2>1. NoEvents \in [Drivers -> Nat] /\ \A d \in Drivers : NoEvents[d] = 0
    BY DEF NoEvents
  <2>2. /\ claimed' = [claimed EXCEPT ![w] = NoEvents] /\ changes' = changes
        /\ unclaimed' = [d \in Drivers |-> unclaimed[d] + claimed[w][d]]
    BY <1>4 DEF RollBack
  <2>3. \A d \in Drivers : /\ unclaimed'[d] \in Nat
                           /\ unclaimed'[d] + NoEvents[d] <= unclaimed[d] + claimed[w][d]
    BY <2>1, <2>2 DEF CountInv
  <2> QED BY <2>1, <2>2, <2>3, BatchCount
<1>5. CASE UNCHANGED <<changes, unclaimed, claimed>>
  BY <1>5 DEF CountInv, InBatches
<1> QED
  BY <1>1, <1>2, <1>3, <1>4, <1>5 DEF Next, vars, tables, local, Tick, WorkerStep, FailBatch,
     ExpirerStep, FailExpiration, CheckExpiration, LockCity, RejectSecondRun, Recalculate,
     Aggregate, Load, FlushUpdate, FlushInsert, ReferenceCity, DuplicateRow, RefuseEntry,
     CancelBatch, CancelExpiration, RollBackExpiration, CommitExpiration

-----------------------------------------------------------------------------
(* Rows *)

LEMMA MergeIsRow ==
  ASSUME NEW base \in Rows, NEW old \in Rows, NEW new \in Rows
  PROVE  Merge(base, old, new) \in Rows
<1>1. PICK r : r = [sum |-> IF new.sum # old.sum THEN new.sum ELSE base.sum,
                    count |-> IF new.count # old.count THEN new.count ELSE base.count,
                    eligible |-> IF new.eligible # old.eligible THEN new.eligible ELSE base.eligible,
                    calculated |-> IF new.calculated # old.calculated THEN new.calculated
                                   ELSE base.calculated]
  OBVIOUS
<1>2. r \in Rows
  BY <1>1 DEF Rows
<1>3. DOMAIN new = {"sum", "count", "eligible", "calculated"}
  BY DEF Rows
<1>4. Merge(base, old, new) = r
  BY <1>1, <1>3 DEF Merge
<1> QED BY <1>2, <1>4

LEMMA ViewIsRow ==
  ASSUME RowsInv, NEW p \in Processes, NEW d \in Drivers
  PROVE  IsRow(View(p)[d]) /\ (score[d] # None => View(p)[d] # None)
BY RowsAssumption DEF RowsInv, ProcessRows, IsRow, View

(* The step is none of the process's, and removes no row. *)
Quiet(q) ==
  /\ pc'[q] = pc[q] /\ at'[q] = at[q] /\ work'[q] = work[q] /\ dirty'[q] = dirty[q]
  /\ \A d \in Drivers : /\ rowLock'[d] = q => rowLock[d] = q
                        /\ score[d] # None => score'[d] # None

LEMMA QuietKeepsRows ==
  ASSUME Shape, NEW q \in Processes, ProcessRows(q), Quiet(q)
  PROVE  ProcessRows(q)'
BY DEF Shape, ProcessRows, Quiet, IsRow

LEMMA EndKeepsRows ==
  ASSUME Shape, RowsInv, NEW p \in Processes, NEW place \in {"idle", "done"},
         EndTransaction(p, place), score' = score \/ score' = View(p)
  PROVE  RowsInv'
<1>1. \A d \in Drivers : IsRow(score'[d]) /\ (score[d] # None => score'[d] # None)
  BY ViewIsRow DEF RowsInv
<1>2. p # None
  BY ProcessesAssumption DEF Processes
<1>3. ProcessRows(p)'
  BY <1>2 DEF Shape, EndTransaction, ProcessRows
<1>4. ASSUME NEW q \in Processes \ {p} PROVE ProcessRows(q)'
  <2>1. Quiet(q)
    BY <1>1, ProcessesAssumption DEF Shape, EndTransaction, Quiet, Processes
  <2> QED BY <2>1, QuietKeepsRows DEF RowsInv
<1> QED BY <1>1, <1>3, <1>4 DEF RowsInv, IsRow

LEMMA RecalculationKeepsRows ==
  ASSUME Shape, RowsInv, NEW p \in Processes, Recalculate(p)
  PROVE  RowsInv'
<1>0. score' = score /\ rating \in [Trips -> Ratings] /\ ProcessRows(p) /\ p # None
  BY ProcessesAssumption DEF Shape, RowsInv, Processes, Recalculate, Aggregate, Load, FlushUpdate,
     FlushInsert, ReferenceCity, tables
<1>1. ASSUME NEW q \in Processes \ {p} PROVE ProcessRows(q)'
  <2>1. Quiet(q)
    BY <1>0 DEF Shape, Quiet, Recalculate, Aggregate, Load, FlushUpdate, FlushInsert,
       ReferenceCity, tables, rowlocks
  <2> QED BY <2>1, QuietKeepsRows DEF RowsInv
<1>2. CASE Aggregate(p)
  <2>1. PICK d : work' = [work EXCEPT ![p] =
                            [driver |-> d, new |-> ScoreOf(rating, d, at[p]), old |-> None]]
    BY <1>2 DEF Aggregate
  <2>2. work'[p].new = ScoreOf(rating, d, at[p]) /\ work'[p].old = None /\ pc'[p] = "aggregated"
    BY <1>2, <2>1 DEF Aggregate, Shape
  <2>3. work'[p].new \in Rows
    BY <1>0, <2>2, ScoreIsRow DEF ProcessRows
  <2> QED BY <1>0, <1>1, <1>2, <2>2, <2>3 DEF Aggregate, RowsInv, ProcessRows, IsRow, rowlocks
<1>3. CASE Load(p)
  <2>1. /\ work'[p].old = score[work[p].driver] /\ work'[p].new = work[p].new
        /\ work'[p].driver = work[p].driver /\ work[p].driver \in Drivers
        /\ pc[p] = "aggregated" /\ pc'[p] = "loaded"
    BY <1>3 DEF Load, Shape
  <2> QED BY <1>0, <1>1, <1>3, <2>1 DEF Load, RowsInv, ProcessRows, IsRow, rowlocks
<1>4. CASE FlushUpdate(p)
  <2>1. PICK d \in Drivers : d = work[p].driver
    BY <1>4 DEF FlushUpdate, Shape
  <2>2. /\ pc[p] = "loaded" /\ pc'[p] = "batch" /\ at' = at /\ work[p].old # None
        /\ \A e \in Drivers \ {d} : rowLock'[e] = rowLock[e] /\ dirty'[p][e] = dirty[p][e]
    BY <1>4, <2>1 DEF FlushUpdate, Shape
  <2>3. rowLock'[d] = p => dirty'[p][d] \in Rows
    <3>1. CASE work[p].new # work[p].old
      <4>1. dirty'[p][d] = Merge(score[d], work[p].old, work[p].new)
        BY <1>4, <2>1, <3>1 DEF FlushUpdate, Shape
      <4>2. work[p].old \in Rows /\ work[p].new \in Rows /\ score[d] \in Rows
        BY <1>0, <2>1, <2>2 DEF RowsInv, ProcessRows, IsRow
      <4> QED BY <4>1, <4>2, MergeIsRow
    <3>2. CASE work[p].new = work[p].old
      <4>1. rowLock'[d] = rowLock[d] /\ dirty'[p][d] = dirty[p][d]
        BY <1>4, <2>1, <3>2 DEF FlushUpdate, Shape
      <4> QED BY <1>0, <4>1 DEF ProcessRows
    <3> QED BY <3>1, <3>2
  <2>4. ProcessRows(p)'
    BY <1>0, <2>2, <2>3 DEF ProcessRows
  <2> QED BY <1>0, <1>1, <2>4 DEF RowsInv, IsRow
<1>5. CASE FlushInsert(p)
  <2>1. PICK d \in Drivers : d = work[p].driver
    BY <1>5 DEF FlushInsert, Shape
  <2>2. /\ pc[p] = "loaded" /\ pc'[p] = "inserted" /\ at' = at /\ work' = work
        /\ dirty'[p][d] = work[p].new
        /\ \A e \in Drivers \ {d} : rowLock'[e] = rowLock[e] /\ dirty'[p][e] = dirty[p][e]
    BY <1>5, <2>1 DEF FlushInsert, Shape
  <2>3. ProcessRows(p)'
    BY <1>0, <2>2 DEF ProcessRows, IsRow
  <2> QED BY <1>0, <1>1, <2>3 DEF RowsInv, IsRow
<1>6. CASE ReferenceCity(p)
  <2>1. pc'[p] = "batch" /\ UNCHANGED <<at, rowLock, dirty>>
    BY <1>6 DEF ReferenceCity, Shape
  <2>2. ProcessRows(p)'
    BY <1>0, <2>1 DEF ProcessRows
  <2> QED BY <1>0, <1>1, <2>2 DEF RowsInv, IsRow
<1> QED BY <1>2, <1>3, <1>4, <1>5, <1>6 DEF Recalculate

LEMMA RowsStep ==
  ASSUME Shape, ClockInv, RowsInv, [Next]_vars
  PROVE  RowsInv'
<1>1. CASE UNCHANGED <<score, rowLock, pc, at, work, dirty>>
  BY <1>1 DEF RowsInv, ProcessRows, IsRow
<1>2. ASSUME NEW w \in Workers, Claim(w) PROVE RowsInv'
  <2>1. PICK also \in Elsewhere \cup {now} :
          at' = [at EXCEPT ![w] = Max({now, LatestExpiration, also})]
    BY <1>2 DEF Claim
  <2>2. Max({now, LatestExpiration, also}) \in Nat
    <3>1. now \in Nat /\ LatestExpiration \in Nat /\ also \in Nat
      BY LatestIsTime, RowsAssumption DEF Times
    <3> QED BY <3>1, GreatestOfThree
  <2>3. /\ pc[w] = "idle" /\ w \in Processes /\ pc' = [pc EXCEPT ![w] = "batch"]
        /\ UNCHANGED <<score, rowLock, work, dirty>>
    BY <1>2 DEF Claim, rowlocks, Processes
  <2>4. ProcessRows(w)'
    BY <2>1, <2>2, <2>3 DEF Shape, RowsInv, ProcessRows
  <2>5. ASSUME NEW q \in Processes \ {w} PROVE ProcessRows(q)'
    <3>1. Quiet(q)
      BY <2>1, <2>3 DEF Shape, Quiet
    <3> QED BY <3>1, QuietKeepsRows DEF RowsInv
  <2> QED BY <2>3, <2>4, <2>5 DEF RowsInv, IsRow
<1>3. ASSUME NEW x \in Expirers, CheckExpiration(x) \/ LockCity(x) PROVE RowsInv'
  <2>1. /\ x \in Processes /\ pc'[x] \in {"checked", "done", "batch"}
        /\ at'[x] = at[x] \/ at'[x] = EffectiveAt[x]
        /\ UNCHANGED <<score, rowLock, work, dirty>>
    BY <1>3 DEF CheckExpiration, LockCity, tables, rowlocks, local, Processes, Shape
  <2>2. ProcessRows(x)'
    BY <2>1, RowsAssumption DEF RowsInv, ProcessRows, Times
  <2>3. ASSUME NEW q \in Processes \ {x} PROVE ProcessRows(q)'
    <3>1. Quiet(q)
      BY <1>3, <2>1 DEF Shape, Quiet, CheckExpiration, LockCity, local
    <3> QED BY <3>1, QuietKeepsRows DEF RowsInv
  <2> QED BY <2>1, <2>2, <2>3 DEF RowsInv, IsRow
<1>4. CASE \E p \in Processes : Recalculate(p)
  BY <1>4, RecalculationKeepsRows
<1>5. ASSUME NEW p \in Processes, NEW place \in {"idle", "done"},
             EndTransaction(p, place), score' = score \/ score' = View(p)
      PROVE  RowsInv'
  BY <1>5, EndKeepsRows
<1> QED
  BY <1>1, <1>2, <1>3, <1>4, <1>5 DEF Next, vars, tables, rowlocks, local, Processes, Tick,
     ChangeReview, WorkerStep, FailBatch, ExpirerStep, FailExpiration, RejectSecondRun,
     PublishAndCommit, DuplicateRow, RefuseEntry, CancelBatch, RollBack, CancelExpiration,
     RollBackExpiration, CommitExpiration

-----------------------------------------------------------------------------
(* Boards *)

LEMMA RankableStep ==
  ASSUME IInv, BoardInv, [Next]_vars
  PROVE  BoardInv'
<1>1. CASE UNCHANGED <<score, newest, published>>
  BY <1>1 DEF BoardInv, Rankable, Standing
<1>2. ASSUME NEW w \in Workers, PublishAndCommit(w) PROVE BoardInv'
  <2>1. /\ Rankable(View(w)) /\ score' = View(w)
        /\ published'.version = newest + 1 /\ newest' = newest + 1
    BY <1>2 DEF PublishAndCommit, Publishable, Generation
  <2>2. Rankable(score)'
    BY <2>1 DEF Rankable, Standing
  <2> QED BY <2>1, <2>2 DEF BoardInv
<1>3. ASSUME NEW x \in Expirers, CommitExpiration(x) PROVE BoardInv'
  <2>1. /\ score' = View(x)
        /\ published' = IF Affected(x) = {} THEN published ELSE Generation(View(x))
        /\ newest' = IF Affected(x) = {} THEN newest ELSE newest + 1
    BY <1>3 DEF CommitExpiration
  <2>2. ASSUME NEW d \in Drivers
        PROVE  score'[d].eligible => score'[d].count > 0
    <3>1. score'[d] = Exact(x, d)
      BY <1>3, <2>1 DEF IInv, CommitExpiration, RunInv, Running, InHand
    <3>2. rating \in [Trips -> Ratings] /\ EffectiveAt[x] \in Nat
      BY RowsAssumption DEF IInv, Shape, Times
    <3>3. PICK r : r = Exact(x, d)
      OBVIOUS
    <3>4. r.count \in Nat
      BY <3>2, <3>3, ScoreIsRow DEF Exact, Rows
    <3>5. r.eligible => r.count >= EligibilityCount
      BY <3>3 DEF Exact, ScoreOf
    <3> QED BY <3>1, <3>3, <3>4, <3>5, LimitsAssumption
  <2>3. Rankable(score)'
    BY <2>2 DEF Rankable, Standing
  <2>4. CASE Affected(x) = {}
    <3>1. \A d \in Drivers : score[d] # None
      BY <2>4 DEF Affected
    <3> QED BY <2>1, <2>3, <2>4, <3>1 DEF BoardInv
  <2>5. CASE Affected(x) # {}
    <3>1. published'.version = newest + 1 /\ newest' = newest + 1
      BY <2>1, <2>5 DEF Generation
    <3> QED BY <2>3, <3>1 DEF BoardInv
  <2> QED BY <2>4, <2>5
<1> QED
  BY <1>1, <1>2, <1>3 DEF Next, vars, tables, Tick, ChangeReview, WorkerStep, FailBatch,
     ExpirerStep, FailExpiration, Claim, CheckExpiration, LockCity, RejectSecondRun, Recalculate,
     Aggregate, Load, FlushUpdate, FlushInsert, ReferenceCity, DuplicateRow, RefuseEntry,
     CancelBatch, RollBack, CancelExpiration, RollBackExpiration

LEMMA BoardsInitially == Init => BoardsInv
<1> SUFFICES ASSUME Init PROVE BoardsInv
  OBVIOUS
<1> USE DEF Init
<1>1. ClockInv
  BY RowsAssumption DEF ClockInv
<1>2. LockInv
  BY CityAssumption DEF LockInv
<1>3. CountInv
  <2>1. ASSUME NEW d \in Drivers PROVE InBatches(d) = 0
    <3>1. PICK f : f = [w \in Workers |-> claimed[w][d]]
      OBVIOUS
    <3>2. \A w \in Workers : f[w] = 0
      BY <3>1 DEF NoEvents
    <3> QED BY <3>1, <3>2, CityAssumption, SumOfZeros DEF InBatches
  <2> QED BY <2>1, CityAssumption DEF CountInv, NoEvents
<1>4. RowsInv
  BY ProcessesAssumption DEF RowsInv, ProcessRows, IsRow, NoScores, Processes
<1>5. BoardInv
  BY DEF BoardInv, Rankable, Standing, NoScores
<1> QED BY <1>1, <1>2, <1>3, <1>4, <1>5 DEF BoardsInv

(* Rows are well-formed, events counted once and boards rankable in every    *)
(* reachable state (process_batch and run_city_expiration).                  *)
THEOREM BoardsInvHolds == Spec => [](IInv /\ BoardsInv)
<1>1. IInv /\ BoardsInv /\ [Next]_vars => BoardsInv'
  BY ClockStep, LockStep, CountStep, RowsStep, RankableStep DEF BoardsInv, IInv
<1> QED BY <1>1, Initially, Invariance, BoardsInitially, PTL DEF Spec

-----------------------------------------------------------------------------
(* What is published *)

LEMMA StandingIsComparable ==
  ASSUME NEW rows, \A d \in Drivers : IsRow(rows[d]), Rankable(rows)
  PROVE  Comparable(Standing(rows), DOMAIN Standing(rows))
<1>1. PICK D \in SUBSET Drivers : D = DOMAIN Standing(rows)
  BY DEF Standing
<1>2. IsFiniteSet(D) /\ D \subseteq Nat
  BY CityAssumption, FS_Subset
<1>3. ASSUME NEW d \in D
      PROVE  Standing(rows)[d].sum \in Nat /\ Standing(rows)[d].count \in Nat \ {0}
  <2>1. /\ rows[d] # None /\ Standing(rows)[d].sum = rows[d].sum
        /\ Standing(rows)[d].count = rows[d].count
    BY <1>1 DEF Standing
  <2>2. rows[d] \in Rows /\ rows[d].count > 0
    BY <1>1, <2>1 DEF IsRow, Rankable
  <2> QED BY <2>1, <2>2 DEF Rows
<1> QED BY <1>1, <1>2, <1>3 DEF Comparable

(* The entries are the ranked drivers with their sums and counts. *)
LEMMA EntriesOfRanked ==
  ASSUME NEW standing, NEW ranked, ranked = RankedDrivers(standing), NEW D, ranked \in Seq(D)
  PROVE  /\ DOMAIN Entries(standing) = DOMAIN ranked
         /\ Len(Entries(standing)) = Len(ranked)
         /\ \A i \in DOMAIN ranked :
              Entries(standing)[i] = [driver |-> ranked[i], sum |-> standing[ranked[i]].sum,
                                      count |-> standing[ranked[i]].count]
<1>1. PICK e : e = Entries(standing)
  OBVIOUS
<1>2. e = [i \in DOMAIN ranked |-> [driver |-> ranked[i], sum |-> standing[ranked[i]].sum,
                                    count |-> standing[ranked[i]].count]]
  BY <1>1 DEF Entries
<1>3. DOMAIN ranked = 1..Len(ranked) /\ Len(ranked) \in Nat
  OBVIOUS
<1>4. Len(e) = Len(ranked)
  BY <1>2, <1>3
<1> QED BY <1>1, <1>2, <1>4

LEMMA ShortBoard ==
  ASSUME RowsInv, BoardInv, PublishedIsRanking
  PROVE  Len(published.entries) <= BoardLimit
<1>1. CASE published.version = 0
  <2>1. Len(<<>>) = 0 /\ BoardLimit \in Nat
    BY LimitsAssumption
  <2> QED BY <1>1, <2>1 DEF BoardInv
<1>2. CASE published.version # 0
  <2>1. published.entries = Entries(Standing(score))
    BY <1>2 DEF BoardInv, PublishedIsRanking
  <2>2. PICK st : st = Standing(score) /\ Comparable(st, DOMAIN st)
    BY StandingIsComparable DEF RowsInv, BoardInv
  <2>3. PICK r : r = RankedDrivers(st)
    OBVIOUS
  <2>4. r \in Seq(DOMAIN st) /\ Len(r) <= BoardLimit
    BY <2>2, <2>3, RankedDriversAreRanked
  <2>5. Len(Entries(st)) = Len(r)
    BY <2>3, <2>4, EntriesOfRanked
  <2> QED BY <2>1, <2>2, <2>4, <2>5
<1> QED BY <1>1, <1>2

(* TypeOK: among others no event is counted twice, whatever batches fail and *)
(* come back, so that the pending ones never exceed the changes              *)
(* (process_batch), and no board exceeds the limit.                          *)
THEOREM TypesAreOK == Spec => []TypeOK
<1>1. IInv /\ BoardsInv => TypeOK
  <2> SUFFICES ASSUME IInv, BoardsInv PROVE TypeOK
    OBVIOUS
  <2> USE DEF BoardsInv, IInv
  <2>1. ASSUME NEW d \in Drivers
        PROVE  unclaimed[d] \in 0..MaxChanges /\ \A w \in Workers : claimed[w][d] \in 0..MaxChanges
    <3>1. PICK f : f = [w \in Workers |-> claimed[w][d]]
      OBVIOUS
    <3>2. \A w \in Workers : f[w] \in Nat /\ f[w] = claimed[w][d]
      BY <3>1 DEF CountInv
    <3>3. PICK s : s = SumFunctionOnSet(f, Workers)
      OBVIOUS
    <3>4. IsFiniteSet(Workers)
      BY CityAssumption
    <3>5. s \in Nat
      BY <3>2, <3>3, <3>4, SumType
    <3>6. \A w \in Workers : f[w] <= s
      BY <3>2, <3>3, <3>4, SumBounds
    <3>7. unclaimed[d] \in Nat /\ unclaimed[d] + s <= changes
      BY <3>1, <3>3 DEF CountInv, InBatches
    <3>8. changes \in Nat /\ changes <= MaxChanges /\ MaxChanges \in Nat
      BY CityAssumption DEF CountInv
    <3> QED BY <3>2, <3>5, <3>6, <3>7, <3>8
  <2>2. unclaimed \in [Drivers -> 0..MaxChanges] /\ claimed \in [Workers -> [Drivers -> 0..MaxChanges]]
    BY <2>1 DEF CountInv
  <2>3. at \in [Processes -> Nat]
    <3>1. \A p \in Processes : at[p] \in Nat
      BY DEF RowsInv, ProcessRows
    <3>2. at = [p \in Processes |-> at[p]]
      BY DEF LockInv
    <3> QED BY <3>1, <3>2
  <2>4. Len(published.entries) <= BoardLimit
    BY ShortBoard
  <2> QED BY <2>2, <2>3, <2>4
          DEF TypeOK, ClockInv, LockInv, CountInv, RowsInv, IsRow, BoardInv, Shape
<1> QED BY <1>1, BoardsInvHolds, PTL

LEMMA RankedEntries ==
  ASSUME NEW rows, \A d \in Drivers : IsRow(rows[d]), Rankable(rows), NEW d \in Drivers
  PROVE  LET standing == Standing(rows)
             eligible == {e \in Drivers : rows[e] # None /\ rows[e].eligible}
             rank     == 1 + Cardinality({e \in eligible : Ahead(rows, e, d)})
             entries  == Entries(standing)
         IN /\ d \in eligible /\ rank <= BoardLimit =>
                 /\ rank \in DOMAIN entries
                 /\ entries[rank] = [driver |-> d, sum |-> rows[d].sum, count |-> rows[d].count]
            /\ \A i \in DOMAIN entries :
                 entries[i].driver = d => d \in eligible /\ rank = i /\ rank <= BoardLimit
<1>1. PICK st : st = Standing(rows)
  OBVIOUS
<1>2. PICK D : D = {e \in Drivers : rows[e] # None /\ rows[e].eligible}
  OBVIOUS
<1>3. DOMAIN st = D /\ \A e \in D : st[e].sum = rows[e].sum /\ st[e].count = rows[e].count
  BY <1>1, <1>2 DEF Standing
<1>4. Comparable(st, DOMAIN st)
  BY <1>1, StandingIsComparable
<1>5. PICK r : r = RankedDrivers(st)
  OBVIOUS
<1>6. /\ r \in Seq(D) /\ Len(r) <= BoardLimit
      /\ \A i \in DOMAIN r : RankIn(st, D, r[i]) = i
      /\ \A e \in D : RankIn(st, D, e) <= BoardLimit =>
                        RankIn(st, D, e) \in DOMAIN r /\ r[RankIn(st, D, e)] = e
  BY <1>3, <1>4, <1>5, RankedDriversAreRanked
<1>7. PICK entries : entries = Entries(st)
  OBVIOUS
<1>8. /\ DOMAIN entries = DOMAIN r
      /\ \A i \in DOMAIN r : entries[i] = [driver |-> r[i], sum |-> st[r[i]].sum,
                                           count |-> st[r[i]].count]
  BY <1>5, <1>6, <1>7, EntriesOfRanked
<1>9. PICK rank : rank = 1 + Cardinality({e \in D : Ahead(rows, e, d)})
  OBVIOUS
<1>10. d \in D => rank = RankIn(st, D, d)
  <2>1. ASSUME d \in D PROVE {e \in D : Ahead(rows, e, d)} = AheadOf(st, D, d)
    BY <1>3, <2>1 DEF Ahead, AheadOf
  <2> QED BY <1>9, <2>1 DEF RankIn
<1>11. d \in D /\ rank <= BoardLimit =>
         /\ rank \in DOMAIN entries
         /\ entries[rank] = [driver |-> d, sum |-> rows[d].sum, count |-> rows[d].count]
  BY <1>3, <1>6, <1>8, <1>10
<1>12. ASSUME NEW i \in DOMAIN entries, entries[i].driver = d
       PROVE  d \in D /\ rank = i /\ rank <= BoardLimit
  <2>1. i \in DOMAIN r /\ r[i] = d
    BY <1>8, <1>12
  <2>2. d \in D /\ i <= Len(r) /\ i \in Nat /\ Len(r) \in Nat
    BY <1>6, <2>1
  <2>3. rank = i
    BY <1>6, <1>10, <2>1, <2>2
  <2> QED BY <1>6, <2>2, <2>3, LimitsAssumption
<1> QED BY <1>1, <1>2, <1>7, <1>9, <1>11, <1>12

(* PublishedMatchesScores: the audit's query finds every eligible driver at  *)
(* the rank its score gives it, with that score, up to the limit, and nobody *)
(* else on the board (build_and_publish_generation), at every moment and     *)
(* with any number of workers and expiration runs.                           *)
THEOREM AuditFindsTheBoard == Spec => []PublishedMatchesScores
<1>1. IInv /\ BoardsInv => PublishedMatchesScores
  <2> SUFFICES ASSUME IInv, BoardsInv, NEW d \in Drivers PROVE d \notin WrongEntries
    BY DEF PublishedMatchesScores, WrongEntries
  <2> USE DEF IInv, BoardsInv
  <2>1. PICK D : D = {e \in Drivers : score[e] # None /\ score[e].eligible}
    OBVIOUS
  <2>2. PICK rank : rank = 1 + Cardinality({e \in D : Ahead(score, e, d)})
    OBVIOUS
  <2>3. /\ d \in D /\ rank <= BoardLimit =>
             /\ rank \in DOMAIN published.entries
             /\ published.entries[rank] =
                  [driver |-> d, sum |-> score[d].sum, count |-> score[d].count]
        /\ \A i \in DOMAIN published.entries :
             published.entries[i].driver = d => d \in D /\ rank = i /\ rank <= BoardLimit
    <3>1. CASE published.version = 0
      <4>1. published.entries = <<>> /\ D = {}
        BY <2>1, <3>1 DEF BoardInv
      <4> QED BY <4>1
    <3>2. CASE published.version # 0
      <4>1. published.entries = Entries(Standing(score))
        BY <3>2 DEF BoardInv, PublishedIsRanking
      <4>2. (\A e \in Drivers : IsRow(score[e])) /\ Rankable(score)
        BY DEF RowsInv, BoardInv
      <4> QED BY <2>1, <2>2, <4>1, <4>2, RankedEntries
    <3> QED BY <3>1, <3>2
  <2> QED BY <2>1, <2>2, <2>3 DEF WrongEntries
<1> QED BY <1>1, BoardsInvHolds, PTL
=============================================================================
