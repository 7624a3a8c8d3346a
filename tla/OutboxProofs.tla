---------------------------- MODULE OutboxProofs ----------------------------
(* Proofs about Outbox for any number of workers and events, any batch size, *)
(* any attempt limit and any number of crashes and lost acknowledgements.    *)
EXTENDS Outbox, TLAPS

(* Type correctness. *)
THEOREM TypeCorrect == Spec => []TypeOK
<1>1. Init => TypeOK
  BY DEF Init, TypeOK, Statuses, Phases
<1>2. TypeOK /\ [Next]_vars => TypeOK'
  <2> SUFFICES ASSUME TypeOK, [Next]_vars PROVE TypeOK'
    OBVIOUS
  <2> USE MaxAttemptsAssumption DEF TypeOK, Statuses, Phases, rows, workers, faults
  <2>1. ASSUME NEW e \in Events, Enqueue(e) PROVE TypeOK'
    BY <2>1 DEF Enqueue
  <2>2. ASSUME NEW e \in Events, BecomeDue(e) PROVE TypeOK'
    BY <2>2 DEF BecomeDue
  <2>3. ASSUME NEW w \in Workers, BeginBatch(w) PROVE TypeOK'
    BY <2>3 DEF BeginBatch
  <2>4. ASSUME NEW w \in Workers, ScanRow(w) PROVE TypeOK'
    <3>1. PICK e \in scan[w] :
            /\ scan' = [scan EXCEPT ![w] = @ \ {e}]
            /\ held' = IF ~LockedByOther(w, e) /\ Claimable(e)
                       THEN [held EXCEPT ![w] = @ \cup {e}] ELSE held
      BY <2>4 DEF ScanRow
    <3>2. scan' \in [Workers -> SUBSET Events] /\ held' \in [Workers -> SUBSET Events]
      BY <3>1
    <3> QED BY <2>4, <3>2 DEF ScanRow
  <2>5. ASSUME NEW w \in Workers, EndScan(w) PROVE TypeOK'
    BY <2>5 DEF EndScan
  <2>6. ASSUME NEW w \in Workers, GroupEvents(w) PROVE TypeOK'
    BY <2>6 DEF GroupEvents
  <2>7. ASSUME NEW w \in Workers, CommitBatch(w) PROVE TypeOK'
    BY <2>7 DEF CommitBatch, Complete
  <2>8. ASSUME NEW w \in Workers, LoseCommitAck(w) PROVE TypeOK'
    BY <2>8 DEF LoseCommitAck, Complete
  <2>9. ASSUME NEW w \in Workers, FailBatch(w) PROVE TypeOK'
    BY <2>9 DEF FailBatch
  <2>10. ASSUME NEW w \in Workers, RelockRow(w) PROVE TypeOK'
    BY <2>10 DEF RelockRow
  <2>11. ASSUME NEW w \in Workers, RecordFailure(w) PROVE TypeOK'
    <3>1. attempts' \in [Events -> Nat]
      BY <2>11 DEF RecordFailure
    <3>2. status' \in [Events -> Statuses]
      BY <2>11 DEF RecordFailure, FailureOutcome
    <3> QED BY <2>11, <3>1, <3>2 DEF RecordFailure
  <2>12. ASSUME NEW w \in Workers, Crash(w) PROVE TypeOK'
    BY <2>12 DEF Crash, Stop
  <2>13. ASSUME NEW w \in Workers, DieOfDeadlock(w) PROVE TypeOK'
    BY <2>13 DEF DieOfDeadlock, Stop
  <2>14. ASSUME NEW w \in Workers, Restart(w) PROVE TypeOK'
    BY <2>14 DEF Restart
  <2>15. CASE UNCHANGED vars
    BY <2>15 DEF vars
  <2> QED
    BY <2>1, <2>2, <2>3, <2>4, <2>5, <2>6, <2>7, <2>8, <2>9, <2>10, <2>11,
       <2>12, <2>13, <2>14, <2>15 DEF Next, Work
<1> QED
  BY <1>1, <1>2, PTL DEF Spec

-----------------------------------------------------------------------------
(* How a worker's place determines what it holds: no lock between batches,   *)
(* the claimed rows while processing, pending ones until the commit,  *)
(* and a fresh set that is exactly what the ledger misses.                   *)
WorkerShape ==
  \A w \in Workers :
    /\ pc[w] \in {"idle", "down"} => held[w] = {}
    /\ pc[w] \in {"claimed", "grouped"} => held[w] = batch[w]
    /\ pc[w] # "failed" => \A e \in held[w] : status[e] = "pending"
    /\ fresh[w] = IF pc[w] = "grouped" THEN batch[w] \ ledger ELSE {}

(* A row that does not exist yet is in no batch and not in the ledger. *)
AbsentIsUntouched ==
  \A e \in Events : status[e] = "absent" =>
    e \notin ledger /\ \A w \in Workers : e \notin batch[w]

(* The inductive invariant.  AppliedOnce alone is not inductive: it needs    *)
(* that the set recalculated by a commit is still missing from the ledger    *)
(* (WorkerShape), and that needs that no other worker can have completed a   *)
(* row this one holds (ClaimsAreDisjoint).                                   *)
IInv ==
  /\ TypeOK
  /\ ClaimsAreDisjoint
  /\ WorkerShape
  /\ AbsentIsUntouched
  /\ AppliedOnce
  /\ CompletedHasLedger
  /\ FailedExhausted

LEMMA InitIInv == Init => IInv
  BY DEF Init, IInv, TypeOK, Statuses, Phases, ClaimsAreDisjoint, WorkerShape,
         AbsentIsUntouched, AppliedOnce, CompletedHasLedger, FailedExhausted

(* A row lock is granted only when no other transaction has it. *)
LEMMA LockingKeepsDisjoint ==
  ASSUME TypeOK, ClaimsAreDisjoint, NEW w \in Workers, NEW e \in Events,
         ~LockedByOther(w, e),
         held' = [held EXCEPT ![w] = @ \cup {e}]
  PROVE  ClaimsAreDisjoint'
  BY DEF TypeOK, ClaimsAreDisjoint, LockedByOther

(* Releasing the locks of a worker disturbs no other. *)
LEMMA ReleasingKeepsDisjoint ==
  ASSUME TypeOK, ClaimsAreDisjoint, NEW w \in Workers,
         held' = [held EXCEPT ![w] = {}]
  PROVE  ClaimsAreDisjoint'
  BY DEF TypeOK, ClaimsAreDisjoint

(* The commit of a batch, acknowledged or not. *)
LEMMA CompleteKeepsIInv ==
  ASSUME IInv, TypeOK', NEW w \in Workers, pc[w] = "grouped", Complete(w),
         \/ pc' = [pc EXCEPT ![w] = "idle"] /\ batch' = [batch EXCEPT ![w] = {}]
         \/ pc' = [pc EXCEPT ![w] = "failed"] /\ UNCHANGED batch
  PROVE  IInv'
<1> USE DEF IInv
<1>1. /\ held[w] = batch[w] /\ fresh[w] = batch[w] \ ledger
      /\ \A e \in batch[w] : status[e] = "pending"
      /\ batch[w] \subseteq Events
  BY DEF WorkerShape, TypeOK
<1>2. \A v \in Workers \ {w} : held[v] \cap batch[w] = {}
  BY <1>1 DEF ClaimsAreDisjoint
<1>3. ClaimsAreDisjoint'
  BY ReleasingKeepsDisjoint DEF Complete
<1>4. AppliedOnce'
  BY <1>1 DEF AppliedOnce, Complete, TypeOK
<1>5. CompletedHasLedger'
  BY <1>1 DEF CompletedHasLedger, Complete, TypeOK
<1>6. FailedExhausted'
  BY <1>1 DEF FailedExhausted, Complete, TypeOK
<1>7. AbsentIsUntouched'
  BY <1>1 DEF AbsentIsUntouched, Complete, TypeOK
<1>8. WorkerShape'
  <2>1. ASSUME NEW v \in Workers, v # w
        PROVE  /\ pc'[v] = pc[v] /\ batch'[v] = batch[v]
               /\ held'[v] = held[v] /\ fresh'[v] = fresh[v]
    BY <2>1 DEF Complete, TypeOK
  <2>2. ASSUME NEW v \in Workers, v # w
        PROVE  \A e \in held[v] : status'[e] = status[e]
    BY <2>2, <1>2 DEF Complete, TypeOK
  <2>3. ASSUME NEW v \in Workers, v # w, pc[v] = "grouped"
        PROVE  batch[v] \ ledger' = batch[v] \ ledger
    BY <2>3, <1>2 DEF Complete, WorkerShape
  <2>4. ASSUME NEW v \in Workers, v # w
        PROVE  /\ pc'[v] \in {"idle", "down"} => held'[v] = {}
               /\ pc'[v] \in {"claimed", "grouped"} => held'[v] = batch'[v]
               /\ pc'[v] # "failed" => \A e \in held'[v] : status'[e] = "pending"
               /\ fresh'[v] = IF pc'[v] = "grouped" THEN batch'[v] \ ledger' ELSE {}
    <3>1. /\ pc[v] \in {"idle", "down"} => held[v] = {}
          /\ pc[v] \in {"claimed", "grouped"} => held[v] = batch[v]
          /\ pc[v] # "failed" => \A e \in held[v] : status[e] = "pending"
          /\ fresh[v] = IF pc[v] = "grouped" THEN batch[v] \ ledger ELSE {}
      BY DEF WorkerShape
    <3>2. /\ pc'[v] = pc[v] /\ batch'[v] = batch[v]
          /\ held'[v] = held[v] /\ fresh'[v] = fresh[v]
      BY <2>1, <2>4
    <3>3. pc'[v] # "failed" => \A e \in held'[v] : status'[e] = "pending"
      BY <2>2, <2>4, <3>1, <3>2
    <3>4. fresh'[v] = IF pc'[v] = "grouped" THEN batch'[v] \ ledger' ELSE {}
      BY <2>3, <2>4, <3>1, <3>2
    <3> QED BY <3>1, <3>2, <3>3, <3>4
  <2>5. /\ held'[w] = {} /\ fresh'[w] = {} /\ pc'[w] \in {"idle", "failed"}
    BY DEF Complete, TypeOK
  <2> QED BY <2>4, <2>5 DEF WorkerShape
<1> QED BY <1>3, <1>4, <1>5, <1>6, <1>7, <1>8

LEMMA NextIInv == IInv /\ TypeOK' /\ [Next]_vars => IInv'
<1> SUFFICES ASSUME IInv, TypeOK', [Next]_vars PROVE IInv'
  OBVIOUS
<1> USE DEF IInv, rows, workers, faults
<1>1. ASSUME NEW e \in Events, Enqueue(e) PROVE IInv'
  <2>1. ClaimsAreDisjoint' /\ WorkerShape'
    BY <1>1 DEF Enqueue, TypeOK, ClaimsAreDisjoint, WorkerShape
  <2>2. AbsentIsUntouched' /\ AppliedOnce' /\ CompletedHasLedger' /\ FailedExhausted'
    BY <1>1 DEF Enqueue, TypeOK, AbsentIsUntouched, AppliedOnce,
                CompletedHasLedger, FailedExhausted
  <2> QED BY <2>1, <2>2
<1>2. ASSUME NEW e \in Events, BecomeDue(e) PROVE IInv'
  BY <1>2 DEF BecomeDue, ClaimsAreDisjoint, WorkerShape, AbsentIsUntouched,
              AppliedOnce, CompletedHasLedger, FailedExhausted
<1>3. ASSUME NEW w \in Workers, BeginBatch(w) PROVE IInv'
  BY <1>3 DEF BeginBatch, TypeOK, ClaimsAreDisjoint, WorkerShape,
              AbsentIsUntouched, AppliedOnce, CompletedHasLedger, FailedExhausted
<1>4. ASSUME NEW w \in Workers, ScanRow(w) PROVE IInv'
  <2>1. PICK e \in scan[w] :
          held' = IF ~LockedByOther(w, e) /\ Claimable(e)
                  THEN [held EXCEPT ![w] = @ \cup {e}] ELSE held
    BY <1>4 DEF ScanRow
  <2>2. e \in Events
    BY DEF TypeOK
  <2>3. ClaimsAreDisjoint'
    <3>1. CASE ~LockedByOther(w, e) /\ Claimable(e)
      BY <2>1, <2>2, <3>1, LockingKeepsDisjoint
    <3>2. CASE ~(~LockedByOther(w, e) /\ Claimable(e))
      BY <2>1, <3>2 DEF ClaimsAreDisjoint
    <3> QED BY <3>1, <3>2
  <2>4. WorkerShape'
    BY <1>4, <2>1, <2>2 DEF ScanRow, TypeOK, WorkerShape, Claimable
  <2> QED
    BY <1>4, <2>3, <2>4 DEF ScanRow, AbsentIsUntouched, AppliedOnce,
                            CompletedHasLedger, FailedExhausted
<1>5. ASSUME NEW w \in Workers, EndScan(w) PROVE IInv'
  <2>1. WorkerShape'
    BY <1>5 DEF EndScan, TypeOK, WorkerShape
  <2>2. AbsentIsUntouched'
    BY <1>5 DEF EndScan, TypeOK, WorkerShape, AbsentIsUntouched
  <2> QED
    BY <1>5, <2>1, <2>2 DEF EndScan, ClaimsAreDisjoint, AppliedOnce,
                            CompletedHasLedger, FailedExhausted
<1>6. ASSUME NEW w \in Workers, GroupEvents(w) PROVE IInv'
  BY <1>6 DEF GroupEvents, TypeOK, ClaimsAreDisjoint, WorkerShape,
              AbsentIsUntouched, AppliedOnce, CompletedHasLedger, FailedExhausted
<1>7. ASSUME NEW w \in Workers, CommitBatch(w) PROVE IInv'
  BY <1>7, CompleteKeepsIInv DEF CommitBatch
<1>8. ASSUME NEW w \in Workers, LoseCommitAck(w) PROVE IInv'
  BY <1>8, CompleteKeepsIInv DEF LoseCommitAck
<1>9. ASSUME NEW w \in Workers, FailBatch(w) PROVE IInv'
  <2>1. ClaimsAreDisjoint'
    BY <1>9, ReleasingKeepsDisjoint DEF FailBatch
  <2>2. WorkerShape'
    BY <1>9 DEF FailBatch, TypeOK, WorkerShape
  <2> QED
    BY <1>9, <2>1, <2>2 DEF FailBatch, AbsentIsUntouched, AppliedOnce,
                            CompletedHasLedger, FailedExhausted
<1>10. ASSUME NEW w \in Workers, RelockRow(w) PROVE IInv'
  <2>1. PICK e \in batch[w] \ held[w] :
          ~LockedByOther(w, e) /\ held' = [held EXCEPT ![w] = @ \cup {e}]
    BY <1>10 DEF RelockRow
  <2>2. ClaimsAreDisjoint'
    BY <2>1, LockingKeepsDisjoint DEF TypeOK
  <2>3. WorkerShape'
    BY <1>10, <2>1 DEF RelockRow, TypeOK, WorkerShape
  <2> QED
    BY <1>10, <2>2, <2>3 DEF RelockRow, AbsentIsUntouched, AppliedOnce,
                             CompletedHasLedger, FailedExhausted
<1>11. ASSUME NEW w \in Workers, RecordFailure(w) PROVE IInv'
  <2>1. \A e \in Events : status'[e] \in {status[e], "pending", "failed"}
    BY <1>11 DEF RecordFailure, FailureOutcome
  <2>2. \A v \in Workers \ {w} : held[v] \cap batch[w] = {}
    BY <1>11 DEF RecordFailure, ClaimsAreDisjoint
  <2>3. ClaimsAreDisjoint'
    BY <1>11, ReleasingKeepsDisjoint DEF RecordFailure
  <2>4. WorkerShape'
    <3>1. ASSUME NEW v \in Workers, v # w
          PROVE  \A e \in held[v] : status'[e] = status[e]
      BY <1>11, <2>2, <3>1 DEF RecordFailure, TypeOK
    <3> QED
      BY <1>11, <3>1 DEF RecordFailure, TypeOK, WorkerShape
  <2>5. AbsentIsUntouched'
    BY <1>11 DEF RecordFailure, FailureOutcome, TypeOK, AbsentIsUntouched
  <2>6. FailedExhausted'
    BY <1>11, MaxAttemptsAssumption
    DEF RecordFailure, FailureOutcome, TypeOK, FailedExhausted
  <2>7. AppliedOnce' /\ CompletedHasLedger'
    BY <1>11, <2>1 DEF RecordFailure, AppliedOnce, CompletedHasLedger
  <2> QED BY <2>3, <2>4, <2>5, <2>6, <2>7
<1>12. ASSUME NEW w \in Workers, Stop(w) PROVE IInv'
  <2>1. ClaimsAreDisjoint'
    BY <1>12, ReleasingKeepsDisjoint DEF Stop
  <2>2. WorkerShape' /\ AbsentIsUntouched'
    BY <1>12 DEF Stop, TypeOK, WorkerShape, AbsentIsUntouched
  <2> QED
    BY <1>12, <2>1, <2>2 DEF Stop, AppliedOnce, CompletedHasLedger, FailedExhausted
<1>13. ASSUME NEW w \in Workers, Crash(w) \/ DieOfDeadlock(w) PROVE IInv'
  BY <1>12, <1>13 DEF Crash, DieOfDeadlock
<1>14. ASSUME NEW w \in Workers, Restart(w) PROVE IInv'
  BY <1>14 DEF Restart, TypeOK, ClaimsAreDisjoint, WorkerShape, AbsentIsUntouched,
               AppliedOnce, CompletedHasLedger, FailedExhausted
<1>15. CASE UNCHANGED vars
  BY <1>15 DEF vars, ClaimsAreDisjoint, WorkerShape, AbsentIsUntouched,
               AppliedOnce, CompletedHasLedger, FailedExhausted
<1> QED
  BY <1>1, <1>2, <1>3, <1>4, <1>5, <1>6, <1>7, <1>8, <1>9, <1>10, <1>11,
     <1>13, <1>14, <1>15 DEF Next, Work

(* The inductive invariant holds of every reachable state. *)
THEOREM Invariance == Spec => []IInv
<1>1. Spec => []TypeOK
  BY TypeCorrect
<1> QED
  BY <1>1, InitIInv, NextIInv, PTL DEF Spec

-----------------------------------------------------------------------------
(* Every event the ledger has was applied by exactly one committed batch,    *)
(* every other by none: the state of the world after replays, crashes, lost  *)
(* acknowledgements and late failure records.                                *)
THEOREM EffectOnce == Spec => []AppliedOnce
  BY Invariance, PTL DEF IInv

(* No row is ever locked by two workers. *)
THEOREM DisjointClaims == Spec => []ClaimsAreDisjoint
  BY Invariance, PTL DEF IInv

(* An audited relation: a completed event is in the ledger.                  *)
THEOREM CompletionIsRecorded == Spec => []CompletedHasLedger
  BY Invariance, PTL DEF IInv

(* The other one: an event is given up after its last attempt only.          *)
THEOREM FailureIsExhausted == Spec => []FailedExhausted
  BY Invariance, PTL DEF IInv

(* What a worker found out as it claimed its rows and read the ledger is     *)
(* still so when it commits: the rows are pending, the fresh ones unledgered.*)
THEOREM ClaimsStayValid == Spec => [](HeldIsPending /\ FreshStaysFresh)
<1>1. IInv => HeldIsPending /\ FreshStaysFresh
  BY DEF IInv, WorkerShape, HeldIsPending, FreshStaysFresh
<1> QED
  BY <1>1, Invariance, PTL

(* A failed event is never reopened, by whatever worker.  A claimed row is   *)
(* pending, so no commit reaches a failed one; a late failure record does,   *)
(* but finds the attempts exhausted already.                                 *)
THEOREM TerminalFailure == Spec => FailedIsTerminal
<1>1. IInv /\ [Next]_vars =>
        [\A e \in Events : status[e] = "failed" => status'[e] = "failed"]_vars
  <2> SUFFICES ASSUME IInv, Next, NEW e \in Events, status[e] = "failed"
               PROVE  status'[e] = "failed"
    OBVIOUS
  <2> USE DEF IInv, rows, workers, faults
  <2>1. attempts[e] >= MaxAttempts /\ attempts[e] \in Nat
    BY DEF FailedExhausted, TypeOK
  <2>2. ASSUME NEW f \in Events, Enqueue(f) \/ BecomeDue(f) PROVE status'[e] = "failed"
    BY <2>2 DEF Enqueue, BecomeDue, TypeOK
  <2>3. ASSUME NEW w \in Workers, pc[w] = "grouped", Complete(w)
        PROVE  status'[e] = "failed"
    <3>1. e \notin batch[w]
      BY <2>3 DEF WorkerShape
    <3> QED BY <2>3, <3>1 DEF Complete, TypeOK
  <2>4. ASSUME NEW w \in Workers, CommitBatch(w) \/ LoseCommitAck(w)
        PROVE  status'[e] = "failed"
    BY <2>3, <2>4 DEF CommitBatch, LoseCommitAck
  <2>5. ASSUME NEW w \in Workers, RecordFailure(w) PROVE status'[e] = "failed"
    BY <2>1, <2>5, MaxAttemptsAssumption DEF RecordFailure, FailureOutcome, TypeOK
  <2>6. ASSUME NEW w \in Workers,
               BeginBatch(w) \/ ScanRow(w) \/ EndScan(w) \/ GroupEvents(w)
               \/ FailBatch(w) \/ RelockRow(w) \/ Restart(w)
               \/ DieOfDeadlock(w) \/ Crash(w)
        PROVE  status'[e] = "failed"
    BY <2>6 DEF BeginBatch, ScanRow, EndScan, GroupEvents, FailBatch, RelockRow,
                Restart, DieOfDeadlock, Crash, Stop
  <2> QED BY <2>2, <2>4, <2>5, <2>6 DEF Next, Work
<1> QED
  BY <1>1, Invariance, PTL DEF Spec, FailedIsTerminal

-----------------------------------------------------------------------------
(* Refinement of Delivery *)

LEMMA InitDelivery == Init => Contract!Init
  BY DEF Init, Contract!Init, Outcome

(* Each step settles a set of waiting events, accepts one, or leaves the     *)
(* contract's variables alone.                                               *)
LEMMA StepDelivery == IInv /\ IInv' /\ [Next]_vars => [Contract!Next]_(Contract!vars)
<1> SUFFICES ASSUME IInv, IInv', [Next]_vars
             PROVE  [Contract!Next]_(Contract!vars)
  OBVIOUS
<1> USE DEF IInv, rows, workers, faults
<1> DEFINE outcome == [e \in Events |-> Outcome(e)]
<1>0. ASSUME status' = status, ledger' = ledger, applied' = applied
      PROVE  UNCHANGED Contract!vars
  BY <1>0 DEF Contract!vars, Outcome
<1>1. ASSUME NEW e \in Events, Enqueue(e) PROVE Contract!Accept(e)
  <2>1. status[e] = "absent" /\ e \notin ledger
    BY <1>1 DEF Enqueue, AbsentIsUntouched
  <2>2. outcome' = [outcome EXCEPT ![e] = "waiting"]
    BY <1>1, <2>1 DEF Enqueue, Outcome, TypeOK
  <2> QED BY <1>1, <2>1, <2>2 DEF Enqueue, Contract!Accept, Outcome
<1>2. ASSUME NEW e \in Events, BecomeDue(e) PROVE UNCHANGED Contract!vars
  BY <1>0, <1>2 DEF BecomeDue
<1>3. ASSUME NEW w \in Workers,
             BeginBatch(w) \/ ScanRow(w) \/ EndScan(w) \/ GroupEvents(w)
             \/ FailBatch(w) \/ RelockRow(w) \/ Restart(w)
             \/ DieOfDeadlock(w) \/ Crash(w)
      PROVE  UNCHANGED Contract!vars
  BY <1>0, <1>3 DEF BeginBatch, ScanRow, EndScan, GroupEvents, FailBatch, RelockRow,
                    Restart, DieOfDeadlock, Crash, Stop
<1>4. ASSUME NEW w \in Workers, pc[w] = "grouped", Complete(w)
      PROVE  Contract!Deliver(fresh[w]) \/ UNCHANGED Contract!vars
  <2>1. /\ fresh[w] = batch[w] \ ledger /\ batch[w] \subseteq Events
        /\ \A e \in batch[w] : status[e] = "pending"
    BY <1>4 DEF WorkerShape, TypeOK
  <2>2. \A e \in fresh[w] : outcome[e] = "waiting"
    BY <2>1 DEF Outcome
  <2>3. outcome' = [e \in Events |-> IF e \in fresh[w] THEN "delivered" ELSE outcome[e]]
    BY <1>4, <2>1 DEF Complete, Outcome, TypeOK
  <2>4. applied' = [e \in Events |-> IF e \in fresh[w] THEN applied[e] + 1 ELSE applied[e]]
    BY <1>4 DEF Complete
  <2>5. CASE fresh[w] = {}
    BY <2>3, <2>4, <2>5 DEF Contract!vars, TypeOK
  <2>6. CASE fresh[w] # {}
    BY <2>2, <2>3, <2>4, <2>6 DEF Contract!Deliver
  <2> QED BY <2>5, <2>6
<1>5. ASSUME NEW w \in Workers, RecordFailure(w)
      PROVE  (\E S \in SUBSET Events : Contract!Abandon(S)) \/ UNCHANGED Contract!vars
  <2> DEFINE S == {e \in batch[w] : outcome[e] = "waiting" /\ status'[e] = "failed"}
  <2>1. batch[w] \subseteq Events /\ applied' = applied /\ ledger' = ledger
    BY <1>5 DEF RecordFailure, TypeOK
  <2>2. \A e \in batch[w] : status[e] # "absent" /\ status'[e] \in {"pending", "failed"}
    BY <1>5, <2>1 DEF RecordFailure, FailureOutcome, AbsentIsUntouched
  <2>3. \A e \in Events : status[e] = "failed" => status'[e] = "failed"
    BY <1>5, MaxAttemptsAssumption
    DEF RecordFailure, FailureOutcome, TypeOK, FailedExhausted
  <2>4. \A e \in Events \ batch[w] : status'[e] = status[e]
    BY <1>5 DEF RecordFailure
  <2>5. \A e \in Events : Outcome(e)' = IF e \in S THEN "abandoned" ELSE Outcome(e)
    BY <2>1, <2>2, <2>3, <2>4 DEF Outcome, CompletedHasLedger
  <2>6. outcome' = [e \in Events |-> IF e \in S THEN "abandoned" ELSE outcome[e]]
    BY <2>5
  <2>7. CASE S = {}
    BY <2>1, <2>6, <2>7 DEF Contract!vars
  <2>8. CASE S # {}
    BY <2>1, <2>6, <2>8 DEF Contract!Abandon
  <2> QED BY <2>1, <2>7, <2>8
<1>6. CASE UNCHANGED vars
  BY <1>0, <1>6 DEF vars
<1>7. ASSUME NEW w \in Workers, CommitBatch(w) \/ LoseCommitAck(w)
      PROVE  Contract!Deliver(fresh[w]) \/ UNCHANGED Contract!vars
  BY <1>4, <1>7 DEF CommitBatch, LoseCommitAck
<1>8. \A w \in Workers : fresh[w] \in SUBSET Events
  BY DEF TypeOK
<1> QED
  BY <1>1, <1>2, <1>3, <1>5, <1>6, <1>7, <1>8 DEF Next, Work, Contract!Next

(* The worker protocol implements the delivery contract. *)
THEOREM OutboxImplementsDelivery == Spec => ImplementsDelivery
<1>1. Spec => []IInv
  BY Invariance
<1> QED
  BY <1>1, InitDelivery, StepDelivery, PTL DEF Spec, ImplementsDelivery, Contract!Spec

-----------------------------------------------------------------------------
(* The deployment of docker-compose.yml: one worker.  With no commit in      *)
(* doubt, the ledger and the status column agree and attempts stay within    *)
(* the budget.  Neither hypothesis can go: a second worker reopens completed *)
(* events (the run outbox_late_record), and so does the one worker that      *)
(* charges a batch whose commit it was not told of.                          *)

(* Between two batches the worker has none; while it has one, or has yet to  *)
(* record its failure, the batch is pending; and pending leaves an attempt.  *)
SoleInv(w) ==
  /\ pc[w] \in {"idle", "scanning", "down"} => batch[w] = {}
  /\ \A e \in batch[w] : status[e] = "pending"
  /\ LedgerIsCompleted
  /\ AttemptsWithinBudget
  /\ \A e \in Events : status[e] \in {"absent", "pending"} => attempts[e] < MaxAttempts

LEMMA SoleStep ==
  ASSUME NEW w, Workers = {w}, MaxLostAcks = 0,
         IInv, IInv', SoleInv(w), [Next]_vars
  PROVE  SoleInv(w)'
<1> USE DEF SoleInv, rows, workers, faults, LedgerIsCompleted, AttemptsWithinBudget
<1>1. TypeOK /\ TypeOK' /\ WorkerShape /\ CompletedHasLedger /\ AbsentIsUntouched /\ w \in Workers
  BY DEF IInv
<1>2. ASSUME NEW e \in Events, Enqueue(e) PROVE SoleInv(w)'
  BY <1>1, <1>2 DEF Enqueue, TypeOK, AbsentIsUntouched
<1>3. ASSUME NEW e \in Events, BecomeDue(e) PROVE SoleInv(w)'
  BY <1>3 DEF BecomeDue
<1>4. CASE BeginBatch(w)
  BY <1>1, <1>4 DEF BeginBatch, TypeOK
<1>5. CASE ScanRow(w)
  BY <1>1, <1>5 DEF ScanRow, TypeOK
<1>6. CASE EndScan(w)
  BY <1>1, <1>6 DEF EndScan, TypeOK, WorkerShape
<1>7. CASE GroupEvents(w)
  BY <1>1, <1>7 DEF GroupEvents, TypeOK
<1>8. CASE CommitBatch(w)
  <2>1. batch'[w] = {} /\ pc'[w] = "idle" /\ ledger' = ledger \cup batch[w]
    BY <1>1, <1>8 DEF CommitBatch, Complete, TypeOK
  <2>2. \A e \in Events : /\ e \in batch[w] => status'[e] = "completed"
                          /\ e \notin batch[w] => status'[e] = status[e]
    BY <1>8 DEF CommitBatch, Complete
  <2>3. \A e \in Events : attempts'[e] = IF e \in batch[w] THEN attempts[e] + 1 ELSE attempts[e]
    BY <1>8 DEF CommitBatch, Complete
  <2>4. \A e \in Events : attempts'[e] <= MaxAttempts
    BY <1>1, <2>3, MaxAttemptsAssumption DEF TypeOK
  <2> QED
    BY <1>1, <2>1, <2>2, <2>3, <2>4 DEF TypeOK
<1>9. CASE FailBatch(w)
  BY <1>1, <1>9 DEF FailBatch, TypeOK
<1>10. CASE RelockRow(w)
  BY <1>1, <1>10 DEF RelockRow, TypeOK
<1>11. CASE RecordFailure(w)
  <2>1. batch'[w] = {} /\ pc'[w] = "idle" /\ ledger' = ledger
    BY <1>1, <1>11 DEF RecordFailure, TypeOK
  <2>2. \A e \in Events : /\ attempts'[e] = IF e \in batch[w] THEN attempts[e] + 1 ELSE attempts[e]
                          /\ status'[e] = IF e \in batch[w] THEN FailureOutcome(attempts'[e])
                                          ELSE status[e]
    BY <1>11 DEF RecordFailure
  <2>3. \A e \in Events : /\ attempts'[e] <= MaxAttempts
                          /\ status'[e] \in {"absent", "pending"} => attempts'[e] < MaxAttempts
    BY <1>1, <2>2, MaxAttemptsAssumption DEF TypeOK, FailureOutcome
  <2>4. \A e \in ledger : e \in Events /\ e \notin batch[w]
    BY <1>1 DEF TypeOK
  <2> QED
    BY <2>1, <2>2, <2>3, <2>4
<1>12. CASE Crash(w) \/ DieOfDeadlock(w)
  BY <1>1, <1>12 DEF Crash, DieOfDeadlock, Stop, TypeOK
<1>13. ~LoseCommitAck(w)
  BY <1>1 DEF LoseCommitAck, TypeOK
<1>14. CASE Restart(w)
  BY <1>1, <1>14 DEF Restart, TypeOK
<1>15. CASE UNCHANGED vars
  BY <1>15 DEF vars
<1> QED
  BY <1>2, <1>3, <1>4, <1>5, <1>6, <1>7, <1>8, <1>9, <1>10, <1>11, <1>12, <1>13, <1>14,
     <1>15 DEF Next, Work

LEMMA SoleInvariance ==
  ASSUME NEW w, Workers = {w}, MaxLostAcks = 0
  PROVE  Spec => []SoleInv(w)
<1>1. Init => SoleInv(w)
  BY MaxAttemptsAssumption
     DEF Init, SoleInv, LedgerIsCompleted, AttemptsWithinBudget
<1>2. IInv /\ IInv' /\ SoleInv(w) /\ [Next]_vars => SoleInv(w)'
  BY SoleStep
<1> QED
  BY <1>1, <1>2, Invariance, PTL DEF Spec

(* With one worker and no lost acknowledgement a processed event is a        *)
(* completed one: processed_ledger_event_is_completed of the audit.          *)
THEOREM SoleWorkerLedger ==
  ASSUME NEW w, Workers = {w}, MaxLostAcks = 0
  PROVE  Spec => []LedgerIsCompleted
<1>1. SoleInv(w) => LedgerIsCompleted
  BY DEF SoleInv
<1> QED
  BY <1>1, SoleInvariance, PTL

(* ... and no event is charged more attempts than MAX_ATTEMPTS.              *)
THEOREM SoleWorkerAttempts ==
  ASSUME NEW w, Workers = {w}, MaxLostAcks = 0
  PROVE  Spec => []AttemptsWithinBudget
<1>1. SoleInv(w) => AttemptsWithinBudget
  BY DEF SoleInv
<1> QED
  BY <1>1, SoleInvariance, PTL
=============================================================================
