------------------------------- MODULE Outbox -------------------------------
(* The transactional outbox (services/outbox_service.py) and the worker that *)
(* drains it (services/worker_service.py, tools/worker/cli.py): claiming     *)
(* pending rows with FOR UPDATE SKIP LOCKED, skipping events the ledger      *)
(* already holds, completing a batch in one transaction, and recording the   *)
(* failure of a batch in a second transaction after the first rolled back.   *)
(* Operators named X_... are wrong variants of X, each a plausible slip in   *)
(* the code; they show that a property can fail and are used nowhere else.   *)
(*                                                                           *)
(* Only committed column values are kept in `status', `attempts' and `due':  *)
(* the "processing" status of process_batch is never committed, so a worker  *)
(* that holds a claim shows in `held' alone.                                 *)
EXTENDS Naturals, FiniteSets, Relation

CONSTANTS
  Workers,          \* worker processes
  Events,           \* outbox rows, numbered by (created_at, id)
  BatchLimit,       \* --batch-size
  MaxAttempts,      \* MAX_ATTEMPTS of worker_service.py (5 in the code)
  MaxCrashes,       \* bound on deaths of worker processes other than by deadlock
  MaxLostAcks       \* bound on commits whose acknowledgement is lost

ASSUME EventsAssumption == Events \subseteq Nat
ASSUME BatchLimitAssumption == BatchLimit \in Nat \ {0}
ASSUME MaxAttemptsAssumption == MaxAttempts \in Nat \ {0}
ASSUME FaultBudgetAssumption == MaxCrashes \in Nat /\ MaxLostAcks \in Nat

VARIABLES
  status,           \* outbox_events.status; "absent" before the insert commits
  attempts,         \* outbox_events.attempts
  due,              \* next_attempt_at has passed
  ledger,           \* the event ids in processed_outbox_events
  applied,          \* how many committed batches recalculated for the event
  pc,               \* where each worker is
  scan,             \* rows its claim query has yet to visit
  held,             \* rows it holds a FOR UPDATE lock on
  batch,            \* event_ids, kept by WorkerBatchError after the rollback
  fresh,            \* claimed events the ledger did not hold (city_drivers)
  crashes, lostAcks \* faults so far

rows    == <<status, attempts, due, ledger, applied>>
workers == <<pc, scan, held, batch, fresh>>
faults  == <<crashes, lostAcks>>
vars    == <<rows, workers, faults>>

Statuses == {"absent", "pending", "completed", "failed"}
Phases   == {"idle", "scanning", "claimed", "grouped", "failed", "down"}

TypeOK ==
  /\ status \in [Events -> Statuses]
  /\ attempts \in [Events -> Nat]
  /\ due \in [Events -> BOOLEAN]
  /\ ledger \in SUBSET Events
  /\ applied \in [Events -> Nat]
  /\ pc \in [Workers -> Phases]
  /\ scan \in [Workers -> SUBSET Events]
  /\ held \in [Workers -> SUBSET Events]
  /\ batch \in [Workers -> SUBSET Events]
  /\ fresh \in [Workers -> SUBSET Events]
  /\ crashes \in Nat /\ lostAcks \in Nat

Init ==
  /\ status = [e \in Events |-> "absent"]
  /\ attempts = [e \in Events |-> 0]
  /\ due = [e \in Events |-> FALSE]
  /\ ledger = {}
  /\ applied = [e \in Events |-> 0]
  /\ pc = [w \in Workers |-> "idle"]
  /\ scan = [w \in Workers |-> {}]
  /\ held = [w \in Workers |-> {}]
  /\ batch = [w \in Workers |-> {}]
  /\ fresh = [w \in Workers |-> {}]
  /\ crashes = 0 /\ lostAcks = 0

-----------------------------------------------------------------------------
(* Rows *)

FailureOutcome_Unclaimable(n) == IF n >= MaxAttempts THEN "failed" ELSE "processing"
FailureOutcome_OneEarly(n)    == IF n >= MaxAttempts - 1 THEN "failed" ELSE "pending"
FailureOutcome_OnlyEqual(n)   == IF n = MaxAttempts THEN "failed" ELSE "pending"
FailureOutcome_OneLate(n)     == IF n > MaxAttempts THEN "failed" ELSE "pending"

FailureOutcome(n) == IF n >= MaxAttempts THEN "failed" ELSE "pending"

Claimable_LastAttemptLost(e) ==
  status[e] = "pending" /\ due[e] /\ attempts[e] < MaxAttempts - 1

Claimable(e) == status[e] = "pending" /\ due[e]

LockedByOther_NotChecked(w, e) == FALSE

LockedByOther(w, e) == \E v \in Workers \ {w} : e \in held[v]

IsOldest(e, S) == e \in S /\ \A f \in S : e <= f

(* A review command commits with its event, due at once.  created_at is the  *)
(* start of that transaction, so events appear in any order.                 *)
Enqueue(e) ==
  /\ status[e] = "absent"
  /\ status' = [status EXCEPT ![e] = "pending"]
  /\ due' = [due EXCEPT ![e] = TRUE]
  /\ UNCHANGED <<attempts, ledger, applied, workers, faults>>

(* The retry delay of a rescheduled event passes. *)
BecomeDue(e) ==
  /\ status[e] = "pending" /\ ~due[e]
  /\ due' = [due EXCEPT ![e] = TRUE]
  /\ UNCHANGED <<status, attempts, ledger, applied, workers, faults>>

-----------------------------------------------------------------------------
(* process_batch *)

(* The claim query takes its snapshot: the rows it will visit, oldest first. *)
BeginBatch(w) ==
  /\ pc[w] = "idle"
  /\ pc' = [pc EXCEPT ![w] = "scanning"]
  /\ scan' = [scan EXCEPT ![w] = {e \in Events : Claimable(e)}]
  /\ UNCHANGED <<rows, held, batch, fresh, faults>>

ScanRow_NoRecheck(w) ==
  /\ pc[w] = "scanning" /\ Cardinality(held[w]) < BatchLimit
  /\ \E e \in scan[w] :
       /\ IsOldest(e, scan[w])
       /\ scan' = [scan EXCEPT ![w] = @ \ {e}]
       /\ held' = IF ~LockedByOther(w, e)
                  THEN [held EXCEPT ![w] = @ \cup {e}] ELSE held
  /\ UNCHANGED <<rows, pc, batch, fresh, faults>>

(* The query visits its next row: it is skipped if another transaction holds *)
(* it, and rechecked against the committed row before it is taken.           *)
ScanRow(w) ==
  /\ pc[w] = "scanning" /\ Cardinality(held[w]) < BatchLimit
  /\ \E e \in scan[w] :
       /\ IsOldest(e, scan[w])
       /\ scan' = [scan EXCEPT ![w] = @ \ {e}]
       /\ held' = IF ~LockedByOther(w, e) /\ Claimable(e)
                  THEN [held EXCEPT ![w] = @ \cup {e}] ELSE held
  /\ UNCHANGED <<rows, pc, batch, fresh, faults>>

(* The query returns.  With no event the worker goes back to its poll; with  *)
(* some it keeps their ids and counts the attempt inside its transaction.    *)
EndScan(w) ==
  /\ pc[w] = "scanning"
  /\ scan[w] = {} \/ Cardinality(held[w]) = BatchLimit
  /\ pc' = [pc EXCEPT ![w] = IF held[w] = {} THEN "idle" ELSE "claimed"]
  /\ scan' = [scan EXCEPT ![w] = {}]
  /\ batch' = [batch EXCEPT ![w] = held[w]]
  /\ UNCHANGED <<rows, held, fresh, faults>>

GroupEvents_IgnoreLedger(w) ==
  /\ pc[w] = "claimed"
  /\ pc' = [pc EXCEPT ![w] = "grouped"]
  /\ fresh' = [fresh EXCEPT ![w] = batch[w]]
  /\ UNCHANGED <<rows, scan, held, batch, faults>>

(* The drivers to recalculate are those of events without a ledger row. *)
GroupEvents(w) ==
  /\ pc[w] = "claimed"
  /\ pc' = [pc EXCEPT ![w] = "grouped"]
  /\ fresh' = [fresh EXCEPT ![w] = batch[w] \ ledger]
  /\ UNCHANGED <<rows, scan, held, batch, faults>>

Complete_NoLedgerRow(w) ==
  /\ status' = [e \in Events |-> IF e \in batch[w] THEN "completed" ELSE status[e]]
  /\ attempts' = [e \in Events |-> IF e \in batch[w] THEN attempts[e] + 1 ELSE attempts[e]]
  /\ applied' = [e \in Events |-> IF e \in fresh[w] THEN applied[e] + 1 ELSE applied[e]]
  /\ held' = [held EXCEPT ![w] = {}]
  /\ fresh' = [fresh EXCEPT ![w] = {}]
  /\ UNCHANGED <<due, ledger, scan, crashes>>

(* What the commit makes visible: the recalculation of the fresh events, the *)
(* ledger rows and the completion of the whole batch.                        *)
Complete(w) ==
  /\ status' = [e \in Events |-> IF e \in batch[w] THEN "completed" ELSE status[e]]
  /\ attempts' = [e \in Events |-> IF e \in batch[w] THEN attempts[e] + 1 ELSE attempts[e]]
  /\ ledger' = ledger \cup batch[w]
  /\ applied' = [e \in Events |-> IF e \in fresh[w] THEN applied[e] + 1 ELSE applied[e]]
  /\ held' = [held EXCEPT ![w] = {}]
  /\ fresh' = [fresh EXCEPT ![w] = {}]
  /\ UNCHANGED <<due, scan, crashes>>

CommitBatch_ThenFail(w) ==
  /\ pc[w] = "grouped"
  /\ Complete(w)
  /\ pc' = [pc EXCEPT ![w] = "failed"]
  /\ UNCHANGED <<batch, lostAcks>>

CommitBatch(w) ==
  /\ pc[w] = "grouped"
  /\ Complete(w)
  /\ pc' = [pc EXCEPT ![w] = "idle"]
  /\ batch' = [batch EXCEPT ![w] = {}]
  /\ UNCHANGED lostAcks

(* The commit takes effect but the connection is lost before the reply, so   *)
(* session.commit() raises and the batch is reported as failed.              *)
LoseCommitAck(w) ==
  /\ pc[w] = "grouped" /\ lostAcks < MaxLostAcks
  /\ Complete(w)
  /\ pc' = [pc EXCEPT ![w] = "failed"]
  /\ lostAcks' = lostAcks + 1
  /\ UNCHANGED batch

(* Recalculation, publication or the commit raises: the transaction rolls    *)
(* back, its locks go, and the event ids leave with WorkerBatchError.        *)
FailBatch(w) ==
  /\ pc[w] \in {"claimed", "grouped"}
  /\ pc' = [pc EXCEPT ![w] = "failed"]
  /\ held' = [held EXCEPT ![w] = {}]
  /\ fresh' = [fresh EXCEPT ![w] = {}]
  /\ UNCHANGED <<rows, scan, batch, faults>>

-----------------------------------------------------------------------------
(* record_batch_failure, in a session of its own *)

(* Its query locks the batch's rows one by one, in no stated order, and      *)
(* waits for each.                                                           *)
RelockRow(w) ==
  /\ pc[w] = "failed"
  /\ \E e \in batch[w] \ held[w] :
       /\ ~LockedByOther(w, e)
       /\ held' = [held EXCEPT ![w] = @ \cup {e}]
  /\ UNCHANGED <<rows, pc, scan, batch, fresh, faults>>

(* Every event of the batch is charged an attempt, whatever its status is by *)
(* now, and is rescheduled or given up.                                      *)
RecordFailure(w) ==
  /\ pc[w] = "failed" /\ held[w] = batch[w]
  /\ attempts' = [e \in Events |-> IF e \in batch[w] THEN attempts[e] + 1 ELSE attempts[e]]
  /\ status' = [e \in Events |-> IF e \in batch[w] THEN FailureOutcome(attempts'[e]) ELSE status[e]]
  /\ due' = [e \in Events |-> IF e \in batch[w] /\ attempts'[e] < MaxAttempts
                              THEN FALSE ELSE due[e]]
  /\ pc' = [pc EXCEPT ![w] = "idle"]
  /\ held' = [held EXCEPT ![w] = {}]
  /\ batch' = [batch EXCEPT ![w] = {}]
  /\ UNCHANGED <<ledger, applied, scan, fresh, faults>>

-----------------------------------------------------------------------------
(* The end of a worker process *)

(* Its transaction rolls back, its locks go, and a failure it had not        *)
(* recorded is forgotten.                                                    *)
Stop(w) ==
  /\ pc' = [pc EXCEPT ![w] = "down"]
  /\ scan' = [scan EXCEPT ![w] = {}]
  /\ held' = [held EXCEPT ![w] = {}]
  /\ batch' = [batch EXCEPT ![w] = {}]
  /\ fresh' = [fresh EXCEPT ![w] = {}]
  /\ UNCHANGED <<rows, lostAcks>>

(* The process is killed, leaves its loop on an error of the claim query, of *)
(* the failure record or of the cache refresh, or is a --drain that ends.    *)
Crash(w) ==
  /\ pc[w] # "down" /\ crashes < MaxCrashes
  /\ crashes' = crashes + 1
  /\ Stop(w)

(* Two recorders of overlapping batches each wait for a row of the other.    *)
WaitsFor(v, w) ==
  /\ pc[v] = "failed" /\ v # w
  /\ (batch[v] \ held[v]) \cap held[w] # {}

Deadlocked ==
  LET Waits == TransitiveClosure([u, v \in Workers |-> WaitsFor(u, v)], Workers)
  IN {w \in Workers : Waits[w, w]}

(* PostgreSQL ends one of them with an error, which nothing in the poll loop *)
(* catches: its process ends too.                                            *)
DieOfDeadlock(w) ==
  /\ w \in Deadlocked
  /\ Stop(w)
  /\ UNCHANGED crashes

(* Somebody starts tools.worker.cli again. *)
Restart(w) ==
  /\ pc[w] = "down"
  /\ pc' = [pc EXCEPT ![w] = "idle"]
  /\ UNCHANGED <<rows, scan, held, batch, fresh, faults>>

-----------------------------------------------------------------------------
Work(w) ==
  \/ BeginBatch(w) \/ ScanRow(w) \/ EndScan(w) \/ GroupEvents(w)
  \/ CommitBatch(w) \/ LoseCommitAck(w) \/ FailBatch(w)
  \/ RelockRow(w) \/ RecordFailure(w) \/ DieOfDeadlock(w)

Next ==
  \/ \E e \in Events : Enqueue(e) \/ BecomeDue(e)
  \/ \E w \in Workers : Work(w) \/ Crash(w) \/ Restart(w)

Spec == Init /\ [][Next]_vars

(* A running worker loops over --loop without end, PostgreSQL breaks every   *)
(* cycle of waits, and retry delays are finite.  Nothing promises that an    *)
(* event is written, that a worker dies, or that one that ended is started   *)
(* again: docker-compose.yml gives it no restart policy.                     *)
FairSpec ==
  /\ Spec
  /\ \A w \in Workers : WF_vars(Work(w))
  /\ \A e \in Events : WF_vars(BecomeDue(e))

-----------------------------------------------------------------------------
(* Properties *)

(* An event is recalculated by exactly one committed batch when the ledger   *)
(* has it, and by none otherwise: replaying a completed event that a late    *)
(* failure record reopened must not apply it again (worker_service.py:72-75).*)
AppliedOnce == \A e \in Events : applied[e] = (IF e \in ledger THEN 1 ELSE 0)

(* Two transactions never hold one row, so that two workers in process_batch *)
(* have disjoint batches however their claim queries interleave.             *)
ClaimsAreDisjoint ==
  \A v, w \in Workers : v # w => held[v] \cap held[w] = {}

(* What a worker found missing from the ledger is still missing when it      *)
(* commits, although it read the ledger long before.                         *)
FreshStaysFresh == \A w \in Workers : fresh[w] \cap ledger = {}

(* Completion and ledger rows commit together: a completed event is in the   *)
(* ledger (completed_outbox_event_has_ledger of tools/audit/checks.py:249).  *)
CompletedHasLedger == \A e \in Events : status[e] = "completed" => e \in ledger

(* An event is given up only after MaxAttempts attempts                      *)
(* (failed_outbox_event_exhausted_retries of tools/audit/checks.py:259).     *)
FailedExhausted == \A e \in Events : status[e] = "failed" => attempts[e] >= MaxAttempts

(* The converse audit check, processed_ledger_event_is_completed             *)
(* (tools/audit/checks.py:254): an event in the ledger is completed.         *)
LedgerIsCompleted == \A e \in ledger : status[e] = "completed"

(* No event is charged more attempts than MAX_ATTEMPTS allows. *)
AttemptsWithinBudget == \A e \in Events : attempts[e] <= MaxAttempts

(* A worker's claim never outlives the statuses it was taken on: the rows it *)
(* locked for processing are pending until it commits or rolls back.         *)
HeldIsPending ==
  \A w \in Workers : pc[w] \in {"scanning", "claimed", "grouped"} =>
    \A e \in held[w] : status[e] = "pending"

(* A terminal failure is final, even when a recorder that was still waiting  *)
(* for the row gets it later.                                                *)
FailedIsTerminal ==
  [][\A e \in Events : status[e] = "failed" => status'[e] = "failed"]_vars

(* What the outbox means for the abstract contract of Delivery: the ledger   *)
(* decides that an event was delivered, whatever its status column says.     *)
Outcome(e) == CASE e \in ledger -> "delivered"
                [] e \notin ledger /\ status[e] = "absent" -> "none"
                [] e \notin ledger /\ status[e] = "failed" -> "abandoned"
                [] OTHER -> "waiting"

Contract == INSTANCE Delivery
  WITH outcome <- [e \in Events |-> Outcome(e)], effects <- applied

(* The workers implement Delivery: an event is settled once and applied at   *)
(* most once, a batch all at a time.                                         *)
ImplementsDelivery == Contract!Spec

(* Every event is eventually settled, whatever batches, workers and failure  *)
(* records ended half-way, as long as the workers do not all end for good    *)
(* (architecture.md:198 "a worker outage cannot lose derived work").         *)
EventuallySettled ==
  (\E w \in Workers : []<>(pc[w] # "down")) =>
    \A e \in Events : status[e] = "pending" ~> status[e] \in {"completed", "failed"}
=============================================================================
