----------------------- MODULE ReviewTransactionsProofs -----------------------
(* Theorems about ReviewTransactions, for any clients, keys, trips, requests *)
(* and bounds.                                                               *)
EXTENDS ReviewTransactions, TLAPS

-----------------------------------------------------------------------------
(* The rows of one review, as functions of a set of rows *)

CurrentOf(V) == IF \E row \in V : row.current
                THEN CHOOSE row \in V : row.current ELSE NoRow

Sequential(V) ==
  /\ {row.version : row \in V} = 1..CurrentOf(V).version
  /\ \A row \in V : row.current <=> row.version = CurrentOf(V).version
  /\ \A r1, r2 \in V : r1.version = r2.version => r1 = r2

LastOf(D) ==
  IF D = {} THEN 0
  ELSE CHOOSE n \in {d.number : d \in D} : \A d \in D : d.number <= n

ActionOf(D, i) == IF i = 0 THEN "restore" ELSE (CHOOSE d \in D : d.number = i).action

Explained(D, excluded) ==
  /\ {d.number : d \in D} = 1..LastOf(D)
  /\ \A d, e \in D : d.number = e.number => d = e
  /\ \A d \in D : d.changed <=> d.action # ActionOf(D, d.number - 1)
  /\ excluded <=> ActionOf(D, LastOf(D)) = "exclude"

LEMMA CurrentOfType ==
  ASSUME NEW V \in SUBSET Versions
  PROVE  /\ CurrentOf(V) \in Versions \cup {NoRow}
         /\ CurrentOf(V) # NoRow => CurrentOf(V) \in V /\ CurrentOf(V).current
         /\ CurrentOf(V).version \in Nat /\ CurrentOf(V).rating \in Nat
         /\ CurrentOf(V).version = 0 <=> CurrentOf(V) = NoRow
BY DEF CurrentOf, Versions, NoRow

LEMMA OneCurrent ==
  ASSUME NEW V, NEW row \in V, row.current, \A r \in V : r.current => r = row
  PROVE  CurrentOf(V) = row
BY DEF CurrentOf

Retired(V, s) == {IF row = s THEN [row EXCEPT !.current = FALSE] ELSE row : row \in V}

(* A rewrite retires the current version and numbers the new one after it.   *)
LEMMA RewriteIsSequential ==
  ASSUME NEW V \in SUBSET Versions, Sequential(V), NEW s, s = CurrentOf(V),
         NEW next \in Versions, next.version = s.version + 1, next.current,
         NEW E, E = Retired(V, s) \cup {next}
  PROVE  /\ E \in SUBSET Versions
         /\ Sequential(E)
         /\ CurrentOf(E) = next
<1> DEFINE retired == Retired(V, s)
           Retire(row) == IF row = s THEN [row EXCEPT !.current = FALSE] ELSE row
<1>1. /\ s.version \in Nat
      /\ \A row \in V : row \in Versions /\ row.version \in 1..s.version
      /\ \A n \in 1..s.version : \E row \in V : row.version = n
      /\ s # NoRow => s \in V /\ s.current
      /\ \A row \in V : row.current => row.version = s.version
  <2>1. {row.version : row \in V} = 1..s.version
    BY DEF Sequential
  <2> QED
    BY <2>1, CurrentOfType DEF Sequential
<1>2. \A row \in V : row.current => row = s
  BY <1>1, CurrentOfType DEF Sequential
<1>3. \A row \in V : /\ Retire(row) \in Versions /\ ~Retire(row).current
                     /\ Retire(row).version = row.version
  BY <1>1, <1>2 DEF Versions
<1>4. retired = {Retire(row) : row \in V}
  BY DEF Retired
<1> HIDE DEF Retire, retired
<1>e. E = retired \cup {next}
  BY DEF retired
<1>5. CurrentOf(E) = next
  BY <1>3, <1>4, <1>e, OneCurrent
<1>6. {row.version : row \in E} = 1..next.version
  <2>1. \A n \in 1..next.version : \E row \in E : row.version = n
    <3> SUFFICES ASSUME NEW n \in 1..next.version, n # next.version
                 PROVE  \E row \in retired : row.version = n
      BY <1>e
    <3>1. n \in 1..s.version
      BY <1>1
    <3> QED
      BY <1>1, <1>3, <1>4, <3>1
  <2>2. \A row \in E : row.version \in 1..next.version
    BY <1>1, <1>3, <1>4, <1>e DEF Versions
  <2> DEFINE N == {row.version : row \in E}
  <2>3. N \subseteq 1..next.version /\ 1..next.version \subseteq N
    BY <2>1, <2>2
  <2> QED
    BY <2>3
<1>7. \A row \in retired : ~row.current /\ row.version # next.version
  BY <1>1, <1>3, <1>4
<1>8. \A r1, r2 \in E : r1.version = r2.version => r1 = r2
  <2>1. \A r1, r2 \in V : r1.version = r2.version => r1 = r2
    BY DEF Sequential
  <2> QED
    BY <1>3, <1>4, <1>7, <1>e, <2>1
<1>9. \A row \in E : row.current <=> row.version = next.version
  BY <1>3, <1>4, <1>7, <1>e
<1>10. E \in SUBSET Versions
  BY <1>3, <1>4, <1>e
<1> QED
  BY <1>5, <1>6, <1>8, <1>9, <1>10 DEF Sequential

LEMMA LastOfType ==
  ASSUME NEW D \in SUBSET Decisions, NEW n \in Nat, {d.number : d \in D} = 1..n
  PROVE  LastOf(D) = n
<1>1. CASE D = {}
  BY <1>1 DEF LastOf
<1>2. CASE D # {}
  <2>1. n \in {d.number : d \in D} /\ \A d \in D : d.number <= n
    BY <1>2
  <2>2. \A m \in {d.number : d \in D} : (\A d \in D : d.number <= m) => m = n
    BY <2>1
  <2> QED
    BY <1>2, <2>1, <2>2 DEF LastOf
<1> QED
  BY <1>1, <1>2

LEMMA OneDecision ==
  ASSUME NEW D, NEW d \in D, \A e \in D : e.number = d.number => e = d, d.number # 0
  PROVE  ActionOf(D, d.number) = d.action
BY DEF ActionOf

(* A decision numbered after the last one, and marked as a change exactly    *)
(* when it reverses the state, keeps the log an explanation of the state.    *)
LEMMA DecisionIsExplained ==
  ASSUME NEW D \in SUBSET Decisions, NEW excluded \in BOOLEAN,
         Explained(D, excluded), LastOf(D) \in Nat,
         NEW d \in Decisions, d.number = LastOf(D) + 1,
         d.changed <=> ~(excluded <=> d.action = "exclude"),
         NEW now, now = IF d.changed THEN d.action = "exclude" ELSE excluded,
         NEW E, E = D \cup {d}
  PROVE  Explained(E, now) /\ LastOf(E) = d.number
<1> DEFINE n == LastOf(D)
<1>1. /\ \A e \in D : e \in Decisions /\ e.number \in 1..n
      /\ \A i \in 1..n : \E e \in D : e.number = i
  BY DEF Explained
<1>2. \A e1, e2 \in E : e1.number = e2.number => e1 = e2
  <2>1. \A e1, e2 \in D : e1.number = e2.number => e1 = e2
    BY DEF Explained
  <2> QED
    BY <1>1, <2>1
<1>u. \A e1, e2 \in D : e1.number = e2.number => e1 = e2
  BY DEF Explained
<1>3. {e.number : e \in E} = 1..d.number
  BY <1>1
<1>4. LastOf(E) = d.number
  BY <1>3, LastOfType DEF Decisions
<1>5. \A i \in 0..n : ActionOf(E, i) = ActionOf(D, i)
  <2>1. ASSUME NEW i \in 1..n PROVE ActionOf(E, i) = ActionOf(D, i)
    <3>1. PICK e \in D : e.number = i
      BY <1>1
    <3>2. ActionOf(D, e.number) = e.action
      BY <1>u, <3>1, OneDecision
    <3>3. e \in E /\ e.number # 0 /\ \A e2 \in E : e2.number = e.number => e2 = e
      BY <1>2, <3>1
    <3>4. ActionOf(E, e.number) = e.action
      BY <3>3, OneDecision
    <3> QED
      BY <3>1, <3>2, <3>4
  <2>2. ActionOf(E, 0) = ActionOf(D, 0)
    BY DEF ActionOf
  <2>3. \A i \in 0..n : i = 0 \/ i \in 1..n
    OBVIOUS
  <2> QED
    BY <2>1, <2>2, <2>3
<1>6. ActionOf(E, d.number) = d.action
  BY <1>2, OneDecision DEF Decisions
<1>7. ActionOf(D, n) \in {"exclude", "restore"}
  <2>1. CASE n = 0
    BY <2>1 DEF ActionOf
  <2>2. CASE n # 0
    <3>1. PICK e \in D : e.number = n
      BY <1>1, <2>2
    <3>2. ActionOf(D, e.number) = e.action
      BY <1>u, <2>2, <3>1, OneDecision
    <3> QED
      BY <1>1, <3>1, <3>2 DEF Decisions
  <2> QED
    BY <2>1, <2>2
<1>8. \A e \in E : e.changed <=> e.action # ActionOf(E, e.number - 1)
  <2>1. ASSUME NEW e \in D PROVE e.changed <=> e.action # ActionOf(E, e.number - 1)
    <3>1. e.number - 1 \in 0..n
      BY <1>1
    <3> QED
      BY <1>5, <3>1 DEF Explained
  <2>2. d.changed <=> d.action # ActionOf(E, d.number - 1)
    <3>1. ActionOf(E, d.number - 1) = ActionOf(D, n)
      <4>1. d.number - 1 = n /\ n \in 0..n
        OBVIOUS
      <4> QED
        BY <1>5, <4>1
    <3>2. excluded <=> ActionOf(D, n) = "exclude"
      BY DEF Explained
    <3>3. d.action \in {"exclude", "restore"} /\ d.changed \in BOOLEAN
      BY DEF Decisions
    <3> QED
      BY <1>7, <3>1, <3>2, <3>3
  <2> QED
    BY <2>1, <2>2
<1>9. now <=> ActionOf(E, d.number) = "exclude"
  BY <1>6 DEF Decisions
<1> QED
  BY <1>2, <1>3, <1>4, <1>8, <1>9 DEF Explained

(* The same of the tables, now and after a step. *)
LEMMA RowsOfTables ==
  /\ \A t : CurrentRow(t) = CurrentOf(versions[t]) /\ LastNumber(t) = LastOf(decisions[t])
  /\ (\A t : CurrentRow(t) = CurrentOf(versions[t]) /\ LastNumber(t) = LastOf(decisions[t]))'
BY DEF CurrentRow, LastNumber, CurrentOf, LastOf

LEMMA SequentialTables ==
  /\ VersionsAreSequential <=>
       \A t \in Trips : /\ Sequential(versions[t])
                        /\ review[t].exists <=> CurrentOf(versions[t]).version > 0
  /\ VersionsAreSequential' <=>
       \A t \in Trips : /\ Sequential(versions'[t])
                        /\ review'[t].exists <=> CurrentOf(versions'[t]).version > 0
BY RowsOfTables DEF VersionsAreSequential, Sequential

LEMMA ExplainedTables ==
  /\ DecisionsExplainState <=> \A t \in Trips : Explained(decisions[t], review[t].excluded)
  /\ DecisionsExplainState' <=> \A t \in Trips : Explained(decisions'[t], review'[t].excluded)
BY RowsOfTables DEF DecisionsExplainState, Explained, ActionOf

-----------------------------------------------------------------------------
(* The inductive invariant *)

RiderRequest(c) == Op(c) \in {"upsert", "delete"}

(* Where a client is says what its request is about, which locks it holds    *)
(* and what it has found out.                                                *)
PlaceOfRequest(c) ==
  /\ pc[c] # "done" \/ reply[c].kind # "none" => job[c] \in Jobs
  /\ pc[c] \in {"trip", "read"} => RiderRequest(c)
  /\ pc[c] = "review" => Moderates(c)
  /\ pc[c] = "write" => Op(c) # "delete"

KeyHeld(c) == pc[c] \notin {"done", "begin"} => keyLock[Key(c)] = c

TripHeld(c) ==
  pc[c] \in {"read", "write"} /\ RiderRequest(c) =>
    T(c) \in Trips /\ Req(c).rider = "owner" /\ tripLock[T(c)] = c

ReviewHeld(c) ==
  pc[c] = "write" /\ Moderates(c) =>
    T(c) \in Trips /\ review[T(c)].exists /\ reviewLock[T(c)] = c

(* What a command read before is what it would read again as it commits:     *)
(* nothing another command does can make its decision a stale one.           *)
SeenIsCurrent(c) ==
  pc[c] = "write" =>
    /\ seen[c].review = review[T(c)]
    /\ RiderRequest(c) => seen[c].current = CurrentRow(T(c))

KeyUnused(c) == pc[c] \in {"trip", "review", "read", "write"} => stored[Key(c)] = None

ReplyIsDurable(c) ==
  reply[c].kind \in {"ok", "replay"} =>
    /\ stored[Key(c)] # None
    /\ stored[Key(c)] = [request |-> Req(c), body |-> reply[c].body]

ClientInv(c) ==
  /\ PlaceOfRequest(c) /\ KeyHeld(c) /\ TripHeld(c) /\ ReviewHeld(c)
  /\ SeenIsCurrent(c) /\ KeyUnused(c) /\ ReplyIsDurable(c)

TablesInv ==
  /\ \A t \in Trips : LastNumber(t) \in Nat
  /\ VersionsAreSequential
  /\ DecisionsExplainState

IInv == TypeOK /\ TablesInv /\ \A c \in Clients : ClientInv(c)

LEMMA InitIInv == Init => IInv
<1> SUFFICES ASSUME Init PROVE IInv
  OBVIOUS
<1> USE DEF Init
<1>1. TypeOK
  BY DEF TypeOK, Reviews, NoReview, Versions, Decisions, Holders, Phases, Unread, NoRow,
         NoReply, Replies
<1>2. ASSUME NEW c \in Clients PROVE ClientInv(c)
  BY DEF ClientInv, PlaceOfRequest, KeyHeld, TripHeld, ReviewHeld, SeenIsCurrent, KeyUnused,
         ReplyIsDurable, NoReply
<1>3. CurrentOf({}) = NoRow /\ LastOf({}) = 0
  BY DEF CurrentOf, LastOf
<1>4. Sequential({}) /\ Explained({}, FALSE)
  BY <1>3 DEF Sequential, Explained, ActionOf, NoRow
<1>5. TablesInv
  <2>1. \A t \in Trips : /\ versions[t] = {} /\ decisions[t] = {}
                         /\ ~review[t].exists /\ review[t].excluded = FALSE
    BY DEF NoReview
  <2>2. VersionsAreSequential
    BY <1>3, <1>4, <2>1, SequentialTables DEF NoRow
  <2>3. DecisionsExplainState
    BY <1>4, <2>1, ExplainedTables
  <2>4. \A t \in Trips : LastNumber(t) = 0
    BY <1>3, <2>1, RowsOfTables
  <2> QED
    BY <2>2, <2>3, <2>4 DEF TablesInv
<1> QED
  BY <1>1, <1>2, <1>5 DEF IInv

-----------------------------------------------------------------------------
(* What a step of one client leaves to the others *)

LEMMA TablesKept ==
  ASSUME TablesInv, UNCHANGED <<review, versions, decisions>>
  PROVE  TablesInv' /\ \A t : CurrentOf(versions'[t]) = CurrentOf(versions[t])
BY RowsOfTables, SequentialTables, ExplainedTables DEF TablesInv

(* d is none of the step's business: it keeps its place, what it knows and   *)
(* its locks.                                                                *)
Undisturbed(d) ==
  /\ pc'[d] = pc[d] /\ job'[d] = job[d] /\ seen'[d] = seen[d] /\ reply'[d] = reply[d]
  /\ \A k \in Keys : keyLock[k] = d => keyLock'[k] = d
  /\ \A t \in Trips : tripLock[t] = d => tripLock'[t] = d
  /\ \A t \in Trips : reviewLock[t] = d => reviewLock'[t] = d

(* Then its part of the invariant holds on, unless the step stores its key   *)
(* while it is at work with it or changes a row it has read.                 *)
LEMMA UndisturbedKeepsInv ==
  ASSUME NEW d \in Clients, ClientInv(d), Undisturbed(d),
         \A k \in Keys : stored[k] # None => stored'[k] = stored[k],
         pc[d] \in {"trip", "review", "read", "write"} => stored'[Key(d)] = stored[Key(d)],
         pc[d] = "write" => review'[T(d)] = review[T(d)],
         pc[d] = "write" /\ RiderRequest(d) =>
           CurrentOf(versions'[T(d)]) = CurrentOf(versions[T(d)])
  PROVE  ClientInv(d)'
<1> USE DEF ClientInv, Undisturbed
<1>1. job[d] \in Jobs => Key(d) \in Keys
  BY DEF Jobs, Key
<1>2. PlaceOfRequest(d)'
  BY DEF PlaceOfRequest, RiderRequest, Moderates, Op, Req
<1>3. KeyHeld(d)'
  BY <1>1 DEF KeyHeld, PlaceOfRequest, Key
<1>4. TripHeld(d)'
  BY DEF TripHeld, RiderRequest, T, Op, Req
<1>5. ReviewHeld(d)'
  BY DEF ReviewHeld, Moderates, T, Op, Req
<1>6. SeenIsCurrent(d)'
  <2>1. T(d)' = T(d) /\ (RiderRequest(d)' <=> RiderRequest(d))
    BY DEF T, Op, Req, RiderRequest
  <2>2. pc[d] = "write" /\ RiderRequest(d) => CurrentRow(T(d))' = CurrentRow(T(d))
    BY <2>1, RowsOfTables
  <2> QED
    BY <2>1, <2>2 DEF SeenIsCurrent
<1>7. KeyUnused(d)'
  BY DEF KeyUnused, Key
<1>8. ReplyIsDurable(d)'
  BY <1>1 DEF ReplyIsDurable, PlaceOfRequest, Key, Req
<1> QED
  BY <1>2, <1>3, <1>4, <1>5, <1>6, <1>7, <1>8

(* A step that leaves the tables alone keeps the invariant if it keeps the   *)
(* part of the client that takes it.                                         *)
LEMMA QuietStepKeepsIInv ==
  ASSUME IInv, TypeOK', NEW c \in Clients, UNCHANGED tables, ClientInv(c)',
         \A d \in Clients \ {c} : Undisturbed(d)
  PROVE  IInv'
<1>1. TablesInv' /\ \A t : CurrentOf(versions'[t]) = CurrentOf(versions[t])
  BY TablesKept DEF IInv, tables
<1>2. ASSUME NEW d \in Clients \ {c} PROVE ClientInv(d)'
  <2>1. ClientInv(d) /\ Undisturbed(d) /\ stored' = stored /\ review' = review
    BY DEF IInv, tables
  <2> QED
    BY <1>1, <2>1, UndisturbedKeepsInv
<1> QED
  BY <1>1, <1>2 DEF IInv

LEMMA FinishedClient ==
  ASSUME TypeOK, NEW c \in Clients, NEW kind \in Replies, NEW body \in Bodies \cup {None},
         Finish(c, kind, body)
  PROVE  /\ keyLock' \in [Keys -> Holders]
         /\ tripLock' \in [Trips -> Holders] /\ reviewLock' \in [Trips -> Holders]
         /\ pc' \in [Clients -> Phases]
         /\ job' \in [Clients -> Jobs \cup {None}]
         /\ seen' \in [Clients -> [review : Reviews, current : Versions \cup {NoRow}]]
         /\ reply' \in [Clients -> [kind : Replies, body : Bodies \cup {None}]]
         /\ pc'[c] = "done" /\ job'[c] = job[c] /\ reply'[c] = [kind |-> kind, body |-> body]
         /\ \A d \in Clients \ {c} : Undisturbed(d)
<1>1. /\ keyLock' \in [Keys -> Holders]
      /\ tripLock' \in [Trips -> Holders] /\ reviewLock' \in [Trips -> Holders]
  BY DEF Finish, ReleaseLocks, TypeOK, Holders
<1>2. /\ pc' \in [Clients -> Phases] /\ job' = job
      /\ seen' \in [Clients -> [review : Reviews, current : Versions \cup {NoRow}]]
      /\ reply' \in [Clients -> [kind : Replies, body : Bodies \cup {None}]]
      /\ pc'[c] = "done" /\ reply'[c] = [kind |-> kind, body |-> body]
  BY DEF Finish, TypeOK, Phases, Unread, NoReview, Reviews
<1>3. ASSUME NEW d \in Clients \ {c} PROVE Undisturbed(d)
  BY <1>3 DEF Undisturbed, Finish, ReleaseLocks, TypeOK
<1> QED
  BY <1>1, <1>2, <1>3 DEF TypeOK

LEMMA FinishKeepsIInv ==
  ASSUME IInv, NEW c \in Clients, pc[c] # "done",
         NEW kind \in Replies \ {"ok"}, NEW body \in Bodies \cup {None},
         Finish(c, kind, body), UNCHANGED tables, aborts' \in Nat,
         kind = "replay" => stored[Key(c)] = [request |-> Req(c), body |-> body]
                              /\ stored[Key(c)] # None
  PROVE  IInv'
<1>1. TypeOK'
  BY FinishedClient DEF IInv, TypeOK, tables
<1>2. ClientInv(c)'
  <2>1. /\ pc'[c] = "done" /\ job'[c] = job[c] /\ stored' = stored
        /\ reply'[c] = [kind |-> kind, body |-> body]
    BY FinishedClient DEF IInv, tables
  <2>2. PlaceOfRequest(c)
    BY DEF IInv, ClientInv
  <2> QED
    BY <2>1, <2>2 DEF ClientInv, PlaceOfRequest, KeyHeld, TripHeld, ReviewHeld, SeenIsCurrent,
                      KeyUnused, ReplyIsDurable, Key, Req
<1> QED
  BY <1>1, <1>2, FinishedClient, QuietStepKeepsIInv DEF IInv

LEMMA AnswerKeepsIInv ==
  ASSUME IInv, NEW c \in Clients
  PROVE  /\ Replay(c) => IInv'
         /\ Conflict(c) \/ RejectTrip(c) \/ RejectDelete(c) \/ RejectModeration(c)
              \/ DeadlockVictim(c) \/ Fail(c) => IInv'
<1>1. ASSUME NEW kind \in Replies \ {"ok", "replay"}, pc[c] # "done",
             Finish(c, kind, None), UNCHANGED tables, aborts' \in Nat
      PROVE  IInv'
  BY <1>1, FinishKeepsIInv
<1>2. aborts \in Nat /\ aborts + 1 \in Nat
  BY DEF IInv, TypeOK
<1>3. CASE Replay(c)
  <2>1. stored[Key(c)] \in Stored
    BY <1>3 DEF IInv, TypeOK, Replay, ClientInv, PlaceOfRequest, Key, Jobs
  <2> QED
    BY <1>2, <1>3, <2>1, FinishKeepsIInv DEF Replay, Answer, Stored, Replies
<1>4. CASE Conflict(c)
  BY <1>1, <1>2, <1>4 DEF Conflict, Answer, Replies
<1>5. CASE RejectTrip(c)
  BY <1>1, <1>2, <1>5 DEF RejectTrip, Answer, Replies
<1>6. CASE RejectDelete(c)
  BY <1>1, <1>2, <1>6 DEF RejectDelete, Answer, Replies
<1>7. CASE RejectModeration(c)
  BY <1>1, <1>2, <1>7 DEF RejectModeration, Answer, Replies
<1>8. CASE DeadlockVictim(c)
  BY <1>1, <1>2, <1>8
     DEF DeadlockVictim, Deadlocked, WaitsForReview, WaitsForTrip, Answer, Replies
<1>9. CASE Fail(c)
  BY <1>1, <1>2, <1>9 DEF Fail, Replies
<1> QED
  BY <1>3, <1>4, <1>5, <1>6, <1>7, <1>8, <1>9

LEMMA SubmitKeepsIInv ==
  ASSUME IInv, NEW c \in Clients, NEW k \in Keys, NEW r \in Requests, Submit(c, k, r)
  PROVE  IInv'
<1>1. TypeOK'
  BY DEF IInv, TypeOK, Submit, tables, locks, Phases, Jobs, NoReply, Replies
<1>2. \A d \in Clients \ {c} : Undisturbed(d)
  BY DEF IInv, TypeOK, Submit, tables, locks, Undisturbed
<1>3. pc'[c] = "begin" /\ job'[c] \in Jobs /\ reply'[c].kind = "none"
  BY DEF IInv, TypeOK, Submit, Jobs, NoReply
<1>4. ClientInv(c)'
  BY <1>3 DEF ClientInv, PlaceOfRequest, KeyHeld, TripHeld, ReviewHeld, SeenIsCurrent,
              KeyUnused, ReplyIsDurable
<1> QED
  BY <1>1, <1>2, <1>4, QuietStepKeepsIInv DEF Submit

LEMMA LockKeyKeepsIInv ==
  ASSUME IInv, NEW c \in Clients, LockKey(c)
  PROVE  IInv'
<1>1. job[c] \in Jobs /\ Key(c) \in Keys
  BY DEF IInv, ClientInv, PlaceOfRequest, LockKey, Key, Jobs
<1>2. TypeOK'
  BY DEF IInv, TypeOK, LockKey, tables, Phases, Holders
<1>3. \A d \in Clients \ {c} : Undisturbed(d)
  BY NoneAssumption DEF IInv, TypeOK, LockKey, tables, Undisturbed
<1>4. /\ pc'[c] = "lookup" /\ keyLock'[Key(c)] = c
      /\ job' = job /\ reply' = reply /\ stored' = stored
  BY <1>1 DEF IInv, TypeOK, LockKey, tables
<1>5. ClientInv(c)'
  BY <1>1, <1>4 DEF IInv, ClientInv, PlaceOfRequest, KeyHeld, TripHeld, ReviewHeld,
                    SeenIsCurrent, KeyUnused, ReplyIsDurable, Key, Req
<1> QED
  BY <1>2, <1>3, <1>5, QuietStepKeepsIInv DEF LockKey

LEMMA LookupKeepsIInv ==
  ASSUME IInv, NEW c \in Clients, Lookup(c)
  PROVE  IInv'
<1>1. job[c] \in Jobs /\ keyLock[Key(c)] = c /\ stored[Key(c)] = None
  BY DEF IInv, ClientInv, PlaceOfRequest, KeyHeld, Lookup
<1>2. Op(c) \in Ops
  BY <1>1, RequestsAssumption DEF Jobs, Op, Req
<1>3. TypeOK'
  BY DEF IInv, TypeOK, Lookup, tables, locks, Phases
<1>4. \A d \in Clients \ {c} : Undisturbed(d)
  BY DEF IInv, TypeOK, Lookup, tables, locks, Undisturbed
<1>5. /\ pc'[c] = IF RiderRequest(c) THEN "trip" ELSE "review"
      /\ job' = job /\ reply' = reply /\ stored' = stored /\ keyLock' = keyLock
  BY DEF IInv, TypeOK, Lookup, tables, locks, RiderRequest
<1>6. pc'[c] = "review" => Moderates(c)
  BY <1>2, <1>5 DEF Ops, RiderRequest, Moderates
<1>7. pc'[c] \in {"trip", "review"} /\ (pc'[c] = "trip" => RiderRequest(c))
  BY <1>5
<1>8. ClientInv(c)'
  BY <1>1, <1>5, <1>6, <1>7
     DEF IInv, ClientInv, PlaceOfRequest, KeyHeld, TripHeld, ReviewHeld, SeenIsCurrent,
         KeyUnused, ReplyIsDurable, Key, Req, Op, RiderRequest, Moderates
<1> QED
  BY <1>3, <1>4, <1>8, QuietStepKeepsIInv DEF Lookup

LEMMA LockTripKeepsIInv ==
  ASSUME IInv, NEW c \in Clients, LockTrip(c)
  PROVE  IInv'
<1>1. TypeOK'
  BY DEF IInv, TypeOK, LockTrip, tables, Phases, Holders
<1>2. \A d \in Clients \ {c} : Undisturbed(d)
  BY NoneAssumption DEF IInv, TypeOK, LockTrip, tables, Undisturbed
<1>3. /\ pc[c] = "trip" /\ pc'[c] = "read"
      /\ T(c) \in Trips /\ tripLock'[T(c)] = c /\ Req(c).rider = "owner"
      /\ job' = job /\ reply' = reply /\ stored' = stored /\ keyLock' = keyLock
  BY DEF IInv, TypeOK, LockTrip, tables
<1>4. ClientInv(c)'
  BY <1>3 DEF IInv, ClientInv, PlaceOfRequest, KeyHeld, TripHeld, ReviewHeld, SeenIsCurrent,
              KeyUnused, ReplyIsDurable, Key, Req, T, Op, RiderRequest, Moderates
<1> QED
  BY <1>1, <1>2, <1>4, QuietStepKeepsIInv DEF LockTrip

LEMMA ReadReviewKeepsIInv ==
  ASSUME IInv, NEW c \in Clients, ReadReview(c)
  PROVE  IInv'
<1>1. /\ pc[c] = "read" /\ Op(c) = "upsert" /\ RiderRequest(c) /\ ~Moderates(c)
      /\ T(c) \in Trips /\ tripLock[T(c)] = c /\ Req(c).rider = "owner"
      /\ job[c] \in Jobs /\ keyLock[Key(c)] = c /\ stored[Key(c)] = None
  BY DEF IInv, ClientInv, PlaceOfRequest, KeyHeld, TripHeld, KeyUnused, ReadReview,
         RiderRequest, Moderates
<1>2. review[T(c)] \in Reviews /\ CurrentRow(T(c)) \in Versions \cup {NoRow}
  BY <1>1, RowsOfTables, CurrentOfType DEF IInv, TypeOK
<1>3. TypeOK'
  BY <1>2 DEF IInv, TypeOK, ReadReview, tables, locks, Phases
<1>4. \A d \in Clients \ {c} : Undisturbed(d)
  BY DEF IInv, TypeOK, ReadReview, tables, locks, Undisturbed
<1>5. /\ pc'[c] = "write" /\ seen'[c].review = review[T(c)]
      /\ seen'[c].current = CurrentRow(T(c))
      /\ UNCHANGED <<review, versions, decisions, stored, keyLock, tripLock, job, reply>>
  BY DEF IInv, TypeOK, ReadReview, tables, locks
<1>6. T(c)' = T(c) /\ Key(c)' = Key(c) /\ Req(c)' = Req(c) /\ Op(c)' = Op(c)
  BY <1>5 DEF T, Key, Req, Op
<1>7. (RiderRequest(c) /\ ~Moderates(c))'
  BY <1>1, <1>6 DEF RiderRequest, Moderates
<1>8. CurrentRow(T(c))' = CurrentRow(T(c))
  BY <1>5, <1>6, RowsOfTables
<1>9. ClientInv(c)'
  BY <1>1, <1>5, <1>6, <1>7, <1>8
     DEF IInv, ClientInv, PlaceOfRequest, KeyHeld, TripHeld, ReviewHeld, SeenIsCurrent,
         KeyUnused, ReplyIsDurable
<1> QED
  BY <1>3, <1>4, <1>9, QuietStepKeepsIInv DEF ReadReview

LEMMA LockReviewKeepsIInv ==
  ASSUME IInv, NEW c \in Clients, LockReview(c)
  PROVE  IInv'
<1>1. /\ pc[c] = "review" /\ Moderates(c) /\ ~RiderRequest(c) /\ Op(c) # "delete"
      /\ T(c) \in Trips /\ review[T(c)].exists
      /\ job[c] \in Jobs /\ keyLock[Key(c)] = c /\ stored[Key(c)] = None
  BY DEF IInv, ClientInv, PlaceOfRequest, KeyHeld, KeyUnused, LockReview, RiderRequest,
         Moderates
<1>2. review[T(c)] \in Reviews
  BY <1>1 DEF IInv, TypeOK
<1>3. TypeOK'
  BY <1>2 DEF IInv, TypeOK, LockReview, tables, Phases, Holders
<1>4. \A d \in Clients \ {c} : Undisturbed(d)
  BY NoneAssumption DEF IInv, TypeOK, LockReview, tables, Undisturbed
<1>5. /\ pc'[c] = "write" /\ seen'[c].review = review[T(c)] /\ reviewLock'[T(c)] = c
      /\ UNCHANGED <<review, stored, keyLock, tripLock, job, reply>>
  BY <1>1 DEF IInv, TypeOK, LockReview, tables
<1>6. T(c)' = T(c) /\ Key(c)' = Key(c) /\ Req(c)' = Req(c) /\ Op(c)' = Op(c)
  BY <1>5 DEF T, Key, Req, Op
<1>7. (Moderates(c) /\ ~RiderRequest(c))'
  BY <1>1, <1>6 DEF RiderRequest, Moderates
<1>8. ClientInv(c)'
  BY <1>1, <1>5, <1>6, <1>7
     DEF IInv, ClientInv, PlaceOfRequest, KeyHeld, TripHeld, ReviewHeld, SeenIsCurrent,
         KeyUnused, ReplyIsDurable
<1> QED
  BY <1>3, <1>4, <1>8, QuietStepKeepsIInv DEF LockReview

-----------------------------------------------------------------------------
(* What a commit does, written with what is in the tables instead of what    *)
(* the client has seen.                                                      *)

Weight(rv, row) == IF rv.exists /\ ~rv.deleted /\ ~rv.excluded THEN row.rating ELSE 0

LEMMA ContributionIsWeight ==
  /\ \A t : Contribution(t) = Weight(review[t], CurrentOf(versions[t]))
  /\ \A t : Contribution(t)' = Weight(review'[t], CurrentOf(versions'[t]))
BY RowsOfTables DEF Contribution, Weight

LEMMA WorkingClient ==
  ASSUME IInv, NEW c \in Clients, pc[c] \in {"read", "write"}
  PROVE  /\ job[c] \in Jobs /\ Key(c) \in Keys /\ Req(c) \in Requests
         /\ Op(c) \in Ops /\ Req(c).rating \in Nat
         /\ Op(c) = "upsert" => Req(c).rating > 0
         /\ keyLock[Key(c)] = c /\ stored[Key(c)] = None
         /\ T(c) \in Trips
         /\ RiderRequest(c) => Req(c).rider = "owner" /\ tripLock[T(c)] = c
         /\ ~RiderRequest(c) => review[T(c)].exists /\ reviewLock[T(c)] = c
<1>1. job[c] \in Jobs /\ keyLock[Key(c)] = c /\ stored[Key(c)] = None
  BY DEF IInv, ClientInv, PlaceOfRequest, KeyHeld, KeyUnused
<1>2. Key(c) \in Keys /\ Req(c) \in Requests
  BY <1>1 DEF Jobs, Key, Req
<1>3. Op(c) \in Ops /\ Req(c).rating \in Nat /\ (Op(c) = "upsert" => Req(c).rating > 0)
  BY <1>2, RequestsAssumption DEF Op
<1>4. RiderRequest(c) => T(c) \in Trips /\ Req(c).rider = "owner" /\ tripLock[T(c)] = c
  BY DEF IInv, ClientInv, TripHeld
<1>5. ~RiderRequest(c) => pc[c] = "write" /\ Moderates(c)
  BY <1>3 DEF IInv, ClientInv, PlaceOfRequest, RiderRequest, Moderates, Ops
<1>6. ~RiderRequest(c) => T(c) \in Trips /\ review[T(c)].exists /\ reviewLock[T(c)] = c
  BY <1>5 DEF IInv, ClientInv, ReviewHeld
<1> QED
  BY <1>1, <1>2, <1>3, <1>4, <1>6

LEMMA RowTypes ==
  ASSUME IInv, NEW t \in Trips
  PROVE  /\ review[t] \in Reviews /\ versions[t] \in SUBSET Versions
         /\ decisions[t] \in SUBSET Decisions /\ events[t] \in Nat
         /\ CurrentOf(versions[t]) \in Versions \cup {NoRow}
         /\ CurrentOf(versions[t]).version \in Nat /\ CurrentOf(versions[t]).rating \in Nat
         /\ CurrentOf(versions[t]).version = 0 <=> CurrentOf(versions[t]) = NoRow
         /\ Sequential(versions[t])
         /\ review[t].exists <=> CurrentOf(versions[t]).version > 0
         /\ LastOf(decisions[t]) \in Nat
         /\ Explained(decisions[t], review[t].excluded)
<1>1. /\ review[t] \in Reviews /\ versions[t] \in SUBSET Versions
      /\ decisions[t] \in SUBSET Decisions /\ events[t] \in Nat
  BY DEF IInv, TypeOK
<1>2. LastOf(decisions[t]) \in Nat
  BY RowsOfTables DEF IInv, TablesInv
<1>3. Explained(decisions[t], review[t].excluded)
  BY ExplainedTables DEF IInv, TablesInv
<1>4. /\ Sequential(versions[t])
      /\ review[t].exists <=> CurrentOf(versions[t]).version > 0
  BY SequentialTables DEF IInv, TablesInv
<1> QED
  BY <1>1, <1>2, <1>3, <1>4, CurrentOfType

(* An upsert writes what one atomic rewrite of the review would.             *)
LEMMA UpsertEffect ==
  ASSUME IInv, NEW c \in Clients, CommitUpsert(c), NEW t, t = T(c),
         NEW now, now = CurrentOf(versions[t]), NEW then, then = CurrentOf(versions'[t]),
         NEW n, n = Req(c).rating
  PROVE  /\ review'[t] = [exists |-> TRUE, deleted |-> FALSE, excluded |-> review[t].excluded]
         /\ versions'[t] \in SUBSET Versions /\ Sequential(versions'[t])
         /\ then.rating = n /\ then.version \in Nat \ {0}
         /\ then.version = IF now.rating = n THEN now.version ELSE now.version + 1
         /\ events'[t] = IF Weight(review'[t], then) # Weight(review[t], now)
                         THEN events[t] + 1 ELSE events[t]
         /\ \E body \in Bodies : Record(c, body)
<1> DEFINE s == seen[c]
           changed == RatingChanged(s, n)
           next == [version |-> NextVersion(s), rating |-> n, current |-> TRUE]
<1>1. /\ t \in Trips /\ n \in Nat \ {0} /\ RiderRequest(c)
      /\ pc[c] = "write" /\ s.review = review[t] /\ s.current = now
  <2>1. pc[c] = "write" /\ RiderRequest(c) /\ Op(c) = "upsert"
    BY DEF CommitUpsert, RiderRequest
  <2>2. SeenIsCurrent(c)
    BY DEF IInv, ClientInv
  <2> QED
    BY <2>1, <2>2, WorkingClient, RowsOfTables DEF SeenIsCurrent
<1>2. /\ review[t] \in Reviews /\ versions[t] \in SUBSET Versions /\ events[t] \in Nat
      /\ now \in Versions \cup {NoRow} /\ now.version \in Nat /\ now.rating \in Nat
      /\ now.version = 0 <=> now = NoRow
      /\ Sequential(versions[t]) /\ (review[t].exists <=> now.version > 0)
  BY <1>1, RowTypes
<1>3. changed <=> now.rating # n
  BY <1>1, <1>2 DEF RatingChanged, NoRow
<1>4. next \in Versions /\ next.version = now.version + 1 /\ next.current /\ next.rating = n
  BY <1>1, <1>2 DEF NextVersion, Versions
<1>5. review'[t] = [exists |-> TRUE, deleted |-> FALSE, excluded |-> review[t].excluded]
  BY <1>1, <1>2 DEF CommitUpsert, IInv, TypeOK, Reviews
<1>6. versions'[t] = IF changed THEN Retired(versions[t], now) \cup {next} ELSE versions[t]
  BY <1>1 DEF CommitUpsert, IInv, TypeOK, Retired
<1>7. events'[t] = IF UpsertChangesContribution(s, n) THEN events[t] + 1 ELSE events[t]
  BY <1>1 DEF CommitUpsert, IInv, TypeOK
<1>8. /\ versions'[t] \in SUBSET Versions /\ Sequential(versions'[t])
      /\ then.rating = n /\ then.version \in Nat \ {0}
      /\ then.version = IF now.rating = n THEN now.version ELSE now.version + 1
  <2>1. CASE changed
    <3>1. versions'[t] = Retired(versions[t], now) \cup {next}
      BY <1>6, <2>1
    <3> HIDE DEF next
    <3>3. /\ versions'[t] \in SUBSET Versions /\ Sequential(versions'[t]) /\ then = next
      BY <1>2, <1>4, <3>1, RewriteIsSequential
    <3> QED
      BY <1>2, <1>3, <1>4, <2>1, <3>3
  <2>2. CASE ~changed
    <3>1. versions'[t] = versions[t]
      BY <1>6, <2>2
    <3>2. now # NoRow
      BY <1>1, <2>2 DEF RatingChanged
    <3> QED
      BY <1>2, <1>3, <2>2, <3>1, <3>2
  <2> QED
    BY <2>1, <2>2
<1>9. UpsertChangesContribution(s, n) <=> Weight(review'[t], then) # Weight(review[t], now)
  BY <1>1, <1>2, <1>3, <1>5, <1>8
     DEF UpsertChangesContribution, Weight, Reviews, NoRow
<1>10. \E body \in Bodies : Record(c, body)
  <2>1. Record(c, [version |-> IF changed THEN next.version ELSE s.current.version,
                   rating |-> n, created |-> ~s.review.exists])
    BY DEF CommitUpsert
  <2>2. (IF changed THEN next.version ELSE s.current.version) \in Nat \ {0}
    BY <1>1, <1>2, <1>4 DEF RatingChanged
  <2>3. s.review.exists \in BOOLEAN
    BY <1>1, <1>2 DEF Reviews
  <2>4. [version |-> IF changed THEN next.version ELSE s.current.version,
         rating |-> n, created |-> ~s.review.exists] \in Bodies
    BY <1>1, <2>2, <2>3 DEF Bodies
  <2> QED
    BY <2>1, <2>4
<1> QED
  BY <1>5, <1>7, <1>8, <1>9, <1>10

(* So does a deletion, ...                                                   *)
LEMMA DeleteEffect ==
  ASSUME IInv, NEW c \in Clients, CommitDelete(c), NEW t, t = T(c),
         NEW now, now = CurrentOf(versions[t])
  PROVE  /\ now.version > 0
         /\ review'[t] = [review[t] EXCEPT !.deleted = TRUE]
         /\ events'[t] = IF Weight(review'[t], now) # Weight(review[t], now)
                         THEN events[t] + 1 ELSE events[t]
         /\ \E body \in Bodies : Record(c, body)
<1>1. t \in Trips
  BY WorkingClient DEF CommitDelete
<1>2. /\ review[t] \in Reviews /\ events[t] \in Nat /\ review[t].exists
      /\ now \in Versions \cup {NoRow} /\ now.version > 0 /\ now # NoRow
  BY <1>1, RowTypes DEF CommitDelete
<1>3. /\ review'[t] = [review[t] EXCEPT !.deleted = TRUE]
      /\ events'[t] = IF ~review[t].deleted /\ ~review[t].excluded
                      THEN events[t] + 1 ELSE events[t]
  BY <1>1 DEF CommitDelete, IInv, TypeOK
<1>4. Weight(review'[t], now) # Weight(review[t], now) <=>
        ~review[t].deleted /\ ~review[t].excluded
  BY <1>2, <1>3 DEF Weight, Reviews, Versions
<1>5. \E body \in Bodies : Record(c, body)
  <2>1. Record(c, [changed |-> ~review[T(c)].deleted])
    BY DEF CommitDelete
  <2>2. [changed |-> ~review[T(c)].deleted] \in Bodies
    BY DEF Bodies
  <2> QED
    BY <2>1, <2>2
<1> QED
  BY <1>2, <1>3, <1>4, <1>5

(* ... and a decision of a moderator.                                        *)
LEMMA ModerationEffect ==
  ASSUME IInv, NEW c \in Clients, CommitModeration(c), NEW t, t = T(c),
         NEW now, now = CurrentOf(versions[t])
  PROVE  /\ now.version > 0
         /\ review'[t] = [review[t] EXCEPT !.excluded = (Op(c) = "exclude")]
         /\ decisions'[t] \in SUBSET Decisions
         /\ Explained(decisions'[t], review'[t].excluded)
         /\ LastOf(decisions'[t]) = LastOf(decisions[t]) + 1
         /\ events'[t] = IF Weight(review'[t], now) # Weight(review[t], now)
                         THEN events[t] + 1 ELSE events[t]
         /\ \E body \in Bodies : Record(c, body)
<1> DEFINE changed == DecisionChangesState(review[t].excluded, Op(c))
           n == LastOf(decisions[t])
           d == [number |-> n + 1, action |-> Op(c), changed |-> changed]
<1>1. /\ pc[c] = "write" /\ Op(c) \in {"exclude", "restore"} /\ ~RiderRequest(c)
      /\ seen[c].review = review[t]
  <2>1. pc[c] = "write" /\ Op(c) \in {"exclude", "restore"}
    BY DEF CommitModeration, Moderates
  <2>2. SeenIsCurrent(c)
    BY DEF IInv, ClientInv
  <2> QED
    BY <2>1, <2>2 DEF SeenIsCurrent, RiderRequest
<1>2. t \in Trips /\ review[t].exists
  BY <1>1, WorkingClient
<1>3. /\ review[t] \in Reviews /\ events[t] \in Nat
      /\ decisions[t] \in SUBSET Decisions /\ n \in Nat
      /\ now \in Versions \cup {NoRow} /\ now.version > 0 /\ now # NoRow
      /\ Explained(decisions[t], review[t].excluded)
  BY <1>2, RowTypes
<1>4. /\ decisions'[t] = decisions[t] \cup {d}
      /\ review'[t] = [review[t] EXCEPT !.excluded = IF changed THEN Op(c) = "exclude" ELSE @]
      /\ events'[t] = IF changed /\ ~review[t].deleted THEN events[t] + 1 ELSE events[t]
      /\ Record(c, [number |-> n + 1, excluded |-> Op(c) = "exclude", changed |-> changed])
  BY <1>1, <1>2, RowsOfTables DEF CommitModeration, IInv, TypeOK
<1>5. changed \in BOOLEAN /\ (changed <=> ~(review[t].excluded <=> Op(c) = "exclude"))
  BY <1>1, <1>3 DEF DecisionChangesState, Reviews
<1>6. review'[t] = [review[t] EXCEPT !.excluded = (Op(c) = "exclude")]
  BY <1>3, <1>4, <1>5 DEF Reviews
<1>7. /\ d \in Decisions /\ d.number = n + 1 /\ d.changed = changed /\ d.action = Op(c)
      /\ review'[t].excluded = IF d.changed THEN d.action = "exclude" ELSE review[t].excluded
      /\ review[t].excluded \in BOOLEAN
  BY <1>1, <1>3, <1>4, <1>5 DEF Decisions, Reviews
<1>8. d.changed <=> ~(review[t].excluded <=> d.action = "exclude")
  BY <1>5, <1>7
<1>9. /\ Explained(decisions'[t], review'[t].excluded)
      /\ LastOf(decisions'[t]) = n + 1
  <2> HIDE DEF d
  <2> QED
    BY <1>3, <1>4, <1>7, <1>8, DecisionIsExplained
<1>10. decisions'[t] \in SUBSET Decisions
  BY <1>3, <1>4, <1>7
<1>11. Weight(review'[t], now) # Weight(review[t], now) <=> changed /\ ~review[t].deleted
  BY <1>1, <1>2, <1>3, <1>5, <1>6 DEF Weight, Reviews, Versions
<1>12. [number |-> n + 1, excluded |-> Op(c) = "exclude", changed |-> changed] \in Bodies
  BY <1>3, <1>5 DEF Bodies
<1> QED
  BY <1>3, <1>4, <1>6, <1>9, <1>10, <1>11, <1>12

-----------------------------------------------------------------------------
(* Commits keep the invariant *)

(* Nobody else is at work with c's key, ...                                  *)
LEMMA KeyIsExclusive ==
  ASSUME IInv, NEW c \in Clients, pc[c] \notin {"done", "begin"},
         NEW d \in Clients \ {c}, pc[d] \notin {"done", "begin"}
  PROVE  Key(d) # Key(c)
BY DEF IInv, ClientInv, KeyHeld

(* ... and who else decides about c's trip waits for no row of it: c is      *)
(* alone, or c is a rider and d a moderator.                                 *)
LEMMA TripIsExclusive ==
  ASSUME IInv, NEW c \in Clients, pc[c] \in {"read", "write"},
         NEW d \in Clients \ {c}, pc[d] = "write", T(d) = T(c)
  PROVE  /\ RiderRequest(c) => ~RiderRequest(d) /\ reviewLock[T(c)] = d /\ review[T(c)].exists
         /\ ~RiderRequest(c) => RiderRequest(d) /\ tripLock[T(c)] = d
<1>1. /\ RiderRequest(c) => tripLock[T(c)] = c
      /\ ~RiderRequest(c) => reviewLock[T(c)] = c
  BY WorkingClient
<1>2. /\ RiderRequest(d) => tripLock[T(d)] = d
      /\ ~RiderRequest(d) => reviewLock[T(d)] = d /\ review[T(d)].exists
  BY WorkingClient
<1> QED
  BY <1>1, <1>2

(* A commit that changes the rows of its own trip, and those no other client *)
(* has read, keeps the invariant if the trip's rows are right after it.      *)
LEMMA CommitKeepsIInv ==
  ASSUME IInv, NEW c \in Clients, pc[c] \in {"read", "write"},
         NEW body \in Bodies, Record(c, body),
         NEW t, t = T(c),
         review' \in [Trips -> Reviews], versions' \in [Trips -> SUBSET Versions],
         decisions' \in [Trips -> SUBSET Decisions], events' \in [Trips -> Nat],
         \A u \in Trips \ {t} : /\ review'[u] = review[u] /\ versions'[u] = versions[u]
                               /\ decisions'[u] = decisions[u],
         Sequential(versions'[t]), review'[t].exists <=> CurrentOf(versions'[t]).version > 0,
         Explained(decisions'[t], review'[t].excluded), LastOf(decisions'[t]) \in Nat,
         \A d \in Clients \ {c} : pc[d] = "write" /\ T(d) = t =>
           /\ review'[t] = review[t]
           /\ RiderRequest(d) => CurrentOf(versions'[t]) = CurrentOf(versions[t])
  PROVE  IInv'
<1>1. /\ job[c] \in Jobs /\ Key(c) \in Keys /\ Req(c) \in Requests /\ t \in Trips
      /\ stored[Key(c)] = None
  BY WorkingClient
<1>2. Finish(c, "ok", body) /\ aborts' = aborts
  BY DEF Record
<1>3. [request |-> Req(c), body |-> body] \in Stored
  BY <1>1 DEF Stored
<1>4. /\ stored' \in [Keys -> Stored \cup {None}]
      /\ stored'[Key(c)] = [request |-> Req(c), body |-> body]
      /\ \A k \in Keys : k # Key(c) => stored'[k] = stored[k]
  BY <1>1, <1>3 DEF Record, IInv, TypeOK
<1>5. TypeOK'
  <2>1. aborts' \in Nat
    BY <1>2 DEF IInv, TypeOK
  <2> QED
    BY <1>2, <1>4, <2>1, FinishedClient DEF IInv, TypeOK, Replies
<1>6. /\ pc'[c] = "done" /\ job'[c] = job[c] /\ reply'[c] = [kind |-> "ok", body |-> body]
      /\ \A d \in Clients \ {c} : Undisturbed(d)
  BY <1>2, FinishedClient DEF IInv, Replies
<1>7. ClientInv(c)'
  <2>1. stored'[Key(c)] # None
    BY <1>3, <1>4, NoneAssumption
  <2> QED
    BY <1>1, <1>4, <1>6, <2>1
       DEF ClientInv, PlaceOfRequest, KeyHeld, TripHeld, ReviewHeld, SeenIsCurrent,
           KeyUnused, ReplyIsDurable, Key, Req
<1>9. ASSUME NEW d \in Clients \ {c} PROVE ClientInv(d)'
  <2>1. ClientInv(d) /\ Undisturbed(d)
    BY <1>6 DEF IInv
  <2>2. \A k \in Keys : stored[k] # None => stored'[k] = stored[k]
    BY <1>1, <1>4
  <2>3. pc[d] \in {"trip", "review", "read", "write"} => stored'[Key(d)] = stored[Key(d)]
    <3>1. SUFFICES ASSUME pc[d] \in {"trip", "review", "read", "write"}
                   PROVE  stored'[Key(d)] = stored[Key(d)]
      OBVIOUS
    <3>2. Key(d) \in Keys
      BY <2>1, <3>1 DEF ClientInv, PlaceOfRequest, Jobs, Key
    <3> QED
      BY <1>4, <3>1, <3>2, KeyIsExclusive
  <2>4. pc[d] = "write" =>
          /\ review'[T(d)] = review[T(d)]
          /\ RiderRequest(d) => CurrentOf(versions'[T(d)]) = CurrentOf(versions[T(d)])
    <3>1. SUFFICES ASSUME pc[d] = "write"
                   PROVE  /\ review'[T(d)] = review[T(d)]
                          /\ RiderRequest(d) =>
                               CurrentOf(versions'[T(d)]) = CurrentOf(versions[T(d)])
      OBVIOUS
    <3>2. T(d) \in Trips
      BY <3>1, WorkingClient
    <3> QED
      BY <3>1, <3>2
  <2> QED
    BY <2>1, <2>2, <2>3, <2>4, UndisturbedKeepsInv
<1>10. TablesInv'
  <2>1. \A u \in Trips : /\ Sequential(versions'[u])
                         /\ review'[u].exists <=> CurrentOf(versions'[u]).version > 0
                         /\ Explained(decisions'[u], review'[u].excluded)
                         /\ LastOf(decisions'[u]) \in Nat
    BY RowTypes
  <2> QED
    BY <2>1, RowsOfTables, SequentialTables, ExplainedTables DEF TablesInv
<1> QED
  BY <1>5, <1>7, <1>9, <1>10 DEF IInv

LEMMA CommitUpsertKeepsIInv ==
  ASSUME IInv, NEW c \in Clients, CommitUpsert(c)
  PROVE  IInv'
<1> DEFINE t == T(c)
<1>1. pc[c] = "write" /\ RiderRequest(c) /\ t \in Trips
  BY WorkingClient DEF CommitUpsert, RiderRequest
<1>2. /\ review'[t] = [exists |-> TRUE, deleted |-> FALSE, excluded |-> review[t].excluded]
      /\ versions'[t] \in SUBSET Versions /\ Sequential(versions'[t])
      /\ CurrentOf(versions'[t]).version \in Nat \ {0}
  BY UpsertEffect
<1>3. /\ review[t] \in Reviews /\ decisions'[t] = decisions[t]
      /\ Explained(decisions[t], review[t].excluded) /\ LastOf(decisions[t]) \in Nat
      /\ events[t] \in Nat /\ events[t] + 1 \in Nat
  BY <1>1, RowTypes DEF CommitUpsert
<1>4. /\ review'[t] \in Reviews /\ review'[t].exists
      /\ review'[t].excluded = review[t].excluded
  BY <1>2, <1>3 DEF Reviews
<1>5. /\ review' \in [Trips -> Reviews] /\ versions' \in [Trips -> SUBSET Versions]
      /\ decisions' \in [Trips -> SUBSET Decisions] /\ events' \in [Trips -> Nat]
  BY <1>1, <1>2, <1>3, <1>4 DEF CommitUpsert, IInv, TypeOK
<1>6. \A u \in Trips \ {t} : /\ review'[u] = review[u] /\ versions'[u] = versions[u]
                            /\ decisions'[u] = decisions[u]
  BY DEF CommitUpsert, IInv, TypeOK
<1>7. ASSUME NEW d \in Clients \ {c}, pc[d] = "write", T(d) = t
      PROVE  review'[t] = review[t] /\ ~RiderRequest(d)
  <2>1. ~RiderRequest(d) /\ reviewLock[t] = d /\ review[t].exists
    BY <1>1, <1>7, TripIsExclusive
  <2>2. reviewLock[t] # None
    BY <2>1, NoneAssumption
  <2>3. seen[c].review = review[t]
    BY <1>1 DEF IInv, ClientInv, SeenIsCurrent
  <2>4. ~review[t].deleted
    BY <2>1, <2>2, <2>3 DEF CommitUpsert, UpsertNeedsReviewRow
  <2> QED
    BY <1>2, <1>3, <2>1, <2>4 DEF Reviews
<1>8. review'[t].exists <=> CurrentOf(versions'[t]).version > 0
  BY <1>2, <1>4
<1>9. PICK body \in Bodies : Record(c, body)
  BY UpsertEffect
<1>10. /\ Explained(decisions'[t], review'[t].excluded) /\ LastOf(decisions'[t]) \in Nat
  BY <1>3, <1>4
<1> QED
  BY <1>1, <1>2, <1>5, <1>6, <1>7, <1>8, <1>9, <1>10, CommitKeepsIInv

LEMMA CommitDeleteKeepsIInv ==
  ASSUME IInv, NEW c \in Clients, CommitDelete(c)
  PROVE  IInv'
<1> DEFINE t == T(c)
<1>1. /\ pc[c] = "read" /\ RiderRequest(c) /\ t \in Trips /\ reviewLock[t] = None
      /\ review[t].exists
  BY WorkingClient DEF CommitDelete, RiderRequest
<1>2. /\ review[t] \in Reviews /\ versions'[t] = versions[t] /\ decisions'[t] = decisions[t]
      /\ Sequential(versions[t]) /\ (review[t].exists <=> CurrentOf(versions[t]).version > 0)
      /\ Explained(decisions[t], review[t].excluded) /\ LastOf(decisions[t]) \in Nat
      /\ events[t] \in Nat /\ events[t] + 1 \in Nat
  BY <1>1, RowTypes DEF CommitDelete
<1>3. review'[t] = [review[t] EXCEPT !.deleted = TRUE]
  BY DeleteEffect
<1>4. /\ review'[t] \in Reviews /\ review'[t].exists = review[t].exists
      /\ review'[t].excluded = review[t].excluded
  BY <1>2, <1>3 DEF Reviews
<1>5. /\ review' \in [Trips -> Reviews] /\ versions' \in [Trips -> SUBSET Versions]
      /\ decisions' \in [Trips -> SUBSET Decisions] /\ events' \in [Trips -> Nat]
  BY <1>1, <1>2, <1>4 DEF CommitDelete, IInv, TypeOK
<1>6. \A u \in Trips \ {t} : /\ review'[u] = review[u] /\ versions'[u] = versions[u]
                            /\ decisions'[u] = decisions[u]
  BY DEF CommitDelete, IInv, TypeOK
<1>7. \A d \in Clients \ {c} : ~(pc[d] = "write" /\ T(d) = t)
  BY <1>1, TripIsExclusive, NoneAssumption
<1>8. PICK body \in Bodies : Record(c, body)
  BY DeleteEffect
<1>9. /\ Sequential(versions'[t])
      /\ review'[t].exists <=> CurrentOf(versions'[t]).version > 0
      /\ Explained(decisions'[t], review'[t].excluded) /\ LastOf(decisions'[t]) \in Nat
  BY <1>2, <1>4
<1> QED
  BY <1>1, <1>5, <1>6, <1>7, <1>8, <1>9, CommitKeepsIInv

LEMMA CommitModerationKeepsIInv ==
  ASSUME IInv, NEW c \in Clients, CommitModeration(c)
  PROVE  IInv'
<1> DEFINE t == T(c)
<1>1. pc[c] = "write" /\ ~RiderRequest(c) /\ tripLock[t] = None
  BY DEF CommitModeration, JoinedTripIsFree, RiderRequest, Moderates
<1>2. t \in Trips
  BY <1>1, WorkingClient
<1>3. /\ review[t] \in Reviews /\ versions'[t] = versions[t]
      /\ Sequential(versions[t]) /\ (review[t].exists <=> CurrentOf(versions[t]).version > 0)
      /\ LastOf(decisions[t]) \in Nat /\ events[t] \in Nat /\ events[t] + 1 \in Nat
  BY <1>2, RowTypes DEF CommitModeration
<1>4. /\ review'[t] = [review[t] EXCEPT !.excluded = (Op(c) = "exclude")]
      /\ decisions'[t] \in SUBSET Decisions
      /\ Explained(decisions'[t], review'[t].excluded)
      /\ LastOf(decisions'[t]) = LastOf(decisions[t]) + 1
  BY ModerationEffect
<1>5. review'[t] \in Reviews /\ review'[t].exists = review[t].exists
  BY <1>3, <1>4 DEF Reviews
<1>6. /\ review' \in [Trips -> Reviews] /\ versions' \in [Trips -> SUBSET Versions]
      /\ decisions' \in [Trips -> SUBSET Decisions] /\ events' \in [Trips -> Nat]
  BY <1>2, <1>3, <1>4, <1>5 DEF CommitModeration, IInv, TypeOK
<1>7. \A u \in Trips \ {t} : /\ review'[u] = review[u] /\ versions'[u] = versions[u]
                            /\ decisions'[u] = decisions[u]
  BY DEF CommitModeration, IInv, TypeOK
<1>8. \A d \in Clients \ {c} : ~(pc[d] = "write" /\ T(d) = t)
  BY <1>1, TripIsExclusive, NoneAssumption
<1>9. PICK body \in Bodies : Record(c, body)
  BY ModerationEffect
<1>10. /\ Sequential(versions'[t])
       /\ review'[t].exists <=> CurrentOf(versions'[t]).version > 0
       /\ LastOf(decisions'[t]) \in Nat
  BY <1>3, <1>4, <1>5
<1> QED
  BY <1>1, <1>4, <1>6, <1>7, <1>8, <1>9, <1>10, CommitKeepsIInv

LEMMA StutterKeepsIInv == IInv /\ UNCHANGED vars => IInv'
<1> SUFFICES ASSUME IInv, UNCHANGED vars PROVE IInv'
  OBVIOUS
<1>1. TypeOK'
  BY DEF vars, tables, locks, IInv, TypeOK
<1>2. \A d \in Clients : Undisturbed(d)
  BY DEF vars, tables, locks, Undisturbed
<1>3. TablesInv' /\ \A t : CurrentOf(versions'[t]) = CurrentOf(versions[t])
  BY TablesKept DEF IInv, vars, tables
<1>4. ASSUME NEW d \in Clients PROVE ClientInv(d)'
  <2>1. ClientInv(d) /\ Undisturbed(d) /\ stored' = stored /\ review' = review
    BY <1>2 DEF IInv, vars, tables
  <2> QED
    BY <1>3, <2>1, UndisturbedKeepsInv
<1> QED
  BY <1>1, <1>3, <1>4 DEF IInv

LEMMA NextKeepsIInv == IInv /\ [Next]_vars => IInv'
<1> SUFFICES ASSUME IInv, Next PROVE IInv'
  BY StutterKeepsIInv
<1>1. ASSUME NEW c \in Clients, NEW k \in Keys, NEW r \in Requests, Submit(c, k, r)
      PROVE  IInv'
  BY <1>1, SubmitKeepsIInv
<1>2. ASSUME NEW c \in Clients, Step(c) PROVE IInv'
  <2>1. CASE LockKey(c)
    BY <2>1, LockKeyKeepsIInv
  <2>2. CASE Lookup(c)
    BY <2>2, LookupKeepsIInv
  <2>3. CASE LockTrip(c)
    BY <2>3, LockTripKeepsIInv
  <2>4. CASE ReadReview(c)
    BY <2>4, ReadReviewKeepsIInv
  <2>5. CASE LockReview(c)
    BY <2>5, LockReviewKeepsIInv
  <2>6. CASE Replay(c) \/ Conflict(c) \/ RejectTrip(c) \/ RejectDelete(c)
               \/ RejectModeration(c) \/ DeadlockVictim(c)
    BY <2>6, AnswerKeepsIInv
  <2>7. CASE Commit(c)
    BY <2>7, CommitUpsertKeepsIInv, CommitDeleteKeepsIInv, CommitModerationKeepsIInv
       DEF Commit
  <2> QED
    BY <1>2, <2>1, <2>2, <2>3, <2>4, <2>5, <2>6, <2>7 DEF Step
<1>3. ASSUME NEW c \in Clients, Fail(c) PROVE IInv'
  BY <1>3, AnswerKeepsIInv
<1> QED
  BY <1>1, <1>2, <1>3 DEF Next

LEMMA AlwaysIInv == Spec => []IInv
BY InitIInv, NextKeepsIInv, PTL DEF Spec

-----------------------------------------------------------------------------
(* Theorems *)

(* Rows, locks, clients and answers keep their types.                        *)
THEOREM ReviewTypeCorrect == Spec => []TypeOK
<1>1. IInv => TypeOK
  BY DEF IInv
<1> QED
  BY <1>1, AlwaysIInv, PTL

(* The advisory lock of a key (review_service.py:73-74) keeps a lookup valid *)
(* until the commit, however many clients, keys, retries and failures.       *)
THEOREM LookupsStayValid == Spec => []LookupStillValid
<1>1. IInv => LookupStillValid
  BY DEF IInv, ClientInv, KeyUnused, LookupStillValid
<1> QED
  BY <1>1, AlwaysIInv, PTL

(* Whoever is told that a command happened is told its one durable answer.   *)
THEOREM RepliesStayDurable == Spec => []RepliesAreDurable
<1>1. IInv => RepliesAreDurable
  BY DEF IInv, ClientInv, ReplyIsDurable, RepliesAreDurable
<1> QED
  BY <1>1, AlwaysIInv, PTL

(* Rewrites of a review from rows read before never fork or skip a version.  *)
THEOREM VersionsStaySequential == Spec => []VersionsAreSequential
<1>1. IInv => VersionsAreSequential
  BY DEF IInv, TablesInv
<1> QED
  BY <1>1, AlwaysIInv, PTL

(* The moderation log always explains whether a review counts.               *)
THEOREM DecisionsAlwaysExplain == Spec => []DecisionsExplainState
<1>1. IInv => DecisionsExplainState
  BY DEF IInv, TablesInv
<1> QED
  BY <1>1, AlwaysIInv, PTL

(* A stale read is never decided upon: what a command read is what its       *)
(* commit finds, under the locks each command takes.                         *)
THEOREM ReadsStayCurrent == Spec => [](\A c \in Clients : SeenIsCurrent(c))
<1>1. IInv => \A c \in Clients : SeenIsCurrent(c)
  BY DEF IInv, ClientInv
<1> QED
  BY <1>1, AlwaysIInv, PTL

-----------------------------------------------------------------------------
(* The rows, read as the abstract store *)

Ballot(V, rv, D) ==
  [version |-> CurrentOf(V).version, rating |-> CurrentOf(V).rating,
   deleted |-> rv.deleted, excluded |-> rv.excluded, decisions |-> LastOf(D)]

BallotType ==
  [version : Nat, rating : Nat, deleted : BOOLEAN, excluded : BOOLEAN, decisions : Nat]

(* What a review says counts for the driver as much as its rows do.          *)
LEMMA WeightOfBallot ==
  ASSUME NEW V, NEW rv, NEW D, rv.exists <=> CurrentOf(V).version > 0
  PROVE  Store!Contribution(Ballot(V, rv, D)) = Weight(rv, CurrentOf(V))
BY DEF Store!Contribution, Store!Contributes, Store!NoRating, Ballot, Weight

(* Each commit turns the ballot of its trip into the one its request asks    *)
(* for, and writes an event exactly when the contribution changes.           *)
LEMMA CommitEffect ==
  ASSUME IInv, NEW c \in Clients, Commit(c), NEW t, t = T(c),
         NEW b, b = Ballot(versions[t], review[t], decisions[t]),
         NEW a, a = Ballot(versions'[t], review'[t], decisions'[t])
  PROVE  /\ pc[c] \in {"read", "write"} /\ \E body \in Bodies : Record(c, body)
         /\ Op(c) \in {"upsert", "delete"} => Req(c).rider = "owner"
         /\ Op(c) # "upsert" => b.version > 0
         /\ a = Store!After(Req(c), b)
         /\ events'[t] = IF Weight(review'[t], CurrentOf(versions'[t])) #
                              Weight(review[t], CurrentOf(versions[t]))
                         THEN events[t] + 1 ELSE events[t]
         /\ \A u \in Trips \ {t} : /\ review'[u] = review[u] /\ versions'[u] = versions[u]
                                   /\ decisions'[u] = decisions[u] /\ events'[u] = events[u]
<1>1. pc[c] \in {"read", "write"}
  BY DEF Commit, CommitUpsert, CommitDelete, CommitModeration
<1>2. t \in Trips /\ (Op(c) \in {"upsert", "delete"} => Req(c).rider = "owner")
  BY <1>1, WorkingClient DEF RiderRequest
<1>3. /\ review[t] \in Reviews /\ LastOf(decisions[t]) \in Nat
      /\ CurrentOf(versions[t]).version \in Nat /\ CurrentOf(versions[t]).rating \in Nat
  BY <1>2, RowTypes
<1>4. \A u \in Trips \ {t} : /\ review'[u] = review[u] /\ versions'[u] = versions[u]
                             /\ decisions'[u] = decisions[u] /\ events'[u] = events[u]
  BY DEF Commit, CommitUpsert, CommitDelete, CommitModeration, IInv, TypeOK
<1>5. CASE CommitUpsert(c)
  <2>1. Req(c).op = "upsert" /\ decisions' = decisions
    BY <1>5 DEF CommitUpsert, Op
  <2>2. /\ review'[t] = [exists |-> TRUE, deleted |-> FALSE, excluded |-> review[t].excluded]
        /\ CurrentOf(versions'[t]).rating = Req(c).rating
        /\ CurrentOf(versions'[t]).version =
             IF CurrentOf(versions[t]).rating = Req(c).rating
             THEN CurrentOf(versions[t]).version ELSE CurrentOf(versions[t]).version + 1
        /\ events'[t] = IF Weight(review'[t], CurrentOf(versions'[t])) #
                             Weight(review[t], CurrentOf(versions[t]))
                        THEN events[t] + 1 ELSE events[t]
        /\ \E body \in Bodies : Record(c, body)
    BY <1>5, UpsertEffect
  <2>3. a = Store!After(Req(c), b)
    <3> DEFINE n == Req(c).rating
               v == IF b.rating = n THEN b.version ELSE b.version + 1
    <3>1. /\ b \in BallotType /\ n \in Nat /\ v \in Nat
          /\ b.version = CurrentOf(versions[t]).version
          /\ b.rating = CurrentOf(versions[t]).rating
          /\ b.excluded = review[t].excluded /\ b.decisions = LastOf(decisions[t])
      BY <1>1, <1>3, WorkingClient DEF Ballot, BallotType, Reviews
    <3>2. Store!After(Req(c), b) = [b EXCEPT !.deleted = FALSE, !.rating = n, !.version = v]
      BY <2>1 DEF Store!After
    <3>3. LastOf(decisions'[t]) = LastOf(decisions[t])
      BY <2>1
    <3>4. /\ a.version = v /\ a.rating = n /\ a.deleted = FALSE
          /\ a.excluded = b.excluded /\ a.decisions = b.decisions
      BY <2>2, <3>1, <3>3 DEF Ballot
    <3>5. a \in BallotType
      BY <1>2, <1>3, <2>2, <3>1, <3>3, <3>4 DEF Ballot, BallotType, Reviews
    <3> HIDE DEF n, v
    <3>6. PICK x : x = [b EXCEPT !.deleted = FALSE, !.rating = n, !.version = v]
      OBVIOUS
    <3>7. /\ x \in BallotType /\ x.version = v /\ x.rating = n /\ x.deleted = FALSE
          /\ x.excluded = b.excluded /\ x.decisions = b.decisions
      BY <3>1, <3>6 DEF BallotType
    <3>8. a = x
      BY <3>4, <3>5, <3>7 DEF BallotType
    <3> QED
      BY <3>2, <3>6, <3>8
  <2> QED
    BY <1>1, <1>2, <1>4, <2>1, <2>2, <2>3 DEF Op
<1>6. CASE CommitDelete(c)
  <2>1. Req(c).op = "delete" /\ decisions' = decisions /\ versions' = versions
    BY <1>6 DEF CommitDelete, Op
  <2>2. /\ CurrentOf(versions[t]).version > 0
        /\ review'[t] = [review[t] EXCEPT !.deleted = TRUE]
        /\ events'[t] = IF Weight(review'[t], CurrentOf(versions[t])) #
                             Weight(review[t], CurrentOf(versions[t]))
                        THEN events[t] + 1 ELSE events[t]
        /\ \E body \in Bodies : Record(c, body)
    BY <1>6, DeleteEffect
  <2>3. a = Store!After(Req(c), b) /\ b.version > 0
    BY <1>3, <2>1, <2>2 DEF Store!After, Ballot, Reviews
  <2> QED
    BY <1>1, <1>2, <1>4, <2>1, <2>2, <2>3
<1>7. CASE CommitModeration(c)
  <2>1. Req(c).op \in {"exclude", "restore"} /\ versions' = versions
    BY <1>7 DEF CommitModeration, Moderates, Op
  <2>2. /\ CurrentOf(versions[t]).version > 0
        /\ review'[t] = [review[t] EXCEPT !.excluded = (Op(c) = "exclude")]
        /\ LastOf(decisions'[t]) = LastOf(decisions[t]) + 1
        /\ events'[t] = IF Weight(review'[t], CurrentOf(versions[t])) #
                             Weight(review[t], CurrentOf(versions[t]))
                        THEN events[t] + 1 ELSE events[t]
        /\ \E body \in Bodies : Record(c, body)
    BY <1>7, ModerationEffect
  <2>3. a = Store!After(Req(c), b) /\ b.version > 0
    BY <1>3, <2>1, <2>2 DEF Store!After, Ballot, Reviews, Op
  <2> QED
    BY <1>1, <1>2, <1>4, <2>1, <2>2, <2>3
<1> QED
  BY <1>5, <1>6, <1>7 DEF Commit

LEMMA OnlyCommitsWrite ==
  ASSUME [Next]_vars
  PROVE  UNCHANGED tables \/ \E c \in Clients : Commit(c)
BY DEF Next, Step, vars, Submit, LockKey, Replay, Conflict, Lookup, LockTrip, RejectTrip,
       ReadReview, RejectDelete, LockReview, RejectModeration, DeadlockVictim, Fail, Answer

(* No event is missing and none is superfluous, whatever runs concurrently.  *)
THEOREM EventsFollowContributions == Spec => EventPerContributionChange
<1>1. ASSUME IInv, [Next]_vars, NEW t \in Trips
      PROVE  events'[t] = IF Contribution(t)' # Contribution(t)
                          THEN events[t] + 1 ELSE events[t]
  <2>1. CASE UNCHANGED tables
    <3>1. Contribution(t)' = Contribution(t)
      BY <2>1, ContributionIsWeight DEF tables
    <3> QED
      BY <2>1, <3>1 DEF tables
  <2>2. ASSUME NEW c \in Clients, Commit(c)
        PROVE  events'[t] = IF Contribution(t)' # Contribution(t)
                            THEN events[t] + 1 ELSE events[t]
    <3>1. CASE t = T(c)
      BY <1>1, <2>2, <3>1, CommitEffect, ContributionIsWeight
    <3>2. CASE t # T(c)
      <4>1. /\ review'[t] = review[t] /\ versions'[t] = versions[t]
            /\ events'[t] = events[t]
        BY <1>1, <2>2, <3>2, CommitEffect
      <4>2. Contribution(t)' = Contribution(t)
        BY <4>1, ContributionIsWeight
      <4> QED
        BY <4>1, <4>2
    <3> QED
      BY <3>1, <3>2
  <2> QED
    BY <1>1, <2>1, <2>2, OnlyCommitsWrite
<1>2. IInv /\ [Next]_vars =>
        [\A t \in Trips : events'[t] = IF Contribution(t)' # Contribution(t)
                                      THEN events[t] + 1 ELSE events[t]]_vars
  BY <1>1
<1> QED
  BY <1>2, AlwaysIInv, PTL DEF Spec, EventPerContributionChange

Ballots  == [t \in Trips |-> Ballot(versions[t], review[t], decisions[t])]
Executed == [k \in Keys |-> IF stored[k] = None THEN None ELSE stored[k].request]

(* The mapping of Store, and what it becomes after a step.                   *)
LEMMA StoreView ==
  /\ [t \in Trips |-> [version |-> CurrentRow(t).version, rating |-> CurrentRow(t).rating,
                       deleted |-> review[t].deleted, excluded |-> review[t].excluded,
                       decisions |-> LastNumber(t)]] = Ballots
  /\ [t \in Trips |-> [version |-> CurrentRow(t).version, rating |-> CurrentRow(t).rating,
                       deleted |-> review[t].deleted, excluded |-> review[t].excluded,
                       decisions |-> LastNumber(t)]]' = Ballots'
BY RowsOfTables DEF Ballots, Ballot

LEMMA InitStore == Init => Store!Init
<1> SUFFICES ASSUME Init PROVE Store!Init
  OBVIOUS
<1>1. \A t \in Trips : Ballot(versions[t], review[t], decisions[t]) = Store!EmptyBallot
  <2>1. CurrentOf({}) = NoRow /\ LastOf({}) = 0
    BY DEF CurrentOf, LastOf
  <2>2. \A t \in Trips : versions[t] = {} /\ review[t] = NoReview /\ decisions[t] = {}
    BY DEF Init
  <2>3. Ballot({}, NoReview, {}) = Store!EmptyBallot
    <3>1. /\ NoRow.version = 0 /\ NoRow.rating = 0
          /\ NoReview.deleted = FALSE /\ NoReview.excluded = FALSE
      BY DEF NoRow, NoReview
    <3> QED
      BY <2>1, <3>1 DEF Ballot, Store!EmptyBallot, Store!NoRating
  <2> QED
    BY <2>2, <2>3
<1>2. Ballots = [t \in Trips |-> Store!EmptyBallot]
  BY <1>1 DEF Ballots
<1>3. events = [t \in Trips |-> 0] /\ Executed = [k \in Keys |-> None]
  BY DEF Init, Executed
<1> QED
  BY <1>2, <1>3, StoreView DEF Store!Init, Executed

LEMMA CommitExecutes ==
  ASSUME IInv, NEW c \in Clients, Commit(c), NEW k, k = Key(c), NEW r, r = Req(c)
  PROVE  Store!Execute(k, r) /\ k \in Keys /\ r \in Requests
<1> DEFINE t == T(c)
           b == Ballot(versions[t], review[t], decisions[t])
           a == Ballot(versions'[t], review'[t], decisions'[t])
<1>1. /\ pc[c] \in {"read", "write"}
      /\ Op(c) \in {"upsert", "delete"} => r.rider = "owner"
      /\ Op(c) # "upsert" => b.version > 0
      /\ a = Store!After(r, b)
      /\ events'[t] = IF Weight(review'[t], CurrentOf(versions'[t])) #
                           Weight(review[t], CurrentOf(versions[t]))
                      THEN events[t] + 1 ELSE events[t]
      /\ \A u \in Trips \ {t} : /\ review'[u] = review[u] /\ versions'[u] = versions[u]
                                /\ decisions'[u] = decisions[u] /\ events'[u] = events[u]
  BY CommitEffect
<1>2. k \in Keys /\ r \in Requests /\ t \in Trips /\ stored[k] = None
  BY <1>1, WorkingClient
<1>3. PICK body \in Bodies : Record(c, body)
  BY CommitEffect
<1>4. IInv'
  BY CommitUpsertKeepsIInv, CommitDeleteKeepsIInv, CommitModerationKeepsIInv DEF Commit
<1>5. events' = [events EXCEPT ![t] = IF Store!Contribution(a) # Store!Contribution(b)
                                      THEN @ + 1 ELSE @]
  <2>1. /\ Store!Contribution(b) = Weight(review[t], CurrentOf(versions[t]))
        /\ Store!Contribution(a) = Weight(review'[t], CurrentOf(versions'[t]))
    <3>1. /\ review[t].exists <=> CurrentOf(versions[t]).version > 0
          /\ review'[t].exists <=> CurrentOf(versions'[t]).version > 0
      BY <1>2, <1>4, SequentialTables DEF IInv, TablesInv
    <3> QED
      BY <3>1, WeightOfBallot
  <2>2. events \in [Trips -> Nat] /\ events' \in [Trips -> Nat]
    BY <1>4 DEF IInv, TypeOK
  <2> HIDE DEF a, b
  <2> QED
    BY <1>1, <1>2, <2>1, <2>2
<1>6. Ballots' = [Ballots EXCEPT ![t] = a]
  BY <1>1, <1>2 DEF Ballots
<1>7. Ballots[t] = b
  BY <1>2 DEF Ballots
<1>8. Executed' = [Executed EXCEPT ![k] = r] /\ Executed[k] = None
  <2>1. /\ stored' = [stored EXCEPT ![k] = [request |-> r, body |-> body]]
        /\ stored \in [Keys -> Stored \cup {None}]
    BY <1>3 DEF Record, IInv, TypeOK
  <2>2. [request |-> r, body |-> body] # None
    BY <1>2, NoneAssumption DEF Stored
  <2> QED
    BY <1>2, <2>1, <2>2 DEF Executed
<1>9. Store!Permitted(r)
  <2>1. r.trip = t /\ r.op = Op(c)
    BY DEF T, Op
  <2> QED
    BY <1>1, <1>2, <1>7, <2>1, StoreView DEF Store!Permitted
<1>10. r.trip = t
  BY DEF T
<1> HIDE DEF a, b, t
<1>11. Store!Execute(k, r)
  BY <1>1, <1>5, <1>6, <1>7, <1>8, <1>9, <1>10, StoreView DEF Store!Execute, Executed
<1> QED
  BY <1>2, <1>11

LEMMA StepStore == IInv /\ [Next]_vars => [Store!Next]_(Store!vars)
<1> SUFFICES ASSUME IInv, [Next]_vars PROVE [Store!Next]_(Store!vars)
  OBVIOUS
<1>1. CASE UNCHANGED tables
  <2>1. Ballots' = Ballots /\ Executed' = Executed /\ events' = events
    BY <1>1 DEF tables, Ballots, Executed
  <2> QED
    BY <2>1, StoreView DEF Store!vars, Executed
<1>2. ASSUME NEW c \in Clients, Commit(c) PROVE Store!Next
  <2>1. PICK k, r : k = Key(c) /\ r = Req(c)
    OBVIOUS
  <2>2. Store!Execute(k, r) /\ k \in Keys /\ r \in Requests
    BY <1>2, <2>1, CommitExecutes
  <2> QED
    BY <2>2 DEF Store!Next
<1> QED
  BY <1>1, <1>2, OnlyCommitsWrite

(* The three commands with their locks and reads implement the store that    *)
(* executes each request at one instant.                                     *)
THEOREM CommandsImplementStore == Spec => ImplementsStore
BY AlwaysIInv, InitStore, StepStore, PTL DEF Spec, ImplementsStore, Store!Spec
=============================================================================
