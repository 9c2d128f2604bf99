---------------------------- MODULE AutoExecProofs ----------------------------
(***************************************************************************)
(* Theorems about AutoExec for any order sheet and any number of deliveries *)
(* and requests; each says which faults it excludes.                        *)
(*                                                                         *)
(* Every step of the day is of one of a dozen kinds (Kind), which say what  *)
(* it does to rows, sessions and orders; the invariants are kept kind by    *)
(* kind: whose batch is whose (OrderInv), who may run (DayInv), what a      *)
(* batch has spent (Budget), what rows say of orders (RowInv), who may      *)
(* place (Turns), and which lines are free to go out again (Clear).         *)
(***************************************************************************)
EXTENDS AutoExec, Sums, TLAPS

\* A key names a batch and a line, and there are finitely many.
LEMMA KeyFacts ==
    ASSUME NEW k \in Key
    PROVE  k[1] \in Batch /\ k[2] \in Line /\ k = <<k[1], k[2]>>
  BY DEF Key

\* The empty values a process starts and ends with have their types.
LEMMA Blanks ==
    /\ NoState \in PfState
    /\ NoFlags \in [Side -> BOOLEAN]
    /\ NoDraft \in [Key -> Status]
    /\ NoTally \in [running : Nat, streak : Nat, stop : BOOLEAN]
  BY DEF NoState, PfState, Notes, NoFlags, NoDraft, Status, NoTally

\* Every initial state is well typed.
LEMMA InitType == Init => TypeOK
<1> SUFFICES ASSUME Init PROVE TypeOK
  OBVIOUS
<1>1. DayType
  <2>1. drift \in BOOLEAN /\ gap \in BOOLEAN
    BY Zenon DEF Init
  <2>2. phase \in Pre..Closed /\ nbatch \in 0..MaxBatch /\ runs \subseteq 1..nbatch
    BY ProcAssumption DEF Init, Pre, Closed
  <2> QED BY <2>1, <2>2 DEF DayType
<1>2. StoreType
  BY Blanks DEF Init, StoreType, NoDraft, Status
<1>3. BrokerType
  BY DEF Init, BrokerType
<1>4. LocalType
  <2>1. pc \in [Proc -> States] /\ op \in [Proc -> {"run", "idle"} \cup AllRequests]
    BY DEF Init, States, AllRequests
  <2>2. /\ at \in [Proc -> Pre..Closed] /\ batch \in [Proc -> 0..nbatch]
        /\ \A p \in Proc : pc[p] \in {"open", "place"} => batch[p] # 0
    BY DEF Init, Pre, Closed
  <2>3. /\ seen \in [Proc -> PfState] /\ allowed \in [Proc -> [Side -> BOOLEAN]]
        /\ draft \in [Proc -> [Key -> Status]] /\ todo \in [Proc -> SUBSET Line]
        /\ tally \in [Proc -> [running : Nat, streak : Nat, stop : BOOLEAN]]
    BY Blanks DEF Init
  <2> QED BY <2>1, <2>2, <2>3 DEF LocalType
<1> QED BY <1>1, <1>2, <1>3, <1>4 DEF TypeOK

-----------------------------------------------------------------------------
(* Type correctness. *)

\* A process that leaves its work (with a crash, a refusal or a commit) keeps the types.
LEMMA LeaveType ==
    ASSUME LocalType, nbatch \in Nat, nbatch' = nbatch,
           NEW p \in Proc, NEW label \in {"judged", "done"}, Leave(p, label)
    PROVE  LocalType'
<1>1. pc' \in [Proc -> States] /\ op' \in [Proc -> {"run", "idle"} \cup AllRequests]
  BY DEF LocalType, Leave, Goto, AllRequests, States
<1>4. \A r \in Proc : pc'[r] \in {"open", "place"} => batch'[r] # 0
  BY DEF LocalType, Leave, Goto
<1>2. at' \in [Proc -> Pre..Closed] /\ batch' \in [Proc -> 0..nbatch']
  BY DEF LocalType, Leave, Pre, Closed
<1>3. /\ seen' \in [Proc -> PfState] /\ allowed' \in [Proc -> [Side -> BOOLEAN]]
      /\ draft' \in [Proc -> [Key -> Status]] /\ todo' \in [Proc -> SUBSET Line]
      /\ tally' \in [Proc -> [running : Nat, streak : Nat, stop : BOOLEAN]]
  BY Blanks DEF LocalType, Leave
<1> QED BY <1>1, <1>2, <1>3, <1>4 DEF LocalType

\* New rows keep the types of what they touch; the rest of p is up to the caller.
LEMMA NewRowsType ==
    ASSUME LocalType, DayType, NEW p \in Proc, NEW lines, NewRows(p, lines)
    PROVE  /\ nbatch' \in 0..MaxBatch /\ nbatch' = nbatch + 1
           /\ pc' \in [Proc -> States]
           /\ batch' \in [Proc -> 0..nbatch']
           /\ \A r \in Proc : pc'[r] \in {"open", "place"} => batch'[r] # 0
           /\ draft' \in [Proc -> [Key -> Status]]
           /\ tally' \in [Proc -> [running : Nat, streak : Nat, stop : BOOLEAN]]
<1>1. nbatch' \in 0..MaxBatch /\ nbatch' = nbatch + 1
  BY ProcAssumption DEF NewRows, DayType
<1>2. pc' \in [Proc -> States]
  BY DEF NewRows, Goto, LocalType, States
<1>3. batch' \in [Proc -> 0..nbatch']
  BY <1>1 DEF NewRows, LocalType, DayType
<1>4. draft' \in [Proc -> [Key -> Status]]
  BY DEF NewRows, LocalType, Status
<1>5. tally' \in [Proc -> [running : Nat, streak : Nat, stop : BOOLEAN]]
  BY DEF NewRows, LocalType, PfState
<1>6. \A r \in Proc : pc'[r] \in {"open", "place"} => batch'[r] # 0
  BY DEF NewRows, Goto, LocalType, DayType
<1> QED BY <1>1, <1>2, <1>3, <1>4, <1>5, <1>6

\* The steps of the run before its first order keep the types.
LEMMA RunningType ==
    ASSUME TypeOK, NEW w \in Worker, Running(w)
    PROVE  TypeOK'
<1> w \in Proc
  BY DEF Proc
<1> USE DEF TypeOK, shared, redis, broker, env, DayType, StoreType, BrokerType
<1> AfterRun(w) \in {"judged", "done"}
  BY DEF AfterRun
<1>1. CASE Load(w)
  BY <1>1 DEF Load, LocalType, Goto, States
<1>2. CASE EnterAlreadyRan(w)
  BY <1>2, LeaveType DEF EnterAlreadyRan
<1>3. CASE EnterLate(w)
  <2>1. pf' \in PfState
    BY <1>3 DEF EnterLate, LocalType, PfState, Notes
  <2> QED BY <1>3, <2>1, LeaveType DEF EnterLate
<1>4. CASE EnterLocked(w)
  BY <1>4, LeaveType DEF EnterLocked
<1>5. CASE EnterExecute(w)
  BY <1>5 DEF EnterExecute, AcquireDayLock, LocalType, Goto, States
<1>6. CASE PlanError(w)
  BY <1>6, LeaveType DEF PlanError
<1>7. ASSUME NEW o \in PlanOutcomes, PlanFinish(w, o) PROVE TypeOK'
  <2>1. Verdict(w, o) \in Notes
    BY DEF Verdict, Notes
  <2>2. pf' \in PfState
    BY <1>7, <2>1 DEF PlanFinish, LocalType, PfState
  <2> QED BY <1>7, <2>2, LeaveType DEF PlanFinish
<1>8. ASSUME NEW o \in PlanOutcomes, PlanGo(w, o) PROVE TypeOK'
  <2>1. DayType' /\ StoreType' /\ BrokerType'
    BY <1>8, ProcAssumption DEF PlanGo, NewRows
  <2>2. todo' \in [Proc -> SUBSET Line]
    BY <1>8 DEF PlanGo, LocalType
  <2>3. LocalType'
    BY <1>8, <2>2, NewRowsType DEF PlanGo, LocalType
  <2> QED BY <2>1, <2>3
<1> QED BY <1>1, <1>2, <1>3, <1>4, <1>5, <1>6, <1>7, <1>8 DEF Running

\* Marking rows in a session leaves a status in every row.
LEMMA MarkType ==
    ASSUME LocalType, NEW p \in Proc, NEW lines, NEW status \in Status,
           Mark(p, lines, status)
    PROVE  draft' \in [Proc -> [Key -> Status]]
  BY DEF Mark, LocalType

\* Quantities and amounts are natural numbers.
LEMMA SendableType ==
    ASSUME LocalType, NEW p \in Proc, NEW l \in Line, NEW q \in Sendable(p, l)
    PROVE  q \in Nat /\ Spent(p, l, q) \in Nat
<1>1. q \in Nat
  BY LineAssumption DEF Sendable
<1>2. Price[l] \in Nat /\ tally[p].running \in Nat
  BY LineAssumption DEF LocalType
<1>3. q * Price[l] \in Nat
  BY <1>1, <1>2
<1> QED BY <1>1, <1>2, <1>3 DEF Spent

\* What sending an order does to the types of the process that sends it.
LEMMA SentType ==
    ASSUME TypeOK, NEW p \in Proc, NEW l \in Line, NEW q, NEW status \in Status,
           NEW streak \in Nat, Sent(p, l, q, status, streak)
    PROVE  DayType' /\ StoreType' /\ LocalType' /\ q \in Nat
<1>1. q \in Nat /\ Spent(p, l, q) \in Nat
  BY SendableType DEF Sent, TypeOK
<1>2. tally' \in [Proc -> [running : Nat, streak : Nat, stop : BOOLEAN]]
  BY <1>1 DEF Sent, TypeOK, LocalType
<1>3. draft' \in [Proc -> [Key -> Status]]
  BY MarkType DEF Sent, TypeOK
<1>4. LocalType'
  BY <1>2, <1>3 DEF Sent, TypeOK, LocalType, env
<1> QED BY <1>1, <1>4 DEF Sent, TypeOK, DayType, StoreType, shared, redis, env

\* An order the broker takes is a known key with a natural quantity.
LEMMA AcceptType ==
    ASSUME BrokerType, NEW k \in Key, NEW q \in Nat, Accept(k, q), filled' = filled
    PROVE  BrokerType'
  BY DEF Accept, BrokerType

\* The steps of _place_lines, its commit included, keep the types.
LEMMA PlacingType ==
    ASSUME TypeOK, NEW p \in Proc, Placing(p)
    PROVE  TypeOK'
<1> USE DEF TypeOK, shared, redis, broker, env
<1>1. CASE OpenMissing(p)
  <2>1. draft' \in [Proc -> [Key -> Status]]
    BY <1>1, MarkType DEF OpenMissing, Status
  <2>2. LocalType'
    BY <1>1, <2>1 DEF OpenMissing, LocalType, Goto, States
  <2> QED BY <1>1, <2>2 DEF OpenMissing, DayType, StoreType, BrokerType
<1>2. ASSUME NEW view \in BalanceViews(p), CheckBalance(p, view) PROVE TypeOK'
  <2>1. draft' \in [Proc -> [Key -> Status]]
    BY <1>2, MarkType DEF CheckBalance, Status
  <2>2. todo' \in [Proc -> SUBSET Line]
    BY <1>2 DEF CheckBalance, LocalType
  <2>3. tally' \in [Proc -> [running : Nat, streak : Nat, stop : BOOLEAN]]
    BY <1>2 DEF CheckBalance, LocalType, Mismatch
  <2>4. pc' \in [Proc -> States]
    BY <1>2 DEF CheckBalance, LocalType, Goto, States
  <2>5. LocalType'
    BY <1>2, <2>1, <2>2, <2>3, <2>4 DEF CheckBalance, LocalType, Goto
  <2> QED BY <1>2, <2>5 DEF CheckBalance, DayType, StoreType, BrokerType
<1>3. ASSUME NEW l \in todo[p], PlaceSkip(p, l) PROVE TypeOK'
  BY <1>3 DEF PlaceSkip, LocalType, DayType, StoreType, BrokerType
<1>4. ASSUME NEW l \in todo[p], NEW q \in Sendable(p, l),
             \/ PlaceAccepted(p, l, q) \/ PlaceLostAck(p, l, q)
             \/ \E s \in {"failed", "failed_rate"} : PlaceRejected(p, l, q, s)
      PROVE  TypeOK'
  <2>1. l \in Line /\ tally[p].streak + 1 \in Nat /\ {"submitted", "failed", "failed_rate"} \subseteq Status
    BY DEF LocalType, Status
  <2>2. <<batch[p], l>> \in Key
    <3>1. pc[p] = "place"
      BY <1>4 DEF PlaceAccepted, PlaceLostAck, PlaceRejected, Sent
    <3>2. batch[p] \in Batch
      BY <3>1, ProcAssumption DEF LocalType, DayType, Batch
    <3> QED BY <3>2, <2>1 DEF Key
  <2>3. CASE PlaceAccepted(p, l, q)
    BY <2>1, <2>2, <2>3, SentType, AcceptType DEF PlaceAccepted, Sent
  <2>4. CASE PlaceLostAck(p, l, q)
    BY <2>1, <2>2, <2>4, SentType, AcceptType DEF PlaceLostAck, Sent
  <2>5. ASSUME NEW s \in {"failed", "failed_rate"}, PlaceRejected(p, l, q, s) PROVE TypeOK'
    BY <2>1, <2>5, SentType DEF PlaceRejected, Sent, BrokerType
  <2> QED BY <1>4, <2>3, <2>4, <2>5
<1>5. CASE Commit(p)
  <2>1. pf' \in PfState
    BY <1>5 DEF Commit, LocalType, PfState, Notes
  <2>2. row' \in [Key -> Status]
    BY <1>5 DEF Commit, LocalType, StoreType, Flushed
  <2>3. LocalType'
    BY <1>5, LeaveType DEF Commit, AfterRun, DayType
  <2> QED BY <1>5, <2>1, <2>2, <2>3 DEF Commit, DayType, StoreType, BrokerType
<1> QED BY <1>1, <1>2, <1>3, <1>4, <1>5 DEF Placing

\* Reading the rows to retry keeps the types.
LEMMA ReadRowsType ==
    ASSUME TypeOK, NEW p \in Proc, NEW state \in PfState, NEW now \in Pre..Closed,
           NEW lines \in SUBSET Line, ReadRows(p, state, now, lines)
    PROVE  TypeOK'
<1>1. LocalType'
  BY DEF ReadRows, TypeOK, LocalType, Goto, States, AllRequests
<1> QED BY <1>1 DEF ReadRows, TypeOK, DayType, StoreType, BrokerType,
                    shared, redis, broker, env

\* The lock of a retry and its new rows keep the types.
LEMMA RetryingType ==
    ASSUME TypeOK, NEW p \in Proc, Retrying(p)
    PROVE  TypeOK'
<1> USE DEF TypeOK, shared, redis, broker, env, DayType, StoreType, BrokerType
<1>1. CASE RetryLocked(p)
  BY <1>1, LeaveType DEF RetryLocked
<1>2. CASE RetryStart(p)
  <2>0. retryLock' \in BOOLEAN
    BY <1>2 DEF RetryStart, AcquireRetryLock
  <2>1. DayType' /\ StoreType' /\ BrokerType'
    BY <1>2, <2>0, ProcAssumption DEF RetryStart, NewRows
  <2>2. /\ UNCHANGED <<op, at, seen, allowed, todo>> /\ NewRows(p, todo[p])
        /\ LocalType /\ DayType
    BY <1>2 DEF RetryStart
  <2>3. LocalType'
    BY <2>2, NewRowsType DEF LocalType
  <2> QED BY <2>1, <2>3
<1> QED BY <1>1, <1>2 DEF Retrying

\* The watchdog's steps after the run keep the types.
LEMMA WatchingType ==
    ASSUME TypeOK, NEW w \in Worker, Watching(w)
    PROVE  TypeOK'
<1> w \in Proc
  BY DEF Proc
<1> USE DEF TypeOK, shared, redis, broker, env, DayType, StoreType, BrokerType
<1>1. CASE WatchReload(w)
  BY <1>1 DEF WatchReload, LocalType, Goto, States
<1>2. CASE WatchRetry(w)
  <2>1. seen[w] \in PfState /\ at[w] \in Pre..Closed /\ LinesIn(Transient, flags) \in SUBSET Line
    BY DEF LocalType, LinesIn
  <2> QED BY <1>2, <2>1, ReadRowsType DEF WatchRetry
<1>3. CASE WatchIdle(w)
  BY <1>3, LeaveType DEF WatchIdle
<1> QED BY <1>1, <1>2, <1>3 DEF Watching

\* A cancel only takes orders away and marks rows with a status.
LEMMA CancelType ==
    ASSUME TypeOK, NEW u \in Proc, NEW ks, CancelAtBroker(u, ks),
           accepted' = accepted, oqty' = oqty, filled' = filled
    PROVE  BrokerType' /\ draft' \in [Proc -> [Key -> Status]]
<1>1. BrokerType'
  BY DEF CancelAtBroker, TypeOK, BrokerType
<1>2. draft' \in [Proc -> [Key -> Status]]
  BY DEF CancelAtBroker, TypeOK, LocalType, Status
<1> QED BY <1>1, <1>2

\* A request that has begun: what remains is draft, live orders and flags.
LEMMA BeginType ==
    ASSUME TypeOK, NEW u \in Proc, NEW name \in AllRequests, Begin(u, name),
           BrokerType', draft' \in [Proc -> [Key -> Status]],
           allowed' \in [Proc -> [Side -> BOOLEAN]]
    PROVE  TypeOK'
<1>1. LocalType'
  BY DEF Begin, TypeOK, LocalType, StoreType, Goto, States
<1> QED BY <1>1 DEF Begin, TypeOK, DayType, StoreType, shared, redis, env

\* What executions make of a row is a status.
LEMMA SyncedType == ASSUME NEW k PROVE Synced(k) \in Status
  BY DEF Synced, Status

\* The requests of the user keep the types.
LEMMA RequestingType ==
    ASSUME TypeOK, NEW u \in User, Requesting(u)
    PROVE  TypeOK'
<1> u \in Proc
  BY DEF Proc
<1>t. /\ DayType /\ StoreType /\ BrokerType /\ LocalType
      /\ {"retry", "reorder", "skip", "unskip", "resume", "flag", "cancel", "sync"}
           \subseteq AllRequests
  BY DEF TypeOK, AllRequests
<1>0. ASSUME live' = live, draft' = draft, allowed' = allowed,
             accepted' = accepted, oqty' = oqty, filled' = filled
      PROVE  /\ BrokerType' /\ draft' \in [Proc -> [Key -> Status]]
             /\ allowed' \in [Proc -> [Side -> BOOLEAN]]
  BY <1>0, <1>t DEF BrokerType, LocalType
<1>1. CASE RetryRequest(u)
  BY <1>1, <1>t, ReadRowsType DEF RetryRequest, LinesIn, DayType, StoreType
<1>2. ASSUME NEW l \in Line, ReorderRequest(u, l) PROVE TypeOK'
  BY <1>2, <1>t, ReadRowsType DEF ReorderRequest, LinesIn, DayType, StoreType
<1>3. CASE SkipRequest(u)
  <2>1. allowed' \in [Proc -> [Side -> BOOLEAN]]
    BY <1>3, <1>t DEF SkipRequest, LocalType
  <2> QED BY <1>3, <2>1, <1>t, CancelType, BeginType DEF SkipRequest, Begin
<1>4. CASE UnskipRequest(u)
  BY <1>4, <1>0, <1>t, BeginType DEF UnskipRequest, Begin
<1>5. CASE ResumeRequest(u)
  BY <1>5, <1>0, <1>t, BeginType DEF ResumeRequest, Begin
<1>6. ASSUME NEW new \in [Side -> BOOLEAN], FlagRequest(u, new) PROVE TypeOK'
  <2>1. allowed' \in [Proc -> [Side -> BOOLEAN]]
    BY <1>6, <1>t DEF FlagRequest, LocalType
  <2> QED BY <1>6, <2>1, <1>t, CancelType, BeginType DEF FlagRequest, Begin
<1>7. ASSUME NEW k \in Key, CancelRequest(u, k) PROVE TypeOK'
  <2>1. StoreType' /\ DayType'
    BY <1>7, <1>t, SyncedType DEF CancelRequest, StoreType, DayType, redis, env
  <2>2. BrokerType'
    BY <1>7, <1>t DEF CancelRequest, BrokerType
  <2>3. LocalType'
    <3>1. CASE Synced(k) \in LiveStatus /\ k \in live
      <4>1. /\ draft' = [draft EXCEPT ![u] = [draft[u] EXCEPT ![k] = "cancelled"]]
            /\ op' = [op EXCEPT ![u] = "cancel"] /\ pc' = [pc EXCEPT ![u] = "writing"]
            /\ UNCHANGED <<nbatch, at, seen, allowed, batch, todo, tally>>
        BY <1>7, <3>1 DEF CancelRequest, Goto
      <4>2. [draft[u] EXCEPT ![k] = "cancelled"] \in [Key -> Status]
        BY <1>t DEF LocalType, Status
      <4>3. draft' \in [Proc -> [Key -> Status]]
        BY <4>1, <4>2, <1>t DEF LocalType
      <4> QED BY <4>1, <4>3, <1>t DEF LocalType, States
    <3>2. CASE ~(Synced(k) \in LiveStatus /\ k \in live)
      BY <1>7, <3>2, <1>t DEF CancelRequest, LocalType, Goto, States
    <3> QED BY <3>1, <3>2
  <2> QED BY <2>1, <2>2, <2>3 DEF TypeOK
<1>8. CASE SyncRequest(u)
  <2>1. draft' \in [Proc -> [Key -> Status]]
    BY <1>8, <1>t, SyncedType DEF SyncRequest, LocalType
  <2>2. BrokerType' /\ allowed' \in [Proc -> [Side -> BOOLEAN]]
    BY <1>8, <1>t DEF SyncRequest, Begin, BrokerType, LocalType
  <2> QED BY <1>8, <2>1, <2>2, <1>t, BeginType DEF SyncRequest
<1>9. CASE Import(u)
  <2>1. imported' \in [Key -> Nat]
    BY <1>9, <1>t DEF Import, StoreType, BrokerType
  <2>2. LocalType'
    BY <1>9, <1>t DEF Import, LocalType, Goto, States
  <2> QED BY <1>9, <2>1, <2>2, <1>t
          DEF Import, TypeOK, DayType, StoreType, BrokerType, redis, broker, env
<1>10. CASE UserCommit(u)
  <2>1. pf' \in PfState
    BY <1>10, <1>t DEF UserCommit, StoreType, LocalType, PfState
  <2>2. row' \in [Key -> Status]
    BY <1>10, <1>t DEF UserCommit, Flushed, StoreType, LocalType
  <2>3. flags' \in [Side -> BOOLEAN]
    BY <1>10, <1>t DEF UserCommit, StoreType, LocalType
  <2>4. LocalType'
    BY <1>10, <1>t, LeaveType DEF UserCommit, DayType
  <2> QED BY <1>10, <2>1, <2>2, <2>3, <2>4, <1>t
          DEF UserCommit, TypeOK, DayType, StoreType, BrokerType, redis, broker, env
<1> QED BY <1>1, <1>2, <1>3, <1>4, <1>5, <1>6, <1>7, <1>8, <1>9, <1>10 DEF Requesting

\* The clock, the 08:45 balance, executions and the retry lock's end keep the types.
LEMMA EnvironmentType ==
    ASSUME TypeOK,
           \/ Tick \/ Prefetch \/ ExpireRetryLock
           \/ \E k \in Key : Fill(k)
           \/ \E p \in Proc : Crash(p)
    PROVE  TypeOK'
<1> USE DEF TypeOK, shared, redis, broker, env, local
<1>1. CASE Tick
  <2>1. phase' \in Pre..Closed /\ live' \subseteq accepted'
    BY <1>1 DEF Tick, DayType, BrokerType, Pre, Closed
  <2> QED BY <1>1, <2>1 DEF Tick, DayType, StoreType, BrokerType, LocalType
<1>2. CASE Prefetch
  BY <1>2 DEF Prefetch, DayType, StoreType, BrokerType, LocalType
<1>3. CASE ExpireRetryLock
  BY <1>3 DEF ExpireRetryLock, DayType, StoreType, BrokerType, LocalType
<1>4. ASSUME NEW k \in Key, Fill(k) PROVE TypeOK'
  <2>1. BrokerType'
    BY <1>4 DEF Fill, BrokerType
  <2> QED BY <1>4, <2>1 DEF Fill, DayType, StoreType, LocalType
<1>5. ASSUME NEW p \in Proc, Crash(p) PROVE TypeOK'
  BY <1>5, LeaveType DEF Crash, DayType, StoreType, BrokerType
<1> QED BY <1>1, <1>2, <1>3, <1>4, <1>5

\* Every step keeps the types: all actions together.
LEMMA StepType == TypeOK /\ [Next]_vars => TypeOK'
<1> SUFFICES ASSUME TypeOK, [Next]_vars PROVE TypeOK'
  OBVIOUS
<1>1. CASE UNCHANGED vars
  BY <1>1 DEF vars, TypeOK, DayType, StoreType, BrokerType, LocalType,
              shared, redis, broker, env, local
<1>2. ASSUME NEW w \in Worker, WorkerStep(w) PROVE TypeOK'
  BY <1>2, RunningType, WatchingType, RetryingType, PlacingType DEF WorkerStep, Proc
<1>3. ASSUME NEW u \in User, UserStep(u) PROVE TypeOK'
  BY <1>3, RequestingType, RetryingType, PlacingType DEF UserStep, Proc
<1> QED BY <1>1, <1>2, <1>3, EnvironmentType DEF Next

\* Type correctness for every sheet, every number of processes and every set
\* of faults: rows, orders and sessions only name batches that were created.
THEOREM TypeCorrect == Spec => []TypeOK
  BY InitType, StepType, PTL DEF Spec

\* The cap only takes away: what may be sent never exceeds the plan.
LEMMA SendableWithinPlan ==
    ASSUME LocalType, NEW p \in Proc, NEW l \in Line, NEW q \in Sendable(p, l)
    PROVE  q <= PlanQty[l]
<1>1. PlanQty[l] \in Nat /\ Price[l] \in Nat \ {0} /\ Cap \in Nat
  BY LineAssumption
<1>2. CASE l \notin Buys
  BY <1>1, <1>2 DEF Sendable
<1>3. CASE l \in Buys
  <2> DEFINE left == (Cap - tally[p].running) \div Price[l]
  <2>1. left \in Int
    BY <1>1 DEF LocalType
  <2>2. Min({PlanQty[l], left}) \in Int /\ Min({PlanQty[l], left}) <= PlanQty[l]
    <3> HIDE DEF left
    <3>1. \E x \in {PlanQty[l], left} : \A y \in {PlanQty[l], left} : x <= y
      BY <1>1, <2>1
    <3>2. /\ Min({PlanQty[l], left}) \in {PlanQty[l], left}
          /\ \A y \in {PlanQty[l], left} : Min({PlanQty[l], left}) <= y
      BY <3>1 DEF Min
    <3> QED BY <3>2, <1>1, <2>1
  <2>3. Room(p, l) \in Int /\ Room(p, l) <= PlanQty[l]
    BY <1>1, <2>2 DEF Room
  <2> QED BY <1>1, <1>3, <2>3 DEF Sendable
<1> QED BY <1>2, <1>3

-----------------------------------------------------------------------------
(* What a step does to rows and orders, whoever takes it. *)

\* Statuses that let a line be sent again.
Again == IF "reorder" \in Requests THEN Reorderable ELSE Retryable

Busy == {"open", "place"}
Writing == Busy \cup {"writing"}

\* Every other process stays as it is.
Alone(p) == \A r \in Proc \ {p} :
    /\ pc'[r] = pc[r] /\ op'[r] = op[r] /\ batch'[r] = batch[r]
    /\ draft'[r] = draft[r] /\ todo'[r] = todo[r] /\ tally'[r] = tally[r]

\* p gets on with something that touches neither rows nor orders.
Rest(p) ==
    /\ Alone(p) /\ pc[p] \notin Writing
    /\ pc'[p] \notin Writing \cup {"plan", "locking"}
    /\ draft'[p] \in {NoDraft, draft[p]} /\ tally'[p] \in {NoTally, tally[p]}
    /\ UNCHANGED <<phase, row, dayLock, retryLock, broker, nbatch>>

\* p read the rows of lines that may be sent again.
Read(p) ==
    /\ Alone(p) /\ pc[p] \notin Writing
    /\ pc'[p] = "locking" /\ op'[p] = "retry"
    /\ draft'[p] = draft[p] /\ tally'[p] = tally[p]
    /\ todo'[p] # {} /\ todo'[p] \subseteq {l \in Line : LatestStatus(l) \in Again}
    /\ UNCHANGED <<phase, row, dayLock, retryLock, broker, nbatch>>

\* p gets a batch of its own, one row for each of `lines`.
Opened(p, lines) ==
    /\ Alone(p) /\ pc[p] \in {"plan", "locking"} /\ pc'[p] = "open" /\ op'[p] = op[p]
    /\ nbatch' = nbatch + 1 /\ batch'[p] = nbatch + 1
    /\ draft'[p] = [k \in Key |-> IF k[1] = nbatch + 1 /\ k[2] \in lines THEN "skipped" ELSE draft[p][k]]
    /\ tally'[p].running = tally[p].running
    /\ todo'[p] \subseteq lines
    /\ UNCHANGED <<phase, row, dayLock, broker>>

\* p marks lines of its batch that it will not send, or could not.
Dropped(p) ==
    /\ Alone(p) /\ pc[p] \in Busy /\ pc'[p] = "place" /\ op'[p] = op[p] /\ batch'[p] = batch[p]
    /\ todo'[p] \subseteq todo[p]
    /\ \E lines \in SUBSET todo[p], status \in Status \ (LiveStatus \cup {"none"}) :
          draft'[p] = [k \in Key |-> IF k[1] = batch[p] /\ k[2] \in lines THEN status ELSE draft[p][k]]
    /\ UNCHANGED <<phase, row, dayLock, retryLock, broker, nbatch>>
    /\ \/ tally'[p].running = tally[p].running
       \/ \E l \in todo[p] : \E q \in Sendable(p, l) : tally'[p].running = Spent(p, l, q)

\* An order for q of line l goes out.
Ordered(p, l, q) ==
    /\ Alone(p) /\ pc[p] = "place" /\ pc'[p] = "place" /\ op'[p] = op[p] /\ batch'[p] = batch[p]
    /\ l \in todo[p] /\ q \in Sendable(p, l) /\ phase < Closed
    /\ todo'[p] = todo[p] \ {l}
    /\ tally'[p].running = Spent(p, l, q)
    /\ \E status \in {"submitted"} \cup (IF "lost_ack" \in Faults THEN {"failed"} ELSE {}) :
          draft'[p] = [k \in Key |-> IF k[1] = batch[p] /\ k[2] = l THEN status ELSE draft[p][k]]
    /\ accepted' = accepted \cup {<<batch[p], l>>}
    /\ live' = live \cup {<<batch[p], l>>}
    /\ oqty' = [oqty EXCEPT ![<<batch[p], l>>] = @ + q]
    /\ UNCHANGED <<phase, row, dayLock, retryLock, filled, nbatch>>

\* p commits.
Written(p) ==
    /\ Alone(p) /\ pc[p] \in Writing /\ pc'[p] \in {"judged", "done"}
    /\ row' = Flushed(p)
    /\ draft'[p] = NoDraft /\ tally'[p] = NoTally
    /\ UNCHANGED <<phase, dayLock, retryLock, broker, nbatch>>

\* A request of the user: rows of live orders are brought up to date, and live
\* orders may be cancelled.
Asked(u) ==
    /\ u \in User /\ Alone(u) /\ pc[u] = "new" /\ pc'[u] \in {"writing", "done"}
    /\ batch'[u] = batch[u] /\ todo'[u] = todo[u] /\ tally'[u] = tally[u]
    /\ live' \subseteq live
    /\ \A k \in Key :
          /\ \/ row'[k] = row[k]
             \/ row[k] \in LiveStatus /\ row'[k] = Synced(k)
          /\ \/ draft'[u][k] = draft[u][k]
             \/ row[k] \in LiveStatus /\ draft'[u][k] = Synced(k)
             \/ row[k] \in LiveStatus /\ draft'[u][k] = "cancelled" /\ k \in live \ live'
    /\ pc'[u] = "done" => draft'[u] = draft[u]
    /\ row' \in [Key -> Status]
    /\ UNCHANGED <<phase, dayLock, retryLock, accepted, oqty, filled, nbatch>>

\* A process dies in the middle of its work.
Died(p) ==
    /\ "crash" \in Faults /\ Alone(p) /\ pc'[p] = "done"
    /\ draft'[p] = NoDraft /\ tally'[p] = NoTally
    /\ UNCHANGED <<phase, row, dayLock, retryLock, broker, nbatch>>

Still == UNCHANGED <<phase, row, dayLock, retryLock, broker, nbatch, local>>
SheetOpened(w) == w \in Worker /\ pc[w] = "plan" /\ Opened(w, Line) /\ retryLock' = retryLock
RetryOpened(p) == pc[p] = "locking" /\ Opened(p, todo[p]) /\ todo'[p] = todo[p] /\ AcquireRetryLock
Kind(p) ==
    \/ Rest(p) \/ Read(p) \/ Dropped(p) \/ Written(p) \/ Died(p)
    \/ SheetOpened(p) \/ RetryOpened(p) \/ Asked(p)
    \/ (p \in Worker /\ EnterExecute(p))
    \/ \E l \in todo[p] : \E q \in Sendable(p, l) : Ordered(p, l, q)

\* What p's session keeps: the types the next lemmas use.
LEMMA LocalFacts ==
    ASSUME TypeOK
    PROVE  /\ pc \in [Proc -> States] /\ batch \in [Proc -> 0..nbatch]
           /\ op \in [Proc -> {"run", "idle"} \cup AllRequests]
           /\ draft \in [Proc -> [Key -> Status]] /\ todo \in [Proc -> SUBSET Line]
           /\ tally \in [Proc -> [running : Nat, streak : Nat, stop : BOOLEAN]]
  BY DEF TypeOK, LocalType

\* Who leaves drops his session and disturbs nobody.
LEMMA LeaveAlone ==
    ASSUME TypeOK, NEW p \in Proc, NEW label, Leave(p, label)
    PROVE  /\ Alone(p) /\ pc'[p] = label
           /\ draft'[p] = NoDraft /\ tally'[p] = NoTally
  BY LocalFacts DEF Leave, Goto, Alone

\* Who leaves without having placed or written anything rests.
LEMMA LeaveRests ==
    ASSUME TypeOK, NEW p \in Proc, NEW label \in {"judged", "done"}, Leave(p, label),
           pc[p] \notin Writing, UNCHANGED <<phase, row, dayLock, retryLock, broker, nbatch>>
    PROVE  Rest(p)
  BY LeaveAlone DEF Rest, Writing, Busy

\* The steps of the run before it places: most rest, one takes the day lock, one opens the batch.
LEMMA RunningKind ==
    ASSUME TypeOK, NEW w \in Worker, Running(w)
    PROVE  Kind(w)
<1> w \in Proc
  BY DEF Proc
<1> AfterRun(w) \in {"judged", "done"}
  BY DEF AfterRun
<1> USE DEF shared, redis
<1>1. CASE Load(w)
  <2>1. Alone(w) /\ pc'[w] = "loaded" /\ draft'[w] = draft[w] /\ tally'[w] = tally[w]
    BY <1>1, LocalFacts DEF Load, Goto, Alone
  <2>2. Rest(w)
    BY <1>1, <2>1 DEF Load, Rest, Writing, Busy
  <2> QED BY <2>2 DEF Kind
<1>2. CASE EnterAlreadyRan(w)
  BY <1>2, LeaveRests DEF EnterAlreadyRan, Writing, Busy, Kind
<1>3. CASE EnterLate(w)
  BY <1>3, LeaveRests DEF EnterLate, Writing, Busy, Kind
<1>4. CASE EnterLocked(w)
  BY <1>4, LeaveRests DEF EnterLocked, Writing, Busy, Kind
<1>5. CASE EnterExecute(w)
  BY <1>5 DEF Kind
<1>6. CASE PlanError(w)
  BY <1>6, LeaveRests DEF PlanError, Writing, Busy, Kind
<1>7. ASSUME NEW o \in PlanOutcomes, PlanFinish(w, o) PROVE Kind(w)
  BY <1>7, LeaveRests DEF PlanFinish, Writing, Busy, Kind
<1>8. ASSUME NEW o \in PlanOutcomes, PlanGo(w, o) PROVE Kind(w)
  <2>1. Alone(w) /\ pc[w] = "plan" /\ pc'[w] = "open" /\ op'[w] = op[w]
    BY <1>8, LocalFacts DEF PlanGo, NewRows, Goto, Alone
  <2>2. /\ nbatch' = nbatch + 1 /\ batch'[w] = nbatch + 1 /\ todo'[w] \subseteq Line
        /\ tally'[w].running = tally[w].running
        /\ draft'[w] = [k \in Key |-> IF k[1] = nbatch + 1 /\ k[2] \in Line THEN "skipped" ELSE draft[w][k]]
    BY <1>8, LocalFacts DEF PlanGo, NewRows
  <2>3. SheetOpened(w)
    BY <1>8, <2>1, <2>2 DEF PlanGo, SheetOpened, Opened
  <2> QED BY <2>3 DEF Kind
<1> QED BY <1>1, <1>2, <1>3, <1>4, <1>5, <1>6, <1>7, <1>8 DEF Running

\* Reading the rows to retry.
LEMMA ReadRowsKind ==
    ASSUME TypeOK, NEW p \in Proc, NEW state, NEW now, NEW lines,
           pc[p] \notin Writing, lines \subseteq {l \in Line : LatestStatus(l) \in Again},
           ReadRows(p, state, now, lines)
    PROVE  Kind(p)
<1>1. /\ Alone(p) /\ pc'[p] = "locking" /\ op'[p] = "retry"
      /\ draft'[p] = draft[p] /\ tally'[p] = tally[p] /\ todo'[p] = lines
  BY LocalFacts DEF ReadRows, Goto, Alone
<1>2. Read(p)
  BY <1>1 DEF ReadRows, Read, shared, redis
<1> QED BY <1>2 DEF Kind

\* The watchdog's second job reads rows or rests.
LEMMA WatchingKind ==
    ASSUME TypeOK, NEW w \in Worker, Watching(w)
    PROVE  Kind(w)
<1> w \in Proc
  BY DEF Proc
<1>1. CASE WatchReload(w)
  <2>1. Alone(w) /\ pc'[w] = "asked" /\ draft'[w] = draft[w] /\ tally'[w] = tally[w]
    BY <1>1, LocalFacts DEF WatchReload, Goto, Alone
  <2>2. Rest(w)
    BY <1>1, <2>1 DEF WatchReload, Rest, Writing, Busy, shared, redis
  <2> QED BY <2>2 DEF Kind
<1>2. CASE WatchRetry(w)
  <2>1. LinesIn(Transient, flags) \subseteq {l \in Line : LatestStatus(l) \in Again}
    BY DEF LinesIn, Transient, Again, Reorderable, Retryable
  <2> QED BY <1>2, <2>1, ReadRowsKind DEF WatchRetry, Writing, Busy
<1>3. CASE WatchIdle(w)
  BY <1>3, LeaveRests DEF WatchIdle, Writing, Busy, Kind, shared, redis
<1> QED BY <1>1, <1>2, <1>3 DEF Watching

\* A retry finds the lock taken and rests, or opens a batch of the lines it read.
LEMMA RetryingKind ==
    ASSUME TypeOK, NEW p \in Proc, Retrying(p)
    PROVE  Kind(p)
<1> USE DEF shared, redis
<1>1. CASE RetryLocked(p)
  BY <1>1, LeaveRests DEF RetryLocked, Writing, Busy, Kind
<1>2. CASE RetryStart(p)
  <2>1. Alone(p) /\ pc[p] = "locking" /\ pc'[p] = "open" /\ op'[p] = op[p]
    BY <1>2, LocalFacts DEF RetryStart, NewRows, Goto, Alone
  <2>2. /\ nbatch' = nbatch + 1 /\ batch'[p] = nbatch + 1 /\ todo'[p] = todo[p]
        /\ tally'[p].running = tally[p].running
        /\ draft'[p] = [k \in Key |-> IF k[1] = nbatch + 1 /\ k[2] \in todo[p] THEN "skipped" ELSE draft[p][k]]
    BY <1>2, LocalFacts DEF RetryStart, NewRows
  <2>3. RetryOpened(p)
    BY <1>2, <2>1, <2>2 DEF RetryStart, RetryOpened, Opened
  <2> QED BY <2>3 DEF Kind
<1> QED BY <1>1, <1>2 DEF Retrying

\* Whatever marks lines of p's batch without ordering them is one kind of step.
LEMMA DroppedKind ==
    ASSUME TypeOK, NEW p \in Proc, pc[p] \in Busy, pc' = [pc EXCEPT ![p] = "place"],
           NEW rest \in SUBSET todo[p], todo' = [todo EXCEPT ![p] = rest],
           NEW lines \in SUBSET todo[p], NEW status \in Status \ (LiveStatus \cup {"none"}),
           Mark(p, lines, status),
           \A r \in Proc \ {p} : tally'[r] = tally[r],
           \/ tally'[p].running = tally[p].running
           \/ \E l \in todo[p] : \E q \in Sendable(p, l) : tally'[p].running = Spent(p, l, q),
           UNCHANGED <<phase, row, dayLock, retryLock, broker, nbatch, op, batch>>
    PROVE  Kind(p)
<1>1. Alone(p) /\ pc'[p] = "place" /\ todo'[p] = rest
  BY LocalFacts DEF Mark, Alone
<1>2. draft'[p] = [k \in Key |-> IF k[1] = batch[p] /\ k[2] \in lines THEN status ELSE draft[p][k]]
  BY LocalFacts DEF Mark
<1>3. Dropped(p)
  BY <1>1, <1>2 DEF Dropped
<1> QED BY <1>3 DEF Kind

\* An order that reaches the broker, acknowledged or not.
LEMMA OrderedKind ==
    ASSUME TypeOK, NEW p \in Proc, NEW l \in todo[p], NEW q \in Sendable(p, l), NEW status, NEW streak,
           status = "submitted" \/ (status = "failed" /\ "lost_ack" \in Faults),
           Sent(p, l, q, status, streak), Accept(<<batch[p], l>>, q)
    PROVE  Kind(p)
<1>1. Alone(p) /\ todo'[p] = todo[p] \ {l} /\ tally'[p].running = Spent(p, l, q)
  BY LocalFacts DEF Sent, Mark, Alone
<1>2. draft'[p] = [k \in Key |-> IF k[1] = batch[p] /\ k[2] = l THEN status ELSE draft[p][k]]
  BY LocalFacts DEF Sent, Mark
<1>3. /\ UNCHANGED <<phase, row, dayLock, retryLock, filled, nbatch, pc, op, batch>>
      /\ pc[p] = "place"
  BY DEF Sent, shared, redis
<1>4. status \in {"submitted"} \cup (IF "lost_ack" \in Faults THEN {"failed"} ELSE {})
  OBVIOUS
<1>5. Ordered(p, l, q)
  BY <1>1, <1>2, <1>3, <1>4 DEF Accept, Ordered
<1> QED BY <1>5 DEF Kind

\* The steps of _place_lines drop lines, send an order or commit.
LEMMA PlacingKind ==
    ASSUME TypeOK, NEW p \in Proc, Placing(p)
    PROVE  Kind(p)
<1> USE DEF shared, redis
<1>s. {"skipped_api", "skipped_gap", "failed", "failed_rate"} \subseteq Status \ (LiveStatus \cup {"none"})
  BY DEF Status, LiveStatus
<1>1. CASE OpenMissing(p)
  BY <1>1, <1>s, DroppedKind DEF OpenMissing, Goto, Busy
<1>2. ASSUME NEW view \in BalanceViews(p), CheckBalance(p, view) PROVE Kind(p)
  <2> DEFINE dropped == IF gap THEN todo[p] \cap GapLines ELSE {}
             keep == todo[p] \ dropped
             short == {l \in keep \ Buys : PlanQty[l] > Held(Code[l], view)}
  <2>1. PICK clash : /\ todo' = [todo EXCEPT ![p] = IF clash THEN {} ELSE keep \ short]
                     /\ tally' = [tally EXCEPT ![p].stop = clash]
    BY <1>2 DEF CheckBalance
  <2>2. /\ pc[p] \in Busy /\ pc' = [pc EXCEPT ![p] = "place"] /\ Mark(p, dropped, "skipped_gap")
        /\ UNCHANGED <<phase, row, dayLock, retryLock, broker, nbatch, op, batch>>
    BY <1>2 DEF CheckBalance, Goto, Busy
  <2>3. dropped \in SUBSET todo[p] /\ keep \ short \in SUBSET todo[p]
    OBVIOUS
  <2>4. /\ \A r \in Proc \ {p} : tally'[r] = tally[r]
        /\ tally'[p].running = tally[p].running
    BY <2>1, LocalFacts
  <2>5. PICK rest \in SUBSET todo[p] : todo' = [todo EXCEPT ![p] = rest]
    BY <2>1, <2>3
  <2> HIDE DEF dropped
  <2> QED BY <1>s, <2>2, <2>3, <2>4, <2>5, DroppedKind
<1>3. ASSUME NEW l \in todo[p], PlaceSkip(p, l) PROVE Kind(p)
  <2>1. Mark(p, {}, "failed")
    <3>1. draft = [draft EXCEPT ![p] = [k \in Key |-> draft[p][k]]]
      BY LocalFacts
    <3> QED BY <1>3, <3>1 DEF Mark, PlaceSkip
  <2>2. pc' = [pc EXCEPT ![p] = "place"]
    BY <1>3, LocalFacts DEF PlaceSkip
  <2>3. {} \in SUBSET todo[p] /\ todo[p] \ {l} \in SUBSET todo[p] /\ todo' = [todo EXCEPT ![p] = todo[p] \ {l}]
    BY <1>3 DEF PlaceSkip
  <2> QED BY <1>3, <1>s, <2>1, <2>2, <2>3, DroppedKind DEF PlaceSkip, Busy
<1>4. ASSUME NEW l \in todo[p], NEW q \in Sendable(p, l), PlaceAccepted(p, l, q) \/ PlaceLostAck(p, l, q)
      PROVE  Kind(p)
  BY <1>4, OrderedKind DEF PlaceAccepted, PlaceLostAck
<1>5. ASSUME NEW l \in todo[p], NEW q \in Sendable(p, l), NEW s, PlaceRejected(p, l, q, s)
      PROVE  Kind(p)
  <2>1. /\ s \in {"failed", "failed_rate"} /\ Sent(p, l, q, s, tally[p].streak + 1)
        /\ UNCHANGED <<accepted, live, oqty>>
    BY <1>5 DEF PlaceRejected
  <2>2. /\ Mark(p, {l}, s) /\ pc[p] = "place" /\ pc' = pc /\ todo' = [todo EXCEPT ![p] = todo[p] \ {l}]
        /\ UNCHANGED <<phase, row, dayLock, retryLock, broker, nbatch, op, batch>>
    BY <2>1 DEF Sent, broker
  <2>3. /\ \A r \in Proc \ {p} : tally'[r] = tally[r]
        /\ tally'[p].running = Spent(p, l, q)
    BY <2>1, LocalFacts DEF Sent
  <2>4. pc' = [pc EXCEPT ![p] = "place"]
    BY <2>2, LocalFacts
  <2>5. {l} \in SUBSET todo[p] /\ todo[p] \ {l} \in SUBSET todo[p]
    OBVIOUS
  <2> QED BY <1>s, <2>1, <2>2, <2>3, <2>4, <2>5, DroppedKind DEF Busy
<1>6. CASE Commit(p)
  <2>1. Alone(p) /\ pc'[p] \in {"judged", "done"} /\ draft'[p] = NoDraft /\ tally'[p] = NoTally
    BY <1>6, LeaveAlone DEF Commit, AfterRun
  <2>2. Written(p)
    BY <1>6, <2>1 DEF Commit, Written, Writing, Busy
  <2> QED BY <2>2 DEF Kind
<1> QED BY <1>1, <1>2, <1>3, <1>4, <1>5, <1>6 DEF Placing

\* A request of the user reads rows, asks something of the broker, imports or commits.
LEMMA RequestingKind ==
    ASSUME TypeOK, NEW u \in User, Requesting(u)
    PROVE  Kind(u)
<1> USE DEF shared, redis
<1> u \in Proc
  BY DEF Proc
<1>n. "new" \notin Writing /\ Retryable \subseteq Again
  BY DEF Writing, Busy, Again, Reorderable
<1>b. ASSUME NEW name, Begin(u, name)
      PROVE  /\ pc[u] = "new" /\ pc'[u] = "writing"
             /\ batch'[u] = batch[u] /\ todo'[u] = todo[u] /\ tally'[u] = tally[u]
             /\ row' = row /\ row \in [Key -> Status]
             /\ UNCHANGED <<phase, dayLock, retryLock, accepted, oqty, filled, nbatch>>
             /\ (\A r \in Proc \ {u} : draft'[r] = draft[r]) => Alone(u)
  BY <1>b, LocalFacts DEF Begin, Goto, Alone, TypeOK, StoreType
<1>c. ASSUME NEW name, Begin(u, name), NEW ks, ks \subseteq LiveRows, CancelAtBroker(u, ks)
      PROVE  Kind(u)
  <2>1. PICK gone : /\ gone \subseteq ks \cap live /\ live' = live \ gone
                    /\ draft' = [draft EXCEPT ![u] = [k \in Key |-> IF k \in gone THEN "cancelled" ELSE @[k]]]
    BY <1>c DEF CancelAtBroker
  <2>2. \A r \in Proc \ {u} : draft'[r] = draft[r]
    BY <2>1, LocalFacts
  <2>3. ASSUME NEW k \in Key
        PROVE  \/ draft'[u][k] = draft[u][k]
               \/ row[k] \in LiveStatus /\ draft'[u][k] = "cancelled" /\ k \in live \ live'
    BY <1>c, <2>1, LocalFacts DEF LiveRows
  <2>4. Asked(u)
    BY <1>c, <1>b, <2>1, <2>2, <2>3 DEF Asked
  <2> QED BY <2>4 DEF Kind
<1>1. CASE RetryRequest(u)
  <2>1. LinesIn(Retryable, flags) \subseteq {l \in Line : LatestStatus(l) \in Again}
    BY <1>n DEF LinesIn
  <2> QED BY <1>1, <1>n, <2>1, ReadRowsKind DEF RetryRequest
<1>2. ASSUME NEW l \in Line, ReorderRequest(u, l) PROVE Kind(u)
  <2>1. LinesIn(Reorderable, flags) \cap {l} \subseteq {m \in Line : LatestStatus(m) \in Again}
    BY <1>2 DEF LinesIn, Again, ReorderRequest
  <2> QED BY <1>2, <1>n, <2>1, ReadRowsKind DEF ReorderRequest
<1>3. CASE SkipRequest(u)
  <2>1. (IF phase >= Early THEN LiveRows ELSE {}) \subseteq LiveRows
    OBVIOUS
  <2> QED BY <1>3, <1>c, <2>1 DEF SkipRequest
<1>4. ASSUME NEW new \in [Side -> BOOLEAN], FlagRequest(u, new) PROVE Kind(u)
  <2>1. {k \in LiveRows : flags[SideOf(k[2])] /\ ~new[SideOf(k[2])]} \subseteq LiveRows
    OBVIOUS
  <2> QED BY <1>4, <1>c, <2>1 DEF FlagRequest
<1>5. CASE UnskipRequest(u) \/ ResumeRequest(u)
  <2>1. UNCHANGED <<live, draft>> /\ (Begin(u, "unskip") \/ Begin(u, "resume"))
    BY <1>5 DEF UnskipRequest, ResumeRequest
  <2>2. Asked(u)
    BY <1>b, <2>1 DEF Asked
  <2> QED BY <2>2 DEF Kind
<1>6. CASE SyncRequest(u)
  <2>1. /\ Begin(u, "sync") /\ live' = live
        /\ draft' = [draft EXCEPT ![u] = [k \in Key |-> IF k \in LiveRows /\ Synced(k) # row[k] THEN Synced(k) ELSE @[k]]]
    BY <1>6 DEF SyncRequest
  <2>2. \A r \in Proc \ {u} : draft'[r] = draft[r]
    BY <2>1, LocalFacts
  <2>3. ASSUME NEW k \in Key
        PROVE  draft'[u][k] = draft[u][k] \/ (row[k] \in LiveStatus /\ draft'[u][k] = Synced(k))
    BY <2>1, LocalFacts DEF LiveRows
  <2>4. Asked(u)
    BY <1>b, <2>1, <2>2, <2>3 DEF Asked
  <2> QED BY <2>4 DEF Kind
<1>7. ASSUME NEW k \in Key, CancelRequest(u, k) PROVE Kind(u)
  <2>1. /\ pc[u] = "new" /\ row[k] \in LiveStatus /\ row' = [row EXCEPT ![k] = Synced(k)]
        /\ UNCHANGED <<phase, redis, accepted, oqty, filled, nbatch, batch, todo, tally>>
    BY <1>7 DEF CancelRequest
  <2>2. row \in [Key -> Status] /\ Synced(k) \in Status
    BY SyncedType DEF TypeOK, StoreType
  <2>3. row' \in [Key -> Status] /\ \A j \in Key : row'[j] = row[j] \/ (row[j] \in LiveStatus /\ row'[j] = Synced(j))
    BY <2>1, <2>2
  <2>4. CASE Synced(k) \in LiveStatus /\ k \in live
    <3>1. /\ live' = live \ {k} /\ draft' = [draft EXCEPT ![u][k] = "cancelled"]
          /\ op' = [op EXCEPT ![u] = "cancel"] /\ pc' = [pc EXCEPT ![u] = "writing"]
      BY <1>7, <2>4 DEF CancelRequest, Goto
    <3>2. Alone(u) /\ pc'[u] = "writing"
      BY <2>1, <3>1, LocalFacts DEF Alone
    <3>3. ASSUME NEW j \in Key
          PROVE  \/ draft'[u][j] = draft[u][j]
                 \/ row[j] \in LiveStatus /\ draft'[u][j] = "cancelled" /\ j \in live \ live'
      BY <2>1, <2>4, <3>1, LocalFacts
    <3>4. Asked(u)
      BY <2>1, <2>3, <3>1, <3>2, <3>3 DEF Asked
    <3> QED BY <3>4 DEF Kind
  <2>5. CASE ~(Synced(k) \in LiveStatus /\ k \in live)
    <3>1. pc' = [pc EXCEPT ![u] = "done"] /\ UNCHANGED <<live, draft, op>>
      BY <1>7, <2>5 DEF CancelRequest, Goto
    <3>2. Alone(u) /\ pc'[u] = "done"
      BY <2>1, <3>1, LocalFacts DEF Alone
    <3>3. Asked(u)
      BY <2>1, <2>3, <3>1, <3>2 DEF Asked
    <3> QED BY <3>3 DEF Kind
  <2> QED BY <2>4, <2>5
<1>8. CASE Import(u)
  <2>1. Alone(u) /\ pc[u] = "new" /\ pc'[u] = "done" /\ UNCHANGED <<phase, row, redis, broker, nbatch, draft, tally>>
    BY <1>8, LocalFacts DEF Import, Goto, Alone
  <2>2. Rest(u)
    BY <2>1 DEF Rest, Writing, Busy
  <2> QED BY <2>2 DEF Kind
<1>9. CASE UserCommit(u)
  <2>1. Alone(u) /\ pc'[u] = "done" /\ draft'[u] = NoDraft /\ tally'[u] = NoTally
    BY <1>9, LeaveAlone DEF UserCommit
  <2>2. Written(u)
    BY <1>9, <2>1 DEF UserCommit, Written, Writing
  <2> QED BY <2>2 DEF Kind
<1> QED BY <1>1, <1>2, <1>3, <1>4, <1>5, <1>6, <1>7, <1>8, <1>9 DEF Requesting

\* Every step of the day is of one of these kinds.
LEMMA StepKind ==
    ASSUME TypeOK, [Next]_vars
    PROVE  \/ Still \/ Tick \/ ExpireRetryLock
           \/ \E k \in Key : Fill(k)
           \/ \E p \in Proc : Kind(p)
<1>1. CASE UNCHANGED vars
  BY <1>1 DEF vars, shared, redis, Still
<1>2. CASE Prefetch
  BY <1>2 DEF Prefetch, shared, Still
<1>3. ASSUME NEW w \in Worker, WorkerStep(w) PROVE Kind(w) /\ w \in Proc
  BY <1>3, RunningKind, WatchingKind, RetryingKind, PlacingKind DEF WorkerStep, Proc
<1>4. ASSUME NEW u \in User, UserStep(u) PROVE Kind(u) /\ u \in Proc
  BY <1>4, RequestingKind, RetryingKind, PlacingKind DEF UserStep, Proc
<1>5. ASSUME NEW p \in Proc, Crash(p) PROVE Kind(p)
  <2>1. Alone(p) /\ pc'[p] = "done" /\ draft'[p] = NoDraft /\ tally'[p] = NoTally
    BY <1>5, LeaveAlone DEF Crash
  <2>2. Died(p)
    BY <1>5, <2>1 DEF Crash, Died, shared, redis
  <2> QED BY <2>2 DEF Kind
<1> QED BY <1>1, <1>2, <1>3, <1>4, <1>5 DEF Next

-----------------------------------------------------------------------------
(* Whose batch is whose, whatever fails. *)

\* What the cases below need of the types.
LEMMA OrderFacts ==
    ASSUME TypeOK
    PROVE  /\ nbatch \in Nat /\ accepted \subseteq Key /\ live \subseteq accepted
           /\ oqty \in [Key -> Nat] /\ filled \in [Key -> Nat] /\ row \in [Key -> Status]
           /\ \A k \in Key : k[1] \in Nat /\ k[2] \in Line
           /\ \A p \in Proc : pc[p] \in Busy => batch[p] \in Batch
  BY ProcAssumption DEF TypeOK, DayType, StoreType, BrokerType, LocalType, Key, Batch, Busy

\* A process that does not place, or no longer.
LEMMA AsideOrders ==
    ASSUME OrderInv, NEW p \in Proc, Alone(p), pc'[p] \notin Busy, UNCHANGED <<accepted, oqty, nbatch>>
    PROVE  OrderInv'
  BY DEF OrderInv, Alone, Busy

\* A new batch has no orders yet and belongs to nobody else.
LEMMA OpenedOrders ==
    ASSUME TypeOK, OrderInv, NEW p \in Proc, NEW lines, Opened(p, lines)
    PROVE  OrderInv'
<1> USE DEF Opened, broker
<1>1. ASSUME NEW v \in Proc, NEW w \in Proc,
             {pc'[v], pc'[w]} \subseteq {"open", "place"}, batch'[v] = batch'[w]
      PROVE  v = w
  <2>1. \A r \in Proc : r # p => batch'[r] # nbatch + 1
    BY OrderFacts, LocalFacts DEF Alone
  <2>2. CASE v = p \/ w = p
    BY <1>1, <2>1, <2>2
  <2>3. CASE v # p /\ w # p
    BY <1>1, <2>3 DEF OrderInv, Alone
  <2> QED BY <2>2, <2>3
<1>2. ASSUME NEW w \in Proc, pc'[w] \in {"open", "place"}, NEW l \in todo'[w]
      PROVE  <<batch'[w], l>> \notin accepted
  <2>1. CASE w = p
    BY <2>1, OrderFacts DEF OrderInv
  <2>2. CASE w # p
    BY <1>2, <2>2 DEF OrderInv, Alone
  <2> QED BY <2>1, <2>2
<1>3. \A k \in accepted : k[1] <= nbatch'
  BY OrderFacts DEF OrderInv
<1> QED BY <1>1, <1>2, <1>3 DEF OrderInv

\* Lines that are dropped leave the orders as they are.
LEMMA DroppedOrders ==
    ASSUME TypeOK, OrderInv, NEW p \in Proc, Dropped(p)
    PROVE  OrderInv'
  BY DEF OrderInv, Dropped, Alone, Busy, broker

\* The order that goes out is the first of its line in p's batch.
LEMMA OrderedNew ==
    ASSUME TypeOK, OrderInv, NEW p \in Proc, NEW l \in todo[p], NEW q \in Sendable(p, l), Ordered(p, l, q)
    PROVE  /\ <<batch[p], l>> \in Key \ accepted /\ l \in Line
           /\ q \in Nat /\ q <= PlanQty[l] /\ oqty[<<batch[p], l>>] = 0
           /\ oqty' = [oqty EXCEPT ![<<batch[p], l>>] = q]
<1>1. LocalType /\ pc[p] = "place" /\ l \in Line
  BY LocalFacts DEF Ordered, TypeOK
<1>2. <<batch[p], l>> \in Key \ accepted
  BY <1>1, OrderFacts DEF OrderInv, Key, Busy
<1>3. q \in Nat /\ q <= PlanQty[l]
  BY <1>1, SendableType, SendableWithinPlan
<1>4. oqty[<<batch[p], l>>] = 0
  BY <1>2 DEF OrderInv
<1> QED BY <1>1, <1>2, <1>3, <1>4, OrderFacts DEF Ordered

\* An order goes out under its sender's batch and stays within the plan.
LEMMA OrderedOrders ==
    ASSUME TypeOK, OrderInv, NEW p \in Proc, NEW l \in todo[p], NEW q \in Sendable(p, l), Ordered(p, l, q)
    PROVE  OrderInv'
<1> DEFINE new == <<batch[p], l>>
<1>1. /\ new \in Key \ accepted /\ l \in Line /\ q \in Nat /\ q <= PlanQty[l]
      /\ oqty' = [oqty EXCEPT ![new] = q]
  BY OrderedNew
<1>2. /\ accepted' = accepted \cup {new} /\ nbatch' = nbatch /\ pc[p] = "place" /\ pc'[p] = "place"
      /\ batch'[p] = batch[p] /\ todo'[p] = todo[p] \ {l} /\ Alone(p)
  BY DEF Ordered
<1>3. \A w \in Proc : pc'[w] = pc[w] /\ batch'[w] = batch[w] /\ todo'[w] \subseteq todo[w]
  BY <1>2 DEF Alone
<1>4. ASSUME NEW w \in Proc, pc[w] \in {"open", "place"}, NEW m \in todo'[w]
      PROVE  <<batch[w], m>> \notin accepted'
  <2>1. <<batch[w], m>> \notin accepted
    BY <1>3, <1>4 DEF OrderInv
  <2>2. <<batch[w], m>> # new
    BY <1>2, <1>4 DEF OrderInv
  <2> QED BY <1>2, <2>1, <2>2
<1>5. \A k \in accepted' : k[1] <= nbatch'
  <2>1. batch[p] <= nbatch
    BY LocalFacts, OrderFacts
  <2> QED BY <1>2, <2>1 DEF OrderInv
<1>6. ASSUME NEW k \in Key
      PROVE  IF k \in accepted' THEN oqty'[k] <= PlanQty[k[2]] ELSE oqty'[k] = 0
  BY <1>1, <1>2, OrderFacts DEF OrderInv
<1>7. \A v, w \in Proc : {pc[v], pc[w]} \subseteq {"open", "place"} /\ batch[v] = batch[w] => v = w
  BY DEF OrderInv
<1> HIDE DEF new
<1> QED BY <1>3, <1>4, <1>5, <1>6, <1>7 DEF OrderInv

\* Every kind of step keeps batches and orders apart.
LEMMA KindOrders ==
    ASSUME TypeOK, OrderInv, NEW p \in Proc, Kind(p)
    PROVE  OrderInv'
<1>1. CASE Rest(p)
  BY <1>1, AsideOrders DEF Rest, broker, Writing
<1>2. CASE Read(p)
  BY <1>2, AsideOrders DEF Read, broker, Busy
<1>3. CASE Dropped(p)
  BY <1>3, DroppedOrders
<1>4. CASE Written(p)
  BY <1>4, AsideOrders DEF Written, broker, Busy
<1>5. CASE Died(p)
  BY <1>5, AsideOrders DEF Died, broker, Busy
<1>6. CASE SheetOpened(p) \/ RetryOpened(p)
  BY <1>6, OpenedOrders DEF SheetOpened, RetryOpened
<1>7. CASE Asked(p)
  BY <1>7, AsideOrders DEF Asked, Busy
<1>8. CASE EnterExecute(p)
  <2>1. Alone(p) /\ pc'[p] = "plan"
    BY <1>8, LocalFacts DEF EnterExecute, Goto, Alone
  <2> QED BY <1>8, <2>1, AsideOrders DEF EnterExecute, broker, Busy
<1>9. ASSUME NEW l \in todo[p], NEW q \in Sendable(p, l), Ordered(p, l, q) PROVE OrderInv'
  BY <1>9, OrderedOrders
<1> QED BY <1>1, <1>2, <1>3, <1>4, <1>5, <1>6, <1>7, <1>8, <1>9 DEF Kind

\* So does whatever leaves sessions and orders alone.
LEMMA StillOrders ==
    ASSUME OrderInv, UNCHANGED <<pc, batch, todo, accepted, oqty, nbatch>>
    PROVE  OrderInv'
  BY DEF OrderInv

\* Batches and orders stay apart, whatever fails.
LEMMA StepOrders == TypeOK /\ OrderInv /\ [Next]_vars => OrderInv'
<1> SUFFICES ASSUME TypeOK, OrderInv, [Next]_vars PROVE OrderInv'
  OBVIOUS
<1>1. CASE Still \/ Tick \/ ExpireRetryLock \/ \E k \in Key : Fill(k)
  BY <1>1, StillOrders DEF Still, Tick, ExpireRetryLock, Fill, broker, local
<1> QED BY <1>1, StepKind, KindOrders

-----------------------------------------------------------------------------
(* One run a day. *)

\* The part of the invariant that says who may run, and the variables it reads
\* besides those of the processes.
DayInv == OpInv /\ RunInv
orders == <<dayLock, runs>>

\* The invariant holds initially: nobody runs and nothing is ordered.
LEMMA InitInv == Init => IInv
<1> SUFFICES ASSUME Init PROVE IInv
  OBVIOUS
<1>1. OpInv
  BY DEF Init, OpInv, Proc
<1>2. RunInv
  BY DEF Init, RunInv, InRun, OneRunADay
<1>3. OrderInv
  BY DEF Init, OrderInv
<1> QED BY <1>1, <1>2, <1>3 DEF IInv

\* A process that leaves, with the day's lock untouched, keeps the invariant.
LEMMA LeaveInv ==
    ASSUME TypeOK, DayInv, NEW p \in Proc, NEW label \in {"judged", "done"},
           Leave(p, label), UNCHANGED orders
    PROVE  DayInv'
<1>1. /\ pc' = [pc EXCEPT ![p] = label] /\ batch' = [batch EXCEPT ![p] = 0]
      /\ op' = [op EXCEPT ![p] = IF label = "judged" THEN "retry" ELSE @]
      /\ todo' = [todo EXCEPT ![p] = {}]
  BY DEF Leave, Goto
<1>2. /\ pc \in [Proc -> States] /\ batch \in [Proc -> 0..nbatch]
      /\ op \in [Proc -> {"run", "idle"} \cup AllRequests]
      /\ todo \in [Proc -> SUBSET Line]
  BY DEF TypeOK, LocalType
<1>3. OpInv'
  BY <1>1, <1>2 DEF DayInv, OpInv, Proc
<1>4. RunInv'
  BY <1>1, <1>2 DEF DayInv, RunInv, InRun, OneRunADay, orders
<1> QED BY <1>3, <1>4 DEF DayInv

\* A process that moves between labels where it neither runs nor places.
Idle == {"new", "loaded", "judged", "asked", "locking", "writing", "done"}

\* A process that moves between states in which it does not run keeps the
\* invariant.
LEMMA MoveInv ==
    ASSUME TypeOK, DayInv, NEW p \in Proc, NEW label \in Idle, NEW name,
           pc[p] \in Idle, pc' = [pc EXCEPT ![p] = label],
           op' = [op EXCEPT ![p] = name],
           label # "new", label = "loaded" => name = "run", label = "locking" => name = "retry",
           UNCHANGED batch, UNCHANGED orders
    PROVE  DayInv'
<1>1. /\ pc \in [Proc -> States] /\ batch \in [Proc -> 0..nbatch]
      /\ op \in [Proc -> {"run", "idle"} \cup AllRequests]
  BY DEF TypeOK, LocalType
<1>2. OpInv'
  BY <1>1 DEF DayInv, OpInv, Proc, Idle
<1>3. RunInv'
  BY <1>1 DEF DayInv, RunInv, InRun, OneRunADay, orders, Idle
<1> QED BY <1>2, <1>3 DEF DayInv

\* The steps of the run before its first order keep the invariant; the day lock lets one through.
LEMMA RunningInv ==
    ASSUME "redis_down" \notin Faults, TypeOK, DayInv, NEW w \in Worker, Running(w)
    PROVE  DayInv'
<1> w \in Proc
  BY DEF Proc
<1> AfterRun(w) \in {"judged", "done"}
  BY DEF AfterRun
<1> USE DEF shared, redis, broker, env, orders
<1>t. /\ pc \in [Proc -> States] /\ batch \in [Proc -> 0..nbatch] /\ nbatch \in 0..MaxBatch
      /\ op \in [Proc -> {"run", "idle"} \cup AllRequests] /\ runs \subseteq 1..nbatch
      /\ todo \in [Proc -> SUBSET Line] /\ accepted \subseteq Key
  BY DEF TypeOK, LocalType, DayType, BrokerType
<1>1. CASE Load(w)
  <2>1. op' = [op EXCEPT ![w] = "run"] /\ pc[w] \in Idle
    BY <1>1, <1>t DEF Load, DayInv, OpInv, Idle
  <2>2. /\ pc' = [pc EXCEPT ![w] = "loaded"] /\ "loaded" \in Idle
        /\ UNCHANGED <<batch, todo, orders>>
    BY <1>1 DEF Load, Goto, Idle
  <2> QED BY <2>1, <2>2, MoveInv
<1>2. CASE EnterAlreadyRan(w)
  BY <1>2, LeaveInv DEF EnterAlreadyRan
<1>3. CASE EnterLate(w)
  BY <1>3, LeaveInv DEF EnterLate
<1>4. CASE EnterLocked(w)
  BY <1>4, LeaveInv DEF EnterLocked
<1>5. CASE EnterExecute(w)
  <2>1. ~dayLock /\ dayLock' = TRUE
    BY <1>5 DEF EnterExecute, AcquireDayLock
  <2>2. /\ pc' = [pc EXCEPT ![w] = "plan"] /\ op[w] = "run"
        /\ UNCHANGED <<runs, accepted, oqty, nbatch, op, batch, todo>>
    BY <1>5 DEF EnterExecute, Goto, DayInv, OpInv
  <2>3. OpInv'
    BY <2>2, <1>t DEF DayInv, OpInv, Proc
  <2>4. RunInv'
    BY <2>1, <2>2, <1>t DEF DayInv, RunInv, InRun, OneRunADay
  <2> QED BY <2>3, <2>4 DEF DayInv
<1>6. CASE PlanError(w)
  BY <1>6, LeaveInv DEF PlanError
<1>7. ASSUME NEW o \in PlanOutcomes, PlanFinish(w, o) PROVE DayInv'
  BY <1>7, LeaveInv DEF PlanFinish
<1>8. ASSUME NEW o \in PlanOutcomes, PlanGo(w, o) PROVE DayInv'
  <2>1. /\ pc[w] = "plan" /\ op[w] = "run" /\ runs = {} /\ InRun(w)
        /\ dayLock = TRUE
    BY <1>8 DEF PlanGo, DayInv, OpInv, RunInv, InRun, TypeOK, StoreType
  <2>2. /\ pc' = [pc EXCEPT ![w] = "open"] /\ nbatch' = nbatch + 1
        /\ batch' = [batch EXCEPT ![w] = nbatch + 1] /\ runs' = {nbatch + 1}
        /\ UNCHANGED <<dayLock, op, accepted, oqty>>
        /\ \A r \in Proc : r # w => todo'[r] = todo[r]
    BY <1>8, <2>1, <1>t DEF PlanGo, NewRows, Goto
  <2>3. OpInv'
    BY <2>2, <1>t DEF DayInv, OpInv, Proc
  <2>4. \A v \in Proc : InRun(v)' => v = w
    BY <2>1, <2>2, <1>t DEF DayInv, RunInv, InRun
  <2>5. ASSUME NEW v \in Proc, v # w, pc[v] \in {"open", "place"}
        PROVE  op[v] # "run" /\ batch[v] \notin runs'
    BY <2>1, <2>2, <2>5, <1>t DEF DayInv, RunInv, InRun
  <2>6. RunInv'
    <3>1. dayLock' /\ \A v \in Proc : pc'[v] # "plan"
      <4>1. \A v \in Proc : pc[v] = "plan" => v = w
        BY <2>1 DEF DayInv, OpInv, RunInv, InRun
      <4> QED BY <2>1, <2>2, <4>1, <1>t
    <3>2. ASSUME NEW v \in Proc, pc'[v] \in {"open", "place"}
          PROVE  IF op'[v] = "run" THEN runs' = {batch'[v]} ELSE batch'[v] \notin runs'
      BY <2>1, <2>2, <2>5, <3>2, <1>t
    <3>3. OneRunADay'
      BY <2>2 DEF OneRunADay
    <3>4. \A u, v \in Proc : InRun(u)' /\ InRun(v)' => u = v
      BY <2>4
    <3> QED BY <3>1, <3>2, <3>3, <3>4 DEF RunInv
  <2> QED BY <2>3, <2>6 DEF DayInv
<1> QED BY <1>1, <1>2, <1>3, <1>4, <1>5, <1>6, <1>7, <1>8 DEF Running

\* A process that places keeps its batch.
LEMMA ShrinkInv ==
    ASSUME TypeOK, DayInv, NEW p \in Proc, pc[p] \in {"open", "place"},
           pc' = [pc EXCEPT ![p] = "place"],
           UNCHANGED <<op, batch, orders>>
    PROVE  DayInv'
<1>1. pc \in [Proc -> States]
  BY DEF TypeOK, LocalType
<1>2. OpInv'
  BY <1>1 DEF DayInv, OpInv, Proc
<1>3. RunInv'
  BY <1>1 DEF DayInv, RunInv, InRun, OneRunADay, orders
<1> QED BY <1>2, <1>3 DEF DayInv

\* Sending, skipping and committing lines keep the invariant.
LEMMA PlacingInv ==
    ASSUME TypeOK, DayInv, NEW p \in Proc, Placing(p)
    PROVE  DayInv'
<1> USE DEF redis, broker, orders
<1>t. pc \in [Proc -> States] /\ todo \in [Proc -> SUBSET Line]
  BY DEF TypeOK, LocalType
<1>1. CASE OpenMissing(p)
  BY <1>1, <1>t, ShrinkInv DEF OpenMissing, Goto
<1>2. ASSUME NEW view \in BalanceViews(p), CheckBalance(p, view) PROVE DayInv'
  BY <1>2, <1>t, ShrinkInv DEF CheckBalance, Goto
<1>3. ASSUME NEW l \in todo[p], PlaceSkip(p, l) PROVE DayInv'
  BY <1>3, <1>t, ShrinkInv DEF PlaceSkip
<1>4. ASSUME NEW l \in todo[p], NEW q \in Sendable(p, l),
             \/ PlaceAccepted(p, l, q) \/ PlaceLostAck(p, l, q)
             \/ \E s \in {"failed", "failed_rate"} : PlaceRejected(p, l, q, s)
      PROVE  DayInv'
  <2>1. CASE PlaceAccepted(p, l, q) \/ PlaceLostAck(p, l, q)
    BY <2>1, <1>t, ShrinkInv DEF PlaceAccepted, PlaceLostAck, Sent
  <2>2. ASSUME NEW s, PlaceRejected(p, l, q, s) PROVE DayInv'
    BY <2>2, <1>t, ShrinkInv DEF PlaceRejected, Sent
  <2> QED BY <1>4, <2>1, <2>2
<1>5. CASE Commit(p)
  BY <1>5, LeaveInv DEF Commit, AfterRun
<1> QED BY <1>1, <1>2, <1>3, <1>4, <1>5 DEF Placing

\* A retry works on a batch of its own that no run has.
LEMMA RetryingInv ==
    ASSUME TypeOK, DayInv, NEW p \in Proc, Retrying(p)
    PROVE  DayInv'
<1> USE DEF redis, broker, orders
<1>t. /\ pc \in [Proc -> States] /\ batch \in [Proc -> 0..nbatch] /\ nbatch \in 0..MaxBatch
      /\ runs \subseteq 1..nbatch
  BY DEF TypeOK, LocalType, DayType
<1>1. CASE RetryLocked(p)
  BY <1>1, LeaveInv DEF RetryLocked
<1>2. CASE RetryStart(p)
  <2>1. /\ pc' = [pc EXCEPT ![p] = "open"] /\ nbatch' = nbatch + 1
        /\ batch' = [batch EXCEPT ![p] = nbatch + 1]
        /\ UNCHANGED <<dayLock, runs, op, accepted, oqty, todo>> /\ op[p] = "retry"
    BY <1>2 DEF RetryStart, NewRows, Goto, DayInv, OpInv
  <2>2. OpInv'
    BY <2>1, <1>t DEF DayInv, OpInv, Proc
  <2>3. nbatch + 1 \notin runs
    BY <1>t
  <2>4. RunInv'
    BY <2>1, <2>3, <1>t DEF DayInv, RunInv, InRun, OneRunADay
  <2> QED BY <2>2, <2>4 DEF DayInv
<1> QED BY <1>1, <1>2 DEF Retrying

\* Reading rows to retry creates no batch and no order.
LEMMA ReadRowsInv ==
    ASSUME TypeOK, DayInv, NEW p \in Proc, NEW state, NEW now, NEW lines,
           pc[p] \in Idle, ReadRows(p, state, now, lines)
    PROVE  DayInv'
<1>1. "locking" \in Idle
  BY DEF Idle
<1> QED BY <1>1, MoveInv DEF ReadRows, Goto, redis, broker, orders

\* The watchdog's second job is not a run.
LEMMA WatchingInv ==
    ASSUME TypeOK, DayInv, NEW w \in Worker, Watching(w)
    PROVE  DayInv'
<1> w \in Proc
  BY DEF Proc
<1>1. CASE WatchReload(w)
  <2>1. op' = [op EXCEPT ![w] = op[w]] /\ pc[w] \in Idle /\ "asked" \in Idle
    BY <1>1 DEF WatchReload, TypeOK, LocalType, Idle
  <2> QED BY <1>1, <2>1, MoveInv DEF WatchReload, Goto, redis, broker, orders
<1>2. CASE WatchRetry(w)
  BY <1>2, ReadRowsInv DEF WatchRetry, Idle
<1>3. CASE WatchIdle(w)
  BY <1>3, LeaveInv DEF WatchIdle, redis, broker, orders
<1> QED BY <1>1, <1>2, <1>3 DEF Watching

\* A request that has begun waits for its commit.
LEMMA BeginInv ==
    ASSUME TypeOK, DayInv, NEW u \in User, NEW name, Begin(u, name)
    PROVE  DayInv'
<1>1. u \in Proc /\ "writing" \in Idle /\ pc[u] \in Idle
  BY DEF Proc, Begin, Idle
<1> QED BY <1>1, MoveInv DEF Begin, Goto, redis, orders

\* The requests of the user never run the sheet and never send under a run's batch.
LEMMA RequestingInv ==
    ASSUME TypeOK, DayInv, NEW u \in User, Requesting(u)
    PROVE  DayInv'
<1>p. u \in Proc /\ {"new", "writing", "done"} \subseteq Idle
  BY DEF Proc, Idle
<1>o. op = [op EXCEPT ![u] = op[u]]
  BY DEF TypeOK, LocalType
<1>1. CASE RetryRequest(u)
  BY <1>1, <1>p, ReadRowsInv DEF RetryRequest
<1>2. ASSUME NEW l \in Line, ReorderRequest(u, l) PROVE DayInv'
  BY <1>2, <1>p, ReadRowsInv DEF ReorderRequest
<1>3. CASE \/ SkipRequest(u) \/ UnskipRequest(u) \/ ResumeRequest(u)
           \/ (\E new \in [Side -> BOOLEAN] : FlagRequest(u, new)) \/ SyncRequest(u)
  BY <1>3, BeginInv DEF SkipRequest, UnskipRequest, ResumeRequest, FlagRequest, SyncRequest
<1>4. ASSUME NEW k \in Key, CancelRequest(u, k) PROVE DayInv'
  <2>1. /\ pc[u] \in Idle /\ UNCHANGED <<batch, todo, orders>>
    BY <1>4, <1>p DEF CancelRequest, redis, orders
  <2>2. CASE op' = [op EXCEPT ![u] = "cancel"] /\ pc' = [pc EXCEPT ![u] = "writing"]
    BY <1>p, <2>1, <2>2, MoveInv
  <2>3. CASE op' = op /\ pc' = [pc EXCEPT ![u] = "done"]
    BY <1>p, <1>o, <2>1, <2>3, MoveInv
  <2> QED BY <1>4, <2>2, <2>3 DEF CancelRequest, Goto
<1>5. CASE Import(u)
  BY <1>5, <1>p, <1>o, MoveInv DEF Import, Goto, redis, broker, orders
<1>6. CASE UserCommit(u)
  BY <1>6, <1>p, LeaveInv DEF UserCommit, redis, broker, orders
<1> QED BY <1>1, <1>2, <1>3, <1>4, <1>5, <1>6 DEF Requesting

\* A stuttering step keeps the invariant.
LEMMA UnchangedInv ==
    ASSUME DayInv, UNCHANGED <<pc, op, batch, orders>>
    PROVE  DayInv'
  BY DEF DayInv, OpInv, RunInv, InRun, OneRunADay, orders

\* Clock, prefetch, executions and expiry of the retry lock keep the invariant.
LEMMA EnvironmentInv ==
    ASSUME TypeOK, DayInv,
           \/ Tick \/ Prefetch \/ ExpireRetryLock
           \/ \E k \in Key : Fill(k)
           \/ \E p \in Proc : Crash(p)
    PROVE  DayInv'
<1> USE DEF redis, broker, local, orders
<1>1. CASE Tick
  BY <1>1, UnchangedInv DEF Tick
<1>2. CASE Prefetch
  BY <1>2, UnchangedInv DEF Prefetch
<1>3. CASE ExpireRetryLock
  BY <1>3, UnchangedInv DEF ExpireRetryLock
<1>4. ASSUME NEW k \in Key, Fill(k) PROVE DayInv'
  BY <1>4, UnchangedInv DEF Fill
<1>5. ASSUME NEW p \in Proc, Crash(p) PROVE DayInv'
  BY <1>5, LeaveInv DEF Crash
<1> QED BY <1>1, <1>2, <1>3, <1>4, <1>5

\* Every step keeps the invariant while Redis answers.
LEMMA StepDay ==
    ASSUME "redis_down" \notin Faults
    PROVE  TypeOK /\ DayInv /\ [Next]_vars => DayInv'
<1> SUFFICES ASSUME TypeOK, DayInv, [Next]_vars PROVE DayInv'
  OBVIOUS
<1>1. CASE UNCHANGED vars
  BY <1>1, UnchangedInv DEF vars, redis, broker, local, orders
<1>2. ASSUME NEW w \in Worker, WorkerStep(w) PROVE DayInv'
  BY <1>2, RunningInv, WatchingInv, RetryingInv, PlacingInv DEF WorkerStep, Proc
<1>3. ASSUME NEW u \in User, UserStep(u) PROVE DayInv'
  BY <1>3, RequestingInv, RetryingInv, PlacingInv DEF UserStep, Proc
<1> QED BY <1>1, <1>2, <1>3, EnvironmentInv DEF Next

\* Every step keeps the whole invariant while Redis answers.
LEMMA StepInv ==
    ASSUME "redis_down" \notin Faults
    PROVE  TypeOK /\ IInv /\ [Next]_vars => IInv'
  BY StepDay, StepOrders DEF IInv, DayInv

\* The invariant behind the next two theorems: who is past the day lock, whose
\* batch is whose, and what has been ordered in it.  It needs the lock, hence
\* Redis; it needs nothing of the broker.
THEOREM InvHolds ==
    ASSUME "redis_down" \notin Faults
    PROVE  Spec => []IInv
  BY InitType, StepType, InitInv, StepInv, PTL DEF Spec

\* However many times the 09:01 task and the watchdog are delivered, and wherever
\* they crash, the order sheet of the day is executed at most once.
THEOREM RunsOnce ==
    ASSUME "redis_down" \notin Faults
    PROVE  Spec => []OneRunADay
<1>1. IInv => OneRunADay
  BY DEF IInv, RunInv
<1> QED BY <1>1, InvHolds, PTL

\* What that one execution orders of a line is one order of at most the planned
\* quantity.
THEOREM RunStaysWithinPlan ==
    ASSUME "redis_down" \notin Faults
    PROVE  Spec => []RunWithinPlan
<1>1. TypeOK /\ IInv => RunWithinPlan
  <2> SUFFICES ASSUME TypeOK, IInv, NEW j \in accepted, NEW k \in accepted,
                      j[1] \in runs, k[1] \in runs, j[2] = k[2]
               PROVE  j = k /\ oqty[k] <= PlanQty[k[2]]
    BY DEF RunWithinPlan
  <2>1. j \in Key /\ k \in Key
    BY DEF TypeOK, BrokerType
  <2>2. j[1] = k[1]
    BY DEF IInv, RunInv, OneRunADay
  <2>3. j = k
    BY <2>1, <2>2, KeyFacts
  <2> QED BY <2>1, <2>3 DEF IInv, OrderInv
<1> QED BY <1>1, TypeCorrect, InvHolds, PTL

-----------------------------------------------------------------------------
(* The cap of one execution of _place_lines. *)

\* What each order may cost, and the buy orders of a batch.
Amount == [k \in Key |-> oqty[k] * Price[k[2]]]
BuysOf(b) == {k \in accepted : k[1] = b /\ k[2] \in Buys}
Bought(b) == SumOver(Amount, BuysOf(b))

\* The budget of whoever places covers what is ordered in its batch.
Budget ==
    /\ \A p \in Proc : pc[p] \notin Busy => tally[p].running = 0
    /\ \A p \in Proc : pc[p] \in Busy => Bought(batch[p]) <= tally[p].running
    /\ Cap > 0 => /\ \A p \in Proc : tally[p].running <= Cap
                  /\ \A b \in Batch : Bought(b) <= Cap

\* There are finitely many keys.
LEMMA FiniteKeys == IsFiniteSet(Key) /\ \A S \in SUBSET Key : IsFiniteSet(S)
<1>1. IsFiniteSet(Batch)
  BY ProcAssumption, FS_Interval DEF Batch
<1>2. IsFiniteSet(Key)
  BY <1>1, LineAssumption, FS_Product DEF Key
<1> QED BY <1>2, FS_Subset

\* The cost of a batch, as a sum of the amounts of its buys.
LEMMA CostIsBought ==
    ASSUME TypeOK, NEW b
    PROVE  Cost({k \in accepted : k[1] = b}) = Bought(b)
<1> DEFINE S == {k \in {k \in accepted : k[1] = b} : k[2] \in Buys}
           P(g) == g = [s \in SUBSET S |-> IF s = {} THEN 0 ELSE LET x == CHOOSE x \in s : TRUE
                            IN (oqty[x] * Price[x[2]]) + g[s \ {x}]]
<1>1. Cost({k \in accepted : k[1] = b}) = (CHOOSE g : P(g))[S]
  BY DEF Cost, MapThenSumSet, MapThenFoldSet
<1>2. S = BuysOf(b) /\ S \subseteq Key
  BY OrderFacts DEF BuysOf
<1>3. ASSUME NEW g PROVE P(g) <=> Iterates(g, Amount, S)
  <2>1. ASSUME NEW s \in SUBSET S, s # {}
        PROVE LET x == CHOOSE x \in s : TRUE IN Amount[x] = oqty[x] * Price[x[2]]
    <3> DEFINE x == CHOOSE x \in s : TRUE
    <3>1. x \in s
      BY <2>1
    <3>2. x \in Key
      BY <3>1, <1>2
    <3> HIDE DEF x
    <3>3. Amount[x] = oqty[x] * Price[x[2]]
      BY <3>2 DEF Amount
    <3> QED BY <3>3 DEF x
  <2> HIDE DEF S
  <2> QED BY <2>1 DEF Iterates, SumFrom
<1>4. (CHOOSE g : P(g)) = (CHOOSE g : Iterates(g, Amount, S))
  <2> HIDE DEF P
  <2> QED BY <1>3, Zenon
<1> HIDE DEF P, S
<1> QED BY <1>1, <1>2, <1>4, SumIsIterated DEF Bought

\* An order costs a natural number.
LEMMA AmountFacts ==
    ASSUME TypeOK, NEW b
    PROVE  /\ BuysOf(b) \subseteq Key /\ IsFiniteSet(BuysOf(b)) /\ Integral(Amount, BuysOf(b))
           /\ Bought(b) \in Int
<1>1. BuysOf(b) \subseteq Key
  BY OrderFacts DEF BuysOf
<1>2. ASSUME NEW k \in Key PROVE Amount[k] \in Int
  <2>1. oqty[k] \in Int /\ Price[k[2]] \in Int
    BY OrderFacts, LineAssumption
  <2> QED BY <2>1 DEF Amount
<1>3. IsFiniteSet(BuysOf(b))
  BY <1>1, FiniteKeys
<1>4. Integral(Amount, BuysOf(b))
  BY <1>1, <1>2 DEF Integral
<1> QED BY <1>1, <1>3, <1>4, SumInteger DEF Bought

\* Orders untouched cost the same.
LEMMA SameBought ==
    ASSUME UNCHANGED <<accepted, oqty>>, NEW b
    PROVE  Bought(b)' = Bought(b)
<1>1. BuysOf(b)' = BuysOf(b) /\ Amount' = Amount
  BY DEF BuysOf, Amount
<1> QED BY <1>1 DEF Bought

\* At first nothing is spent.
LEMMA InitBudget == Init => Budget
<1> SUFFICES ASSUME Init PROVE Budget
  OBVIOUS
<1>1. ASSUME NEW b PROVE Bought(b) = 0
  <2>1. BuysOf(b) = {}
    BY DEF Init, BuysOf
  <2> QED BY <2>1, SumEmpty DEF Bought
<1>2. \A p \in Proc : pc[p] = "new" /\ tally[p].running = 0
  BY DEF Init, NoTally
<1> QED BY <1>1, <1>2, LineAssumption DEF Budget, Busy

\* What is sent fits into what the cap leaves.
LEMMA SpentWithinCap ==
    ASSUME TypeOK, Budget, NEW p \in Proc, NEW l \in todo[p], NEW q \in Sendable(p, l)
    PROVE  /\ Spent(p, l, q) \in Nat /\ tally[p].running <= Spent(p, l, q)
           /\ l \in Buys => Spent(p, l, q) = tally[p].running + q * Price[l]
           /\ Cap > 0 => Spent(p, l, q) <= Cap
<1>t. /\ tally[p].running \in Nat /\ l \in Line /\ PlanQty[l] \in Nat /\ Price[l] \in Nat \ {0} /\ Cap \in Nat
      /\ LocalType
  BY LocalFacts, LineAssumption DEF TypeOK
<1>q. q \in Nat
  BY <1>t, SendableType
<1>1. q * Price[l] \in Nat
  BY <1>t, <1>q
<1>2. Spent(p, l, q) \in Nat /\ tally[p].running <= Spent(p, l, q)
  BY <1>1, <1>t DEF Spent
<1>3. ASSUME Cap > 0 PROVE Spent(p, l, q) <= Cap
  <2>0. tally[p].running <= Cap
    BY <1>3 DEF Budget
  <2>1. CASE l \notin Buys
    BY <2>0, <2>1, <1>t DEF Spent
  <2>2. CASE l \in Buys
    <3> DEFINE left == (Cap - tally[p].running) \div Price[l]
    <3>1. left \in Int
      BY <1>t
    <3>2. q <= left
      <4> HIDE DEF left
      <4>1. \E x \in {PlanQty[l], left} : \A y \in {PlanQty[l], left} : x <= y
        BY <1>t, <3>1
      <4>2. /\ Min({PlanQty[l], left}) \in {PlanQty[l], left}
            /\ \A y \in {PlanQty[l], left} : Min({PlanQty[l], left}) <= y
        BY <4>1 DEF Min
      <4>3. Room(p, l) = Min({PlanQty[l], left})
        BY <2>2, <1>3, <1>t DEF Room, left
      <4>4. q \in 1..Room(p, l)
        BY <2>2 DEF Sendable
      <4> QED BY <4>2, <4>3, <4>4, <1>t, <1>q, <3>1
    <3>3. left * Price[l] <= Cap - tally[p].running
      BY <1>t
    <3>4. q * Price[l] <= left * Price[l]
      <4> HIDE DEF left
      <4> QED BY <3>1, <3>2, <1>t, <1>q
    <3> HIDE DEF left
    <3>5. left * Price[l] \in Int
      BY <3>1, <1>t
    <3>6. q * Price[l] <= Cap - tally[p].running
      BY <3>3, <3>4, <3>5, <1>1, <1>t
    <3> QED BY <3>6, <2>2, <1>1, <1>t DEF Spent
  <2> QED BY <2>1, <2>2
<1> QED BY <1>2, <1>3 DEF Spent

\* Where no order goes out, the budget of p alone is in question.
LEMMA AloneBudget ==
    ASSUME TypeOK, Budget, NEW p \in Proc, Alone(p), UNCHANGED <<accepted, oqty>>,
           pc'[p] \notin Busy => tally'[p].running = 0,
           pc'[p] \in Busy => Bought(batch'[p]) <= tally'[p].running,
           Cap > 0 => tally'[p].running <= Cap
    PROVE  Budget'
<1>b. \A b : Bought(b)' = Bought(b)
  BY SameBought
<1>1. ASSUME NEW r \in Proc, pc'[r] \notin Busy PROVE tally'[r].running = 0
  BY <1>1 DEF Budget, Alone
<1>2. ASSUME NEW r \in Proc, pc'[r] \in Busy PROVE Bought(batch[r])' <= tally'[r].running
  <2>0. Bought(batch[r])' = Bought(batch'[r])
    <3>1. PICK b : b = batch'[r]
      OBVIOUS
    <3>2. Bought(b)' = Bought(b)
      BY <1>b
    <3>3. Bought(batch[r])' = Bought(b)'
      BY <3>1 DEF Bought, BuysOf
    <3> QED BY <3>1, <3>2, <3>3
  <2>1. CASE r = p
    BY <1>2, <2>0, <2>1
  <2>2. CASE r # p
    BY <1>2, <2>0, <2>2 DEF Budget, Alone
  <2> QED BY <2>1, <2>2
<1>3. ASSUME Cap > 0 PROVE /\ \A r \in Proc : tally'[r].running <= Cap
                           /\ \A b \in Batch : Bought(b)' <= Cap
  BY <1>3, <1>b DEF Budget, Alone
<1> QED BY <1>1, <1>2, <1>3 DEF Budget

\* What one order does to the sums: its batch pays for it, the others do not.
LEMMA OrderedBought ==
    ASSUME TypeOK, OrderInv, NEW p \in Proc, NEW l \in todo[p], NEW q \in Sendable(p, l), Ordered(p, l, q)
    PROVE  /\ Bought(batch[p])' = Bought(batch[p]) + IF l \in Buys THEN q * Price[l] ELSE 0
           /\ \A b : b # batch[p] => Bought(b)' = Bought(b)
<1> DEFINE new == <<batch[p], l>>
<1>1. /\ new \in Key \ accepted /\ l \in Line /\ q \in Nat
      /\ oqty' = [oqty EXCEPT ![new] = q]
      /\ accepted' = accepted \cup {new} /\ batch'[p] = batch[p] /\ new[1] = batch[p] /\ new[2] = l
  <2>1. accepted' = accepted \cup {new} /\ batch'[p] = batch[p]
    BY DEF Ordered
  <2> QED BY <2>1, OrderedNew
<1>t. Price[l] \in Int /\ oqty \in [Key -> Nat]
  BY <1>1, LineAssumption, OrderFacts
<1>2. Amount'[new] = q * Price[l]
  BY <1>1, <1>t DEF Amount
<1>3. \A k \in Key : k # new => Amount'[k] = Amount[k]
  BY <1>1, <1>t DEF Amount
<1> HIDE DEF new
\* Over orders that were there before, the sum is what it was.
<1>4. ASSUME NEW b PROVE SumOver(Amount', BuysOf(b)) = Bought(b)
  <2>1. /\ BuysOf(b) \subseteq Key /\ IsFiniteSet(BuysOf(b)) /\ Integral(Amount, BuysOf(b))
    BY AmountFacts
  <2>2. \A k \in BuysOf(b) : Amount[k] = Amount'[k]
    BY <1>1, <1>3, <2>1 DEF BuysOf
  <2> QED BY <2>1, <2>2, SumSame DEF Bought
<1>5. ASSUME NEW b, b # batch[p] \/ l \notin Buys PROVE Bought(b)' = Bought(b)
  <2>1. BuysOf(b)' = BuysOf(b)
    BY <1>1, <1>5 DEF BuysOf
  <2> QED BY <2>1, <1>4 DEF Bought
<1>6. ASSUME l \in Buys PROVE Bought(batch[p])' = Bought(batch[p]) + q * Price[l]
  <2>1. PICK b : b = batch[p]
    OBVIOUS
  <2>2. BuysOf(b)' = BuysOf(b) \cup {new} /\ new \notin BuysOf(b)
    BY <1>1, <1>6, <2>1 DEF BuysOf
  <2>3. BuysOf(b) \subseteq Key /\ IsFiniteSet(BuysOf(b)) /\ Integral(Amount, BuysOf(b))
    BY AmountFacts
  <2>4. Integral(Amount', BuysOf(b) \cup {new})
    <3>1. q * Price[l] \in Int
      BY <1>1, <1>t
    <3> QED BY <1>1, <1>2, <1>3, <2>3, <3>1 DEF Integral
  <2>5. SumOver(Amount', BuysOf(b) \cup {new}) = q * Price[l] + SumOver(Amount', BuysOf(b))
    BY <2>2, <2>3, <2>4, <1>2, SumAdded
  <2>6. Bought(b)' = q * Price[l] + Bought(b)
    BY <2>2, <2>5, <1>4 DEF Bought
  <2>7. Bought(batch[p])' = Bought(b)'
    BY <1>1, <2>1 DEF Bought, BuysOf
  <2>8. Bought(b) \in Int /\ q * Price[l] \in Int
    BY AmountFacts, <1>1, <1>t
  <2> QED BY <2>1, <2>6, <2>7, <2>8
<1>7. ASSUME l \notin Buys PROVE Bought(batch[p])' = Bought(batch[p]) + 0
  <2>1. PICK b : b = batch[p]
    OBVIOUS
  <2>2. Bought(batch[p])' = Bought(b)'
    BY <1>1, <2>1 DEF Bought, BuysOf
  <2> QED BY <1>5, <1>7, <2>1, <2>2, AmountFacts
<1> QED BY <1>5, <1>6, <1>7

\* A buy that goes out is counted against the cap before it is sent.
LEMMA OrderedBudget ==
    ASSUME TypeOK, OrderInv, Budget,
           NEW p \in Proc, NEW l \in todo[p], NEW q \in Sendable(p, l), Ordered(p, l, q)
    PROVE  Budget'
<1>1. /\ Alone(p) /\ pc[p] = "place" /\ pc'[p] = "place" /\ batch'[p] = batch[p]
      /\ tally'[p].running = Spent(p, l, q)
  BY DEF Ordered
<1>2. /\ Spent(p, l, q) \in Nat /\ tally[p].running <= Spent(p, l, q)
      /\ l \in Buys => Spent(p, l, q) = tally[p].running + q * Price[l]
      /\ Cap > 0 => Spent(p, l, q) <= Cap
  BY SpentWithinCap
<1>3. /\ Bought(batch[p])' = Bought(batch[p]) + IF l \in Buys THEN q * Price[l] ELSE 0
      /\ \A b : b # batch[p] => Bought(b)' = Bought(b)
  BY OrderedBought
<1>t. Bought(batch[p]) \in Int /\ tally[p].running \in Nat /\ q * Price[l] \in Int
  <2>1. q \in Nat /\ Price[l] \in Nat
    BY OrderedNew, LineAssumption
  <2> QED BY <2>1, AmountFacts, LocalFacts
<1>4. Bought(batch[p])' <= tally'[p].running
  <2>1. Bought(batch[p]) <= tally[p].running
    BY <1>1 DEF Budget, Busy
  <2> QED BY <1>1, <1>2, <1>3, <1>t, <2>1
<1>5. ASSUME NEW r \in Proc, r # p, pc'[r] \in Busy PROVE Bought(batch[r])' <= tally'[r].running
  <2>1. pc[r] \in Busy /\ batch'[r] = batch[r] /\ tally'[r] = tally[r]
    BY <1>1, <1>5 DEF Alone
  <2>2. batch[r] # batch[p]
    BY <1>1, <1>5, <2>1 DEF OrderInv, Busy
  <2>3. PICK b : b = batch[r]
    OBVIOUS
  <2>4. Bought(batch[r])' = Bought(b)'
    BY <2>1, <2>3 DEF Bought, BuysOf
  <2>5. Bought(b) <= tally[r].running
    BY <2>1, <2>3 DEF Budget
  <2> QED BY <1>3, <2>1, <2>2, <2>3, <2>4, <2>5
<1>6. ASSUME NEW r \in Proc, pc'[r] \notin Busy PROVE tally'[r].running = 0
  BY <1>1, <1>6 DEF Budget, Alone, Busy
<1>7. ASSUME Cap > 0 PROVE /\ \A r \in Proc : tally'[r].running <= Cap
                           /\ \A b \in Batch : Bought(b)' <= Cap
  <2>1. \A r \in Proc : tally'[r].running <= Cap
    BY <1>1, <1>2, <1>7 DEF Budget, Alone
  <2>2. ASSUME NEW b \in Batch PROVE Bought(b)' <= Cap
    <3>1. CASE b # batch[p]
      BY <1>3, <1>7, <3>1 DEF Budget
    <3>2. CASE b = batch[p]
      <4>1. Bought(batch[p])' = Bought(b)'
        BY <1>1, <3>2 DEF Bought, BuysOf
      <4>2. Bought(b)' \in Int
        BY <4>1, <1>3, <1>t
      <4> QED BY <1>1, <1>2, <1>4, <1>7, <4>1, <4>2, LineAssumption
    <3> QED BY <3>1, <3>2
  <2> QED BY <2>1, <2>2
<1>8. \A r \in Proc : pc'[r] \in Busy => Bought(batch[r])' <= tally'[r].running
  BY <1>4, <1>5
<1> QED BY <1>6, <1>7, <1>8 DEF Budget

\* Every kind of step keeps the budget.
LEMMA KindBudget ==
    ASSUME TypeOK, OrderInv, Budget, NEW p \in Proc, Kind(p)
    PROVE  Budget'
<1> USE DEF broker
<1>0. NoTally.running = 0 /\ (Cap > 0 => 0 <= Cap) /\ (Cap > 0 => tally[p].running <= Cap)
  BY LineAssumption DEF NoTally, Budget
<1>n. pc[p] \notin Busy => tally[p].running = 0
  BY DEF Budget
<1>1. CASE Rest(p)
  BY <1>1, <1>0, <1>n, AloneBudget DEF Rest, Writing
<1>2. CASE Read(p)
  BY <1>2, <1>0, <1>n, AloneBudget DEF Read, Writing, Busy
<1>3. CASE Dropped(p)
  <2>1. tally[p].running <= tally'[p].running /\ (Cap > 0 => tally'[p].running <= Cap)
    BY <1>3, <1>0, SpentWithinCap, LocalFacts DEF Dropped
  <2>2. Bought(batch[p]) <= tally[p].running /\ Bought(batch[p]) \in Int /\ tally[p].running \in Nat
    BY <1>3, AmountFacts, LocalFacts DEF Budget, Dropped
  <2>3. tally'[p].running \in Nat
    BY <1>3, <2>2, SpentWithinCap DEF Dropped
  <2>4. Bought(batch'[p]) <= tally'[p].running
    BY <1>3, <2>1, <2>2, <2>3 DEF Dropped
  <2> QED BY <1>3, <2>1, <2>4, AloneBudget DEF Dropped, Busy
<1>4. CASE Written(p)
  BY <1>4, <1>0, AloneBudget DEF Written, Busy
<1>5. CASE Died(p)
  BY <1>5, <1>0, AloneBudget DEF Died, Busy
<1>6. CASE SheetOpened(p) \/ RetryOpened(p)
  <2>1. PICK lines : Opened(p, lines)
    BY <1>6 DEF SheetOpened, RetryOpened
  <2>2. BuysOf(nbatch + 1) = {}
    BY OrderFacts DEF OrderInv, BuysOf
  <2>3. Bought(batch'[p]) = 0
    BY <2>1, <2>2, SumEmpty DEF Opened, Bought
  <2>4. tally'[p].running = 0
    BY <2>1, <1>n DEF Opened, Busy
  <2> QED BY <2>1, <2>3, <2>4, <1>0, AloneBudget DEF Opened, Busy
<1>7. CASE Asked(p)
  BY <1>7, <1>0, <1>n, AloneBudget DEF Asked, Busy
<1>8. CASE EnterExecute(p)
  <2>1. Alone(p) /\ pc[p] = "loaded" /\ pc'[p] = "plan" /\ tally'[p] = tally[p]
    BY <1>8, LocalFacts DEF EnterExecute, Goto, Alone
  <2> QED BY <1>8, <2>1, <1>0, <1>n, AloneBudget DEF EnterExecute, Busy
<1>9. ASSUME NEW l \in todo[p], NEW q \in Sendable(p, l), Ordered(p, l, q) PROVE Budget'
  BY <1>9, OrderedBudget
<1> QED BY <1>1, <1>2, <1>3, <1>4, <1>5, <1>6, <1>7, <1>8, <1>9 DEF Kind

\* The budget of every batch is kept, whatever fails.
LEMMA StepBudget == TypeOK /\ OrderInv /\ Budget /\ [Next]_vars => Budget'
<1> SUFFICES ASSUME TypeOK, OrderInv, Budget, [Next]_vars PROVE Budget'
  OBVIOUS
<1>1. ASSUME UNCHANGED <<accepted, oqty, pc, tally, batch>> PROVE Budget'
  <2>1. \A b : Bought(b)' = Bought(b)
    BY <1>1, SameBought
  <2>2. \A r \in Proc : Bought(batch[r])' = Bought(batch[r])
    BY <1>1 DEF Bought, BuysOf, Amount
  <2> QED BY <1>1, <2>1, <2>2 DEF Budget
<1>2. CASE Still \/ Tick \/ ExpireRetryLock \/ \E k \in Key : Fill(k)
  BY <1>2, <1>1 DEF Still, Tick, ExpireRetryLock, Fill, broker, local
<1> QED BY <1>2, StepKind, KindBudget

\* Whatever the broker answers, processes crash or Redis does: the buy orders of
\* one execution of _place_lines stay within the cap.
THEOREM CapHolds == Spec => []CapPerBatch
<1>1. Init => OrderInv
  BY InitInv DEF IInv
<1>2. TypeOK /\ Budget => CapPerBatch
  BY CostIsBought DEF Budget, CapPerBatch
<1> QED BY <1>1, <1>2, InitType, StepType, StepOrders, InitBudget, StepBudget, PTL DEF Spec

-----------------------------------------------------------------------------
(* Rows and orders tell of each other. *)

\* Only a session that is going to commit holds rows.
Sessions == \A p \in Proc : pc[p] \notin Writing => draft[p] = NoDraft
\* A row belongs to a batch that was created, and while its owner works on the
\* batch nobody else has a row of it.
Owned == \A k \in Key : (row[k] # "none" \/ \E p \in Proc : draft[p][k] # "none") => k[1] <= nbatch
Apart == \A p \in Proc : pc[p] \in Busy => \A k \in Key : k[1] = batch[p] =>
            row[k] = "none" /\ \A q \in Proc \ {p} : draft[q][k] = "none"
\* An order that is live is not executed in full, and none is live after the close.
Executions ==
    /\ \A k \in live : filled[k] < oqty[k]
    /\ \A k \in Key : filled[k] <= oqty[k]
    /\ phase = Closed => live = {}
\* What a session is about to write of a live order is a live status.
Believed == \A k \in live, p \in Proc : draft[p][k] \in LiveStatus \cup {"none"}
RowInv == Sessions /\ Owned /\ Apart /\ Executions

\* At first there are neither rows nor orders.
LEMMA InitRows == Init => RowInv /\ Believed /\ OnRecord
<1> SUFFICES ASSUME Init PROVE RowInv /\ Believed /\ OnRecord
  OBVIOUS
<1>1. Sessions /\ Owned /\ Apart
  BY DEF Init, Sessions, Owned, Apart, NoDraft, Busy
<1>2. Executions /\ Believed /\ OnRecord
  BY DEF Init, Executions, Believed, OnRecord, Pre, Closed
<1> QED BY <1>1, <1>2 DEF RowInv

\* A step that leaves rows, sessions and orders as they are.
LEMMA SameRows ==
    ASSUME RowInv, NEW p \in Proc, Alone(p), pc[p] \notin Writing, pc'[p] \notin Writing,
           draft'[p] = NoDraft, UNCHANGED <<phase, row, broker, nbatch>>
    PROVE  /\ RowInv' /\ (Believed => Believed') /\ (OnRecord => OnRecord')
<1>1. \A r \in Proc : draft'[r] = draft[r] /\ (pc'[r] \in Busy => pc[r] \in Busy /\ batch'[r] = batch[r])
  BY DEF RowInv, Sessions, Alone, Writing
<1>2. Sessions'
  BY <1>1 DEF RowInv, Sessions, Alone
<1>3. Owned' /\ Apart' /\ Executions'
  BY <1>1 DEF RowInv, Owned, Apart, Executions, broker
<1>4. (Believed => Believed') /\ (OnRecord => OnRecord')
  BY <1>1 DEF Believed, OnRecord, broker
<1> QED BY <1>2, <1>3, <1>4 DEF RowInv

\* A line that is dropped has no order in its batch.
LEMMA DroppedRows ==
    ASSUME TypeOK, OrderInv, RowInv, NEW p \in Proc, Dropped(p)
    PROVE  /\ RowInv' /\ (Believed => Believed') /\ (OnRecord => OnRecord')
<1>1. PICK lines \in SUBSET todo[p], status \in Status \ (LiveStatus \cup {"none"}) :
          draft'[p] = [k \in Key |-> IF k[1] = batch[p] /\ k[2] \in lines THEN status ELSE draft[p][k]]
  BY DEF Dropped
<1>2. /\ Alone(p) /\ pc[p] \in Busy /\ pc'[p] \in Busy /\ batch'[p] = batch[p]
      /\ UNCHANGED <<phase, row, broker, nbatch>>
  BY DEF Dropped, Busy
<1>3. ASSUME NEW k \in Key
      PROVE  draft'[p][k] = draft[p][k] \/ (k[1] = batch[p] /\ k \notin accepted)
  <2>1. CASE k[1] = batch[p] /\ k[2] \in lines
    <3>1. k = <<batch[p], k[2]>>
      BY <2>1 DEF Key
    <3> QED BY <1>2, <2>1, <3>1 DEF OrderInv, Busy
  <2>2. CASE ~(k[1] = batch[p] /\ k[2] \in lines)
    BY <1>1, <2>2
  <2> QED BY <2>1, <2>2
<1>4. \A r \in Proc \ {p} : draft'[r] = draft[r] /\ pc'[r] = pc[r] /\ batch'[r] = batch[r]
  BY <1>2 DEF Alone
<1>5. Sessions'
  BY <1>2, <1>4 DEF RowInv, Sessions, Writing
<1>6. Owned'
  <2>1. batch[p] <= nbatch /\ nbatch' = nbatch /\ row' = row
    BY <1>2, LocalFacts, OrderFacts
  <2> QED BY <1>3, <1>4, <2>1 DEF RowInv, Owned
<1>7. Apart'
  <2> SUFFICES ASSUME NEW r \in Proc, pc'[r] \in Busy, NEW k \in Key, k[1] = batch'[r]
               PROVE  row'[k] = "none" /\ \A q \in Proc \ {r} : draft'[q][k] = "none"
    BY DEF Apart
  <2>1. pc[r] \in Busy /\ batch'[r] = batch[r] /\ row' = row
    BY <1>2, <1>4
  <2>2. row[k] = "none" /\ \A q \in Proc \ {r} : draft[q][k] = "none"
    BY <2>1 DEF RowInv, Apart
  <2>3. CASE r = p
    BY <1>4, <2>1, <2>2, <2>3
  <2>4. CASE r # p
    <3>1. batch[r] # batch[p]
      BY <1>2, <2>1, <2>4 DEF OrderInv, Busy
    <3> QED BY <1>3, <1>4, <2>1, <2>2, <3>1
  <2> QED BY <2>3, <2>4
<1>8. Executions'
  BY <1>2 DEF RowInv, Executions, broker
<1>9. live' = live /\ live \subseteq accepted /\ accepted \subseteq Key /\ row' = row
  BY <1>2, OrderFacts DEF broker
<1>10. ASSUME NEW k \in live, NEW r \in Proc PROVE draft'[r][k] = draft[r][k]
  BY <1>3, <1>4, <1>9
<1>11. (Believed => Believed') /\ (OnRecord => OnRecord')
  BY <1>9, <1>10 DEF Believed, OnRecord
<1> QED BY <1>5, <1>6, <1>7, <1>8, <1>11 DEF RowInv

\* The rows of a new batch are new.
LEMMA OpenedRows ==
    ASSUME TypeOK, OrderInv, RowInv, NEW p \in Proc, NEW lines, Opened(p, lines)
    PROVE  /\ RowInv' /\ (Believed => Believed') /\ (OnRecord => OnRecord')
<1>1. /\ Alone(p) /\ pc[p] \notin Writing /\ pc'[p] = "open"
      /\ nbatch' = nbatch + 1 /\ batch'[p] = nbatch + 1 /\ UNCHANGED <<phase, row, broker>>
      /\ draft'[p] = [k \in Key |-> IF k[1] = nbatch + 1 /\ k[2] \in lines THEN "skipped" ELSE draft[p][k]]
  BY DEF Opened, Writing, Busy
<1>2. ASSUME NEW k \in Key PROVE draft'[p][k] = draft[p][k] \/ k[1] = nbatch + 1
  BY <1>1
<1>3. \A r \in Proc \ {p} : draft'[r] = draft[r] /\ pc'[r] = pc[r] /\ batch'[r] = batch[r]
  BY <1>1 DEF Alone
<1>4. Sessions'
  BY <1>1, <1>3 DEF RowInv, Sessions, Writing, Busy
<1>5. \A k \in Key : k[1] \in Nat /\ nbatch \in Nat
  BY OrderFacts
<1>6. Owned'
  BY <1>1, <1>2, <1>3, <1>5 DEF RowInv, Owned
<1>7. Apart'
  <2> SUFFICES ASSUME NEW r \in Proc, pc'[r] \in Busy, NEW k \in Key, k[1] = batch'[r]
               PROVE  row'[k] = "none" /\ \A q \in Proc \ {r} : draft'[q][k] = "none"
    BY DEF Apart
  <2>1. CASE r = p
    <3>1. ~(k[1] <= nbatch)
      BY <1>1, <1>5, <2>1
    <3> QED BY <1>1, <1>3, <2>1, <3>1 DEF RowInv, Owned
  <2>2. CASE r # p
    <3>1. pc[r] \in Busy /\ batch'[r] = batch[r] /\ batch[r] <= nbatch
      BY <1>3, <2>2, LocalFacts, OrderFacts
    <3>2. row[k] = "none" /\ \A q \in Proc \ {r} : draft[q][k] = "none"
      BY <3>1 DEF RowInv, Apart
    <3>3. k[1] # nbatch + 1
      BY <1>5, <3>1
    <3> QED BY <1>1, <1>2, <1>3, <3>2, <3>3
  <2> QED BY <2>1, <2>2
<1>8. Executions'
  BY <1>1 DEF RowInv, Executions, broker
<1>9. live' = live /\ live \subseteq Key /\ row' = row /\ \A k \in live : k[1] <= nbatch
  BY <1>1, OrderFacts DEF broker, OrderInv
<1>10. ASSUME NEW k \in live, NEW r \in Proc PROVE draft'[r][k] = draft[r][k]
  BY <1>2, <1>3, <1>5, <1>9
<1>11. (Believed => Believed') /\ (OnRecord => OnRecord')
  BY <1>9, <1>10 DEF Believed, OnRecord
<1> QED BY <1>4, <1>6, <1>7, <1>8, <1>11 DEF RowInv

\* What may be sent is at least one.
LEMMA SendablePositive ==
    ASSUME TypeOK, NEW p \in Proc, NEW l \in todo[p], NEW q \in Sendable(p, l)
    PROVE  q >= 1
<1>1. l \in Line
  BY LocalFacts
<1>2. CASE l \in Buys
  <2>1. q \in 1..Room(p, l)
    BY <1>2 DEF Sendable
  <2> QED BY <2>1
<1>3. CASE l \notin Buys
  BY <1>1, <1>3, LineAssumption DEF Sendable
<1> QED BY <1>2, <1>3

\* The order that goes out gets a live row in its sender's session, if it is acknowledged.
LEMMA OrderedRows ==
    ASSUME TypeOK, OrderInv, RowInv, NEW p \in Proc, NEW l \in todo[p], NEW q \in Sendable(p, l),
           Ordered(p, l, q)
    PROVE  /\ RowInv'
           /\ (Believed /\ "lost_ack" \notin Faults => Believed')
           /\ (OnRecord /\ "lost_ack" \notin Faults => OnRecord')
<1> DEFINE new == <<batch[p], l>>
<1>1. /\ new \in Key \ accepted /\ q \in Nat /\ oqty[new] = 0 /\ oqty' = [oqty EXCEPT ![new] = q]
  BY OrderedNew
<1>2. /\ Alone(p) /\ pc[p] = "place" /\ pc'[p] = "place" /\ batch'[p] = batch[p] /\ phase < Closed
      /\ live' = live \cup {new} /\ new[1] = batch[p] /\ new[2] = l
      /\ UNCHANGED <<phase, row, filled, nbatch>>
  BY DEF Ordered
<1>3. PICK status \in {"submitted"} \cup (IF "lost_ack" \in Faults THEN {"failed"} ELSE {}) :
          draft'[p] = [k \in Key |-> IF k[1] = batch[p] /\ k[2] = l THEN status ELSE draft[p][k]]
  BY DEF Ordered
<1>4. \A k \in Key : k[1] = batch[p] /\ k[2] = l <=> k = new
  BY <1>1, <1>2 DEF Key
<1>t. /\ live \subseteq Key /\ filled \in [Key -> Nat] /\ batch[p] <= nbatch /\ phase' = phase /\ row' = row
  BY <1>2, OrderFacts, LocalFacts
<1> HIDE DEF new
<1>5. \A k \in Key : IF k = new THEN draft'[p][k] = status ELSE draft'[p][k] = draft[p][k]
  BY <1>3, <1>4
<1>6. \A r \in Proc \ {p} : draft'[r] = draft[r] /\ pc'[r] = pc[r] /\ batch'[r] = batch[r]
  BY <1>2 DEF Alone
<1>7. Sessions'
  BY <1>2, <1>6 DEF RowInv, Sessions, Writing, Busy
<1>8. Owned'
  BY <1>1, <1>2, <1>5, <1>6, <1>t DEF RowInv, Owned
<1>9. Apart'
  <2> SUFFICES ASSUME NEW r \in Proc, pc'[r] \in Busy, NEW k \in Key, k[1] = batch'[r]
               PROVE  row'[k] = "none" /\ \A s \in Proc \ {r} : draft'[s][k] = "none"
    BY DEF Apart
  <2>1. pc[r] \in Busy /\ batch'[r] = batch[r]
    BY <1>2, <1>6 DEF Busy
  <2>2. row[k] = "none" /\ \A s \in Proc \ {r} : draft[s][k] = "none"
    BY <2>1 DEF RowInv, Apart
  <2>3. CASE r = p
    BY <1>6, <1>t, <2>2, <2>3
  <2>4. CASE r # p
    <3>1. batch[r] # batch[p]
      BY <1>2, <2>1, <2>4 DEF OrderInv, Busy
    <3> QED BY <1>2, <1>5, <1>6, <1>t, <2>1, <2>2, <3>1
  <2> QED BY <2>3, <2>4
<1>10. Executions'
  <2>1. filled[new] = 0 /\ q > 0
    BY <1>1, <1>t, SendablePositive DEF RowInv, Executions
  <2>2. \A k \in Key : k # new => oqty'[k] = oqty[k]
    BY <1>1, OrderFacts
  <2>3. oqty'[new] = q
    BY <1>1, OrderFacts
  <2>4. phase # Closed
    BY <1>2 DEF Closed
  <2> QED BY <1>1, <1>2, <1>t, <2>1, <2>2, <2>3, <2>4 DEF RowInv, Executions
<1>11. ASSUME Believed, "lost_ack" \notin Faults PROVE Believed'
  <2> SUFFICES ASSUME NEW k \in live', NEW r \in Proc PROVE draft'[r][k] \in LiveStatus \cup {"none"}
    BY DEF Believed
  <2>1. CASE k # new
    BY <1>2, <1>5, <1>6, <1>11, <1>t, <2>1 DEF Believed
  <2>2. CASE k = new /\ r = p
    BY <1>1, <1>3, <1>5, <1>11, <2>2 DEF LiveStatus
  <2>3. CASE k = new /\ r # p
    <3>1. draft[r][k] = "none"
      BY <1>1, <1>2, <2>3 DEF RowInv, Apart, Busy
    <3> QED BY <1>6, <2>3, <3>1
  <2> QED BY <2>1, <2>2, <2>3
<1>12. ASSUME OnRecord, "lost_ack" \notin Faults PROVE OnRecord'
  <2> SUFFICES ASSUME NEW k \in live' PROVE row'[k] \in LiveStatus \/ \E r \in Proc : draft'[r][k] \in LiveStatus
    BY DEF OnRecord
  <2>1. CASE k = new
    BY <1>1, <1>3, <1>5, <1>12, <2>1 DEF LiveStatus
  <2>2. CASE k # new
    BY <1>2, <1>5, <1>6, <1>12, <1>t, <2>2 DEF OnRecord
  <2> QED BY <2>1, <2>2
<1> QED BY <1>7, <1>8, <1>9, <1>10, <1>11, <1>12 DEF RowInv

\* A commit moves rows from the session to the table.
LEMMA WrittenRows ==
    ASSUME TypeOK, OrderInv, RowInv, NEW p \in Proc, Written(p)
    PROVE  RowInv' /\ (Believed => Believed') /\ (Believed /\ OnRecord => OnRecord')
<1>1. /\ Alone(p) /\ pc'[p] \notin Writing /\ draft'[p] = NoDraft
      /\ UNCHANGED <<phase, broker, nbatch>>
  BY DEF Written, Writing, Busy
<1>2. \A k \in Key : row'[k] = IF draft[p][k] # "none" THEN draft[p][k] ELSE row[k]
  BY DEF Written, Flushed
<1>3. \A r \in Proc \ {p} : draft'[r] = draft[r] /\ pc'[r] = pc[r] /\ batch'[r] = batch[r]
  BY <1>1 DEF Alone
<1>4. \A k \in Key : draft'[p][k] = "none"
  BY <1>1 DEF NoDraft
<1>5. Sessions'
  BY <1>1, <1>3 DEF RowInv, Sessions
<1>6. Owned'
  BY <1>1, <1>2, <1>3, <1>4 DEF RowInv, Owned
<1>7. Apart'
  <2> SUFFICES ASSUME NEW r \in Proc, pc'[r] \in Busy, NEW k \in Key, k[1] = batch'[r]
               PROVE  row'[k] = "none" /\ \A s \in Proc \ {r} : draft'[s][k] = "none"
    BY DEF Apart
  <2>1. r # p /\ pc[r] \in Busy /\ batch'[r] = batch[r]
    BY <1>1, <1>3 DEF Writing
  <2>2. row[k] = "none" /\ \A s \in Proc \ {r} : draft[s][k] = "none"
    BY <2>1 DEF RowInv, Apart
  <2> QED BY <1>2, <1>3, <1>4, <2>1, <2>2
<1>8. Executions'
  BY <1>1 DEF RowInv, Executions, broker
<1>9. live' = live /\ live \subseteq Key
  BY <1>1, OrderFacts DEF broker
<1>10. Believed => Believed'
  BY <1>3, <1>4, <1>9 DEF Believed
<1>11. ASSUME Believed, OnRecord PROVE OnRecord'
  <2> SUFFICES ASSUME NEW k \in live PROVE row'[k] \in LiveStatus \/ \E r \in Proc : draft'[r][k] \in LiveStatus
    BY <1>9 DEF OnRecord
  <2>1. CASE draft[p][k] # "none"
    BY <1>2, <1>9, <1>11, <2>1 DEF Believed
  <2>2. CASE draft[p][k] = "none"
    <3>1. CASE row[k] \in LiveStatus
      BY <1>2, <1>9, <2>2, <3>1
    <3>2. ASSUME NEW r \in Proc, draft[r][k] \in LiveStatus PROVE \E s \in Proc : draft'[s][k] \in LiveStatus
      BY <1>3, <2>2, <3>2 DEF LiveStatus
    <3> QED BY <1>11, <3>1, <3>2 DEF OnRecord
  <2> QED BY <2>1, <2>2
<1> QED BY <1>5, <1>6, <1>7, <1>8, <1>10, <1>11 DEF RowInv

\* The executions of the day do not close the row of an order that is live.
LEMMA LiveSynced ==
    ASSUME TypeOK, RowInv, NEW k \in live
    PROVE  Synced(k) \in LiveStatus
<1>1. filled[k] < oqty[k] /\ filled[k] \in Nat /\ oqty[k] \in Nat /\ phase # Closed
  BY OrderFacts DEF RowInv, Executions
<1> QED BY <1>1 DEF Synced, LiveStatus

\* A request brings rows up to date or cancels; what stays live keeps its row.
LEMMA AskedRows ==
    ASSUME TypeOK, OrderInv, RowInv, NEW u \in Proc, Asked(u)
    PROVE  RowInv' /\ (Believed => Believed') /\ (OnRecord => OnRecord')
<1>1. /\ Alone(u) /\ pc[u] = "new" /\ pc'[u] \in {"writing", "done"} /\ live' \subseteq live
      /\ pc'[u] = "done" => draft'[u] = draft[u]
      /\ UNCHANGED <<phase, accepted, oqty, filled, nbatch>>
  BY DEF Asked
<1>2. \A k \in Key : row'[k] = row[k] \/ (row[k] \in LiveStatus /\ row'[k] = Synced(k))
  BY DEF Asked
<1>3. \A k \in Key : \/ draft'[u][k] = draft[u][k]
                     \/ row[k] \in LiveStatus /\ draft'[u][k] = Synced(k)
                     \/ row[k] \in LiveStatus /\ draft'[u][k] = "cancelled" /\ k \in live \ live'
  BY DEF Asked
<1>4. \A r \in Proc \ {u} : draft'[r] = draft[r] /\ pc'[r] = pc[r] /\ batch'[r] = batch[r]
  BY <1>1 DEF Alone
<1>5. Sessions'
  BY <1>1, <1>4 DEF RowInv, Sessions, Writing, Busy
<1>6. Owned'
  BY <1>1, <1>2, <1>3, <1>4 DEF RowInv, Owned, LiveStatus
<1>7. Apart'
  <2> SUFFICES ASSUME NEW r \in Proc, pc'[r] \in Busy, NEW k \in Key, k[1] = batch'[r]
               PROVE  row'[k] = "none" /\ \A s \in Proc \ {r} : draft'[s][k] = "none"
    BY DEF Apart
  <2>1. r # u /\ pc[r] \in Busy /\ batch'[r] = batch[r]
    BY <1>1, <1>4 DEF Busy
  <2>2. row[k] = "none" /\ \A s \in Proc \ {r} : draft[s][k] = "none"
    BY <2>1 DEF RowInv, Apart
  <2> QED BY <1>2, <1>3, <1>4, <2>1, <2>2 DEF LiveStatus
<1>8. Executions'
  BY <1>1 DEF RowInv, Executions
<1>9. live \subseteq Key /\ \A k \in live : Synced(k) \in LiveStatus
  BY OrderFacts, LiveSynced
<1>10. ASSUME Believed PROVE Believed'
  <2> SUFFICES ASSUME NEW k \in live', NEW r \in Proc PROVE draft'[r][k] \in LiveStatus \cup {"none"}
    BY DEF Believed
  <2>1. k \in live /\ k \in Key
    BY <1>1, <1>9
  <2> QED BY <1>3, <1>4, <1>9, <1>10, <2>1 DEF Believed
<1>11. ASSUME OnRecord PROVE OnRecord'
  <2> SUFFICES ASSUME NEW k \in live' PROVE row'[k] \in LiveStatus \/ \E r \in Proc : draft'[r][k] \in LiveStatus
    BY DEF OnRecord
  <2>1. k \in live /\ k \in Key
    BY <1>1, <1>9
  <2>2. CASE row[k] \in LiveStatus
    BY <1>2, <1>9, <2>1, <2>2
  <2>3. ASSUME NEW r \in Proc, draft[r][k] \in LiveStatus PROVE \E s \in Proc : draft'[s][k] \in LiveStatus
    BY <1>3, <1>4, <1>9, <2>1, <2>3
  <2> QED BY <1>11, <2>1, <2>2, <2>3 DEF OnRecord
<1> QED BY <1>5, <1>6, <1>7, <1>8, <1>10, <1>11 DEF RowInv

\* Who dies takes his rows with him.
LEMMA DiedRows ==
    ASSUME TypeOK, RowInv, NEW p \in Proc, Died(p)
    PROVE  RowInv' /\ (Believed => Believed')
<1>1. /\ Alone(p) /\ pc'[p] = "done" /\ draft'[p] = NoDraft
      /\ UNCHANGED <<phase, row, broker, nbatch>>
  BY DEF Died
<1>2. \A r \in Proc \ {p} : draft'[r] = draft[r] /\ pc'[r] = pc[r] /\ batch'[r] = batch[r]
  BY <1>1 DEF Alone
<1>3. \A k \in Key : draft'[p][k] = "none"
  BY <1>1 DEF NoDraft
<1>4. Sessions' /\ Owned' /\ Executions'
  BY <1>1, <1>2, <1>3 DEF RowInv, Sessions, Owned, Executions, broker
<1>5. Apart'
  BY <1>1, <1>2, <1>3 DEF RowInv, Apart, Busy
<1>6. Believed => Believed'
  BY <1>1, <1>2, <1>3, OrderFacts DEF Believed, broker
<1> QED BY <1>4, <1>5, <1>6 DEF RowInv

\* Every kind of step keeps rows and orders in agreement.
LEMMA KindRows ==
    ASSUME TypeOK, OrderInv, RowInv, NEW p \in Proc, Kind(p)
    PROVE  /\ RowInv'
           /\ "lost_ack" \notin Faults /\ Believed => Believed'
           /\ {"lost_ack", "crash"} \cap Faults = {} /\ Believed /\ OnRecord => OnRecord'
<1>1. CASE Rest(p) \/ Read(p) \/ EnterExecute(p)
  <2>1. /\ Alone(p) /\ pc[p] \notin Writing /\ pc'[p] \notin Writing
        /\ draft'[p] \in {NoDraft, draft[p]} /\ UNCHANGED <<phase, row, broker, nbatch>>
    BY <1>1, LocalFacts DEF Rest, Read, EnterExecute, Goto, Alone, Writing, Busy, shared
  <2>2. draft'[p] = NoDraft
    BY <2>1 DEF RowInv, Sessions
  <2> QED BY <2>1, <2>2, SameRows
<1>2. CASE Dropped(p)
  BY <1>2, DroppedRows
<1>3. CASE Written(p)
  BY <1>3, WrittenRows
<1>4. CASE Died(p)
  BY <1>4, DiedRows DEF Died
<1>5. CASE SheetOpened(p) \/ RetryOpened(p)
  BY <1>5, OpenedRows DEF SheetOpened, RetryOpened
<1>6. CASE Asked(p)
  BY <1>6, AskedRows
<1>7. ASSUME NEW l \in todo[p], NEW q \in Sendable(p, l), Ordered(p, l, q)
      PROVE  /\ RowInv'
             /\ "lost_ack" \notin Faults /\ Believed => Believed'
             /\ {"lost_ack", "crash"} \cap Faults = {} /\ Believed /\ OnRecord => OnRecord'
  BY <1>7, OrderedRows
<1> QED BY <1>1, <1>2, <1>3, <1>4, <1>5, <1>6, <1>7 DEF Kind

\* So does every step of the day.
LEMMA StepRows ==
    ASSUME TypeOK, OrderInv, RowInv, [Next]_vars
    PROVE  /\ RowInv'
           /\ "lost_ack" \notin Faults /\ Believed => Believed'
           /\ {"lost_ack", "crash"} \cap Faults = {} /\ Believed /\ OnRecord => OnRecord'
<1>t. live \subseteq Key /\ filled \in [Key -> Nat] /\ oqty \in [Key -> Nat]
  BY OrderFacts
<1>1. CASE Still \/ ExpireRetryLock
  <2>1. UNCHANGED <<phase, row, broker, nbatch, pc, batch, draft>>
    BY <1>1 DEF Still, ExpireRetryLock, shared, local
  <2>2. RowInv'
    BY <2>1 DEF RowInv, Sessions, Owned, Apart, Executions, broker
  <2>3. (Believed => Believed') /\ (OnRecord => OnRecord')
    BY <2>1 DEF Believed, OnRecord, broker
  <2> QED BY <2>2, <2>3
<1>2. CASE Tick
  <2>1. /\ live' \subseteq live /\ (phase' = Closed => live' = {})
        /\ UNCHANGED <<row, oqty, filled, nbatch, pc, batch, draft>>
    BY <1>2 DEF Tick, shared, local
  <2>2. RowInv'
    BY <2>1 DEF RowInv, Sessions, Owned, Apart, Executions
  <2>3. (Believed => Believed') /\ (OnRecord => OnRecord')
    BY <2>1 DEF Believed, OnRecord
  <2> QED BY <2>2, <2>3
<1>3. ASSUME NEW j \in Key, Fill(j)
      PROVE  RowInv' /\ (Believed => Believed') /\ (OnRecord => OnRecord')
  <2>1. /\ j \in live /\ filled' = [filled EXCEPT ![j] = @ + 1]
        /\ live' = (IF filled'[j] = oqty[j] THEN live \ {j} ELSE live)
        /\ UNCHANGED <<phase, row, oqty, nbatch, pc, batch, draft>>
    BY <1>3 DEF Fill, shared, local
  <2>2. Sessions' /\ Owned' /\ Apart'
    BY <2>1 DEF RowInv, Sessions, Owned, Apart
  <2>3. Executions'
    <3>1. filled[j] < oqty[j] /\ filled[j] \in Nat /\ oqty[j] \in Nat /\ filled'[j] = filled[j] + 1
      BY <1>t, <2>1 DEF RowInv, Executions
    <3>2. \A k \in Key : k # j => filled'[k] = filled[k]
      BY <1>t, <2>1
    <3>3. live' \subseteq live
      BY <2>1
    <3>4. ASSUME NEW k \in live' PROVE filled'[k] < oqty'[k]
      <4>1. CASE k = j
        BY <2>1, <3>1, <4>1
      <4>2. CASE k # j
        BY <1>t, <2>1, <3>2, <3>3, <4>2 DEF RowInv, Executions
      <4> QED BY <4>1, <4>2
    <3>5. ASSUME NEW k \in Key PROVE filled'[k] <= oqty'[k]
      BY <2>1, <3>1, <3>2 DEF RowInv, Executions
    <3>6. phase' = Closed => live' = {}
      BY <2>1, <3>3 DEF RowInv, Executions
    <3> QED BY <3>4, <3>5, <3>6 DEF Executions
  <2>4. live' \subseteq live
    BY <2>1
  <2>5. (Believed => Believed') /\ (OnRecord => OnRecord')
    BY <2>1, <2>4 DEF Believed, OnRecord
  <2> QED BY <2>2, <2>3, <2>5 DEF RowInv
<1> QED BY <1>1, <1>2, <1>3, StepKind, KindRows

\* As long as no process dies and no answer of the broker is lost, whoever cancels,
\* synchronises or retries at the same time and whatever Redis does: an order that
\* is live has a live row, in the table or in the session that is about to commit it.
THEOREM LiveOrdersOnRecord ==
    ASSUME {"lost_ack", "crash"} \cap Faults = {}
    PROVE  Spec => []OnRecord
<1>1. Init => OrderInv
  BY InitInv DEF IInv
<1>2. TypeOK /\ OrderInv /\ RowInv /\ Believed /\ OnRecord /\ [Next]_vars
        => RowInv' /\ Believed' /\ OnRecord'
  BY StepRows
<1> QED BY <1>1, <1>2, InitType, StepType, StepOrders, InitRows, PTL DEF Spec

-----------------------------------------------------------------------------
(* Who may place: one process at a time. *)

\* The day's run is over: its rows are there for others to read.
Started == dayLock /\ \A w \in Proc : ~InRun(w)
Holds(p) == pc[p] \in Busy /\ op[p] = "retry"
\* Until then nobody has rows to try again.
Quiet ==
    /\ \A k \in Key : row[k] = "none"
    /\ \A p \in Proc : pc[p] # "locking" /\ ~Holds(p)
    /\ \A p \in Proc : pc[p] \notin Busy => \A k \in Key : draft[p][k] = "none"
\* Who places is the run or a retry that holds the retry lock, in the last batch.
Turns ==
    /\ \A p \in Proc : pc[p] \in Busy => op[p] \in {"run", "retry"} /\ batch[p] = nbatch
    /\ \A p \in Proc : Holds(p) => retryLock
    /\ ~Started => Quiet

\* Two processes never place at the same time.
LEMMA OnePlaces ==
    ASSUME OrderInv, Turns, NEW v \in Proc, NEW w \in Proc, pc[v] \in Busy, pc[w] \in Busy
    PROVE  v = w
  BY DEF OrderInv, Turns, Busy

\* At first nobody places and nobody has rows.
LEMMA InitTurns == Init => Turns
  BY DEF Init, Turns, Busy, Holds, Quiet, NoDraft

\* A step that opens no batch and leaves nobody in the run who was not in it.
LEMMA OtherTurns ==
    ASSUME Turns, NEW p \in Proc, Alone(p), nbatch' = nbatch, dayLock' = dayLock, retryLock' = retryLock,
           \/ pc'[p] \notin Busy
           \/ pc[p] \in Busy /\ op'[p] = op[p] /\ batch'[p] = batch[p],
           Started => Started', Started' \/ (~Started => Quiet')
    PROVE  Turns'
<1>1. \A r \in Proc : pc'[r] \in Busy => pc[r] \in Busy /\ op'[r] = op[r] /\ batch'[r] = batch[r]
  BY DEF Alone
<1> QED BY <1>1 DEF Turns, Holds

\* Who is in the run after the step was in it before, unless he takes the day lock.
LEMMA StaysStarted ==
    ASSUME OpInv, Started, NEW p \in Proc, Kind(p), "redis_down" \notin Faults
    PROVE  Started'
<1>1. ~ EnterExecute(p)
  BY DEF Started, EnterExecute, AcquireDayLock
<1>2. dayLock' = dayLock /\ Alone(p)
  BY <1>1 DEF Kind, Rest, Read, Dropped, Written, Died, SheetOpened, RetryOpened, Opened, Asked, Ordered
<1>3. ASSUME op'[p] = "run", pc'[p] \in {"plan", "open", "place"}
      PROVE  op[p] = "run" /\ pc[p] \in {"plan", "open", "place"}
  <2>1. CASE Rest(p) \/ Read(p) \/ Written(p) \/ Died(p) \/ Asked(p)
    BY <1>3, <2>1 DEF Rest, Read, Written, Died, Asked, Writing, Busy
  <2>2. CASE Dropped(p) \/ \E l \in todo[p] : \E q \in Sendable(p, l) : Ordered(p, l, q)
    BY <1>3, <2>2 DEF Dropped, Ordered, Busy
  <2>3. CASE SheetOpened(p)
    BY <1>3, <2>3 DEF SheetOpened, Opened
  <2>4. CASE RetryOpened(p)
    BY <1>3, <2>4 DEF RetryOpened, Opened, OpInv
  <2> QED BY <1>1, <2>1, <2>2, <2>3, <2>4 DEF Kind
<1>4. ASSUME NEW w \in Proc PROVE ~InRun(w)'
  <2>1. CASE w = p
    BY <1>3, <2>1 DEF Started, InRun
  <2>2. CASE w # p
    BY <1>2, <2>2 DEF Started, InRun, Alone
  <2> QED BY <2>1, <2>2
<1> QED BY <1>2, <1>4 DEF Started

\* Nobody places when a batch is opened.
LEMMA OpenedAlone ==
    ASSUME OpInv, RunInv, Turns, NEW p \in Proc, "redis_down" \notin Faults,
           SheetOpened(p) \/ RetryOpened(p)
    PROVE  \A r \in Proc : pc[r] \notin Busy
<1> SUFFICES ASSUME NEW r \in Proc, pc[r] \in Busy PROVE FALSE
  OBVIOUS
<1>1. op[r] \in {"run", "retry"}
  BY DEF Turns
<1>2. CASE SheetOpened(p)
  <2>1. InRun(p) /\ pc[p] = "plan"
    BY <1>2 DEF SheetOpened, OpInv, InRun
  <2>2. ~Holds(r)
    BY <2>1 DEF Turns, Quiet, Started
  <2>3. InRun(r)
    BY <1>1, <2>2 DEF Holds, InRun, Busy
  <2> QED BY <2>1, <2>3 DEF RunInv, Busy
<1>3. CASE RetryOpened(p)
  <2>1. pc[p] = "locking" /\ ~retryLock
    BY <1>3 DEF RetryOpened, AcquireRetryLock
  <2>2. Started /\ ~Holds(r)
    BY <2>1 DEF Turns, Quiet
  <2> QED BY <1>1, <2>2 DEF Started, InRun, Holds, Busy
<1> QED BY <1>2, <1>3

\* Who opens a batch is the only one who places.
LEMMA OpenedTurns ==
    ASSUME OpInv, RunInv, RowInv, Turns, NEW p \in Proc, "redis_down" \notin Faults,
           SheetOpened(p) \/ RetryOpened(p)
    PROVE  Turns'
<1>1. PICK lines : Opened(p, lines)
  BY DEF SheetOpened, RetryOpened
<1>2. /\ Alone(p) /\ pc'[p] = "open" /\ op'[p] = op[p] /\ nbatch' = nbatch + 1 /\ batch'[p] = nbatch + 1
      /\ dayLock' = dayLock /\ row' = row
  BY <1>1 DEF Opened
<1>3. \A r \in Proc \ {p} : pc'[r] \notin Busy
  BY <1>2, OpenedAlone DEF Alone
<1>4. op[p] \in {"run", "retry"}
  BY DEF SheetOpened, RetryOpened, OpInv
<1>5. Holds(p)' => retryLock'
  BY <1>2 DEF SheetOpened, RetryOpened, OpInv, AcquireRetryLock, Holds
<1>6. ASSUME ~Started' PROVE Quiet'
  <2>1. ~Started
    BY <1>6, StaysStarted DEF Kind
  <2>2. pc[p] # "locking"
    BY <2>1 DEF Turns, Quiet
  <2>3. op[p] = "run"
    BY <2>2 DEF SheetOpened, RetryOpened, OpInv
  <2>4. \A r \in Proc : pc'[r] # "locking" /\ ~Holds(r)'
    BY <1>2, <1>3, <2>1, <2>3 DEF Turns, Quiet, Holds, Alone
  <2>5. ASSUME NEW r \in Proc, pc'[r] \notin Busy, NEW k \in Key PROVE draft'[r][k] = "none"
    <3>1. r # p /\ draft'[r] = draft[r] /\ pc'[r] = pc[r]
      BY <1>2, <2>5 DEF Alone, Busy
    <3> QED BY <2>1, <2>5, <3>1 DEF Turns, Quiet
  <2> QED BY <1>2, <2>1, <2>4, <2>5 DEF Turns, Quiet
<1>7. \A r \in Proc : pc'[r] \in Busy => op'[r] \in {"run", "retry"} /\ batch'[r] = nbatch'
  BY <1>2, <1>3, <1>4
<1>8. \A r \in Proc : Holds(r)' => retryLock'
  BY <1>3, <1>5 DEF Holds
<1> QED BY <1>6, <1>7, <1>8 DEF Turns

\* Every kind of step leaves one process at most that places.
LEMMA KindTurns ==
    ASSUME TypeOK, OpInv, RunInv, RowInv, Turns, NEW p \in Proc, Kind(p),
           "redis_down" \notin Faults, "crash" \notin Faults
    PROVE  Turns'
<1>s. Started => Started'
  BY StaysStarted
<1>1. CASE Rest(p)
  <2>1. /\ Alone(p) /\ pc[p] \notin Writing /\ pc'[p] \notin Writing \cup {"plan", "locking"}
        /\ draft'[p] \in {NoDraft, draft[p]} /\ UNCHANGED <<row, dayLock, retryLock, nbatch>>
    BY <1>1 DEF Rest
  <2>2. \A k \in Key : draft'[p][k] = "none"
    BY <2>1 DEF RowInv, Sessions, NoDraft
  <2>3. Quiet => Quiet'
    BY <2>1, <2>2 DEF Quiet, Holds, Alone, Writing
  <2> QED BY <1>s, <2>1, <2>3, OtherTurns DEF Turns, Writing
<1>2. CASE Read(p)
  <2>1. /\ Alone(p) /\ pc[p] \notin Writing /\ pc'[p] = "locking"
        /\ UNCHANGED <<row, dayLock, retryLock, nbatch>>
    BY <1>2 DEF Read
  <2>2. Started
    <3>1. PICK l \in Line : LatestStatus(l) \in Again
      BY <1>2 DEF Read
    <3>2. LatestStatus(l) # "none"
      BY <3>1 DEF Again, Reorderable, Retryable
    <3>3. PICK b \in Batch : row[<<b, l>>] # "none"
      BY <3>2 DEF LatestStatus
    <3> QED BY <3>3 DEF Turns, Quiet, Key
  <2> QED BY <1>s, <2>1, <2>2, OtherTurns DEF Busy
<1>3. CASE Dropped(p) \/ \E l \in todo[p] : \E q \in Sendable(p, l) : Ordered(p, l, q)
  <2>1. /\ Alone(p) /\ pc[p] \in Busy /\ pc'[p] = "place" /\ op'[p] = op[p] /\ batch'[p] = batch[p]
        /\ UNCHANGED <<row, dayLock, retryLock, nbatch>>
    BY <1>3 DEF Dropped, Ordered, Busy
  <2>2. Quiet => Quiet'
    BY <2>1 DEF Quiet, Holds, Alone, Busy
  <2> QED BY <1>s, <2>1, <2>2, OtherTurns DEF Turns
<1>4. CASE Written(p)
  <2>1. /\ Alone(p) /\ pc[p] \in Writing /\ pc'[p] \in {"judged", "done"} /\ draft'[p] = NoDraft
        /\ UNCHANGED <<dayLock, retryLock, nbatch>> /\ row' = Flushed(p)
    BY <1>4 DEF Written
  <2>2. ASSUME InRun(p) PROVE Started'
    <3>1. dayLock
      BY <2>2 DEF RunInv
    <3>2. \A w \in Proc : ~InRun(w)'
      BY <2>1, <2>2 DEF RunInv, InRun, Alone
    <3> QED BY <2>1, <3>1, <3>2 DEF Started
  <2>3. ASSUME Quiet, ~InRun(p) PROVE Quiet'
    <3>1. pc[p] \notin Busy
      BY <2>3 DEF Quiet, Holds, InRun, Turns, Busy
    <3>2. \A k \in Key : draft[p][k] = "none" /\ draft'[p][k] = "none"
      BY <2>1, <2>3, <3>1 DEF Quiet, NoDraft
    <3>3. \A k \in Key : row'[k] = "none"
      BY <2>1, <2>3, <3>2 DEF Flushed, Quiet
    <3> QED BY <2>1, <2>3, <3>2, <3>3 DEF Quiet, Holds, Alone, Busy
  <2> QED BY <1>s, <2>1, <2>2, <2>3, OtherTurns DEF Turns, Busy
<1>5. CASE SheetOpened(p) \/ RetryOpened(p)
  BY <1>5, OpenedTurns
<1>6. CASE Asked(p)
  <2>1. /\ Alone(p) /\ pc[p] = "new" /\ pc'[p] \in {"writing", "done"}
        /\ UNCHANGED <<dayLock, retryLock, nbatch>>
        /\ \A k \in Key : row'[k] = row[k] \/ row[k] \in LiveStatus
    BY <1>6 DEF Asked
  <2>2. ASSUME Quiet PROVE Quiet'
    <3>1. \A k \in Key : row[k] \notin LiveStatus
      BY <2>2 DEF Quiet, LiveStatus
    <3>2. draft[p] = NoDraft
      BY <2>1 DEF RowInv, Sessions, Writing, Busy
    <3>3. \A k \in Key : draft'[p][k] = "none"
      BY <1>6, <3>1, <3>2 DEF Asked, NoDraft
    <3> QED BY <2>1, <2>2, <3>1, <3>2, <3>3 DEF Quiet, Holds, Alone, Busy
  <2> QED BY <1>s, <2>1, <2>2, OtherTurns DEF Turns, Busy
<1>7. CASE EnterExecute(p)
  <2>1. /\ Alone(p) /\ pc'[p] = "plan" /\ pc[p] = "loaded" /\ ~dayLock /\ dayLock'
        /\ UNCHANGED <<row, retryLock, nbatch, draft>>
    BY <1>7, LocalFacts DEF EnterExecute, AcquireDayLock, Goto, Alone, shared
  <2>2. Quiet /\ ~Started
    BY <2>1 DEF Turns, Started
  <2>3. Quiet'
    BY <2>1, <2>2 DEF Quiet, Holds, Alone, Busy
  <2>4. \A r \in Proc : pc'[r] \in Busy => pc[r] \in Busy /\ op'[r] = op[r] /\ batch'[r] = batch[r]
    BY <2>1 DEF Alone, Busy
  <2> QED BY <2>1, <2>3, <2>4 DEF Turns, Holds
<1>8. ~Died(p)
  BY DEF Died
<1> QED BY <1>1, <1>2, <1>3, <1>4, <1>5, <1>6, <1>7, <1>8 DEF Kind

\* So does every step of the day, as long as nobody dies and the locks hold.
LEMMA StepTurns ==
    ASSUME TypeOK, OpInv, RunInv, RowInv, Turns, [Next]_vars,
           {"redis_down", "crash", "slow_retry"} \cap Faults = {}
    PROVE  Turns'
<1>1. CASE Still \/ Tick \/ \E k \in Key : Fill(k)
  <2>1. UNCHANGED <<row, dayLock, retryLock, nbatch, pc, op, batch, draft>>
    BY <1>1 DEF Still, Tick, Fill, shared, redis, local
  <2> QED BY <2>1 DEF Turns, Started, InRun, Holds, Quiet
<1>2. CASE ExpireRetryLock
  <2>1. /\ UNCHANGED <<row, dayLock, nbatch, pc, op, batch, draft>>
        /\ \A p \in Proc : ~Holds(p)
    BY <1>2 DEF ExpireRetryLock, shared, local, Holds, Busy
  <2> QED BY <2>1 DEF Turns, Started, InRun, Holds, Quiet
<1> QED BY <1>1, <1>2, StepKind, KindTurns

-----------------------------------------------------------------------------
(* A line goes out again only when nothing of it is at the market. *)

\* Nothing of order k is at the market or executed; nothing of line l is.
Empty(k) == k \notin live /\ filled[k] = 0
Free(l) == \A k \in Key : k[2] = l => Empty(k)
Has(k) == row[k] # "none" \/ \E p \in Proc : draft[p][k] # "none"

\* The lines a process is going to send are free; the lines a retry has read
\* stay free until somebody takes the retry lock.
ToSend == \A p \in Proc : pc[p] \in Busy => \A l \in todo[p] : Free(l)
ToLock == ~retryLock => \A p \in Proc : pc[p] = "locking" => \A l \in todo[p] : Free(l)
\* A status that lets a line go out again tells the truth.
Truthful == \A k \in Key : (row[k] \in Again \/ \E p \in Proc : draft[p][k] \in Again) => Empty(k)
\* Once a line has a newer row, its older orders are empty: the latest row counts.
Superseded == \A j, k \in Key : j[2] = k[2] /\ j[1] < k[1] /\ Has(k) => Empty(j)
\* Every order has a row, or its sender is about to write one.
Rowed == \A k \in accepted :
    row[k] # "none" \/ \E p \in Proc : pc[p] \in Busy /\ batch[p] = k[1] /\ draft[p][k] # "none"
OneEach == \A j, k \in Key : j[2] = k[2] /\ ~Empty(j) /\ ~Empty(k) => j = k
Clear == ToSend /\ ToLock /\ Truthful /\ Superseded /\ Rowed /\ OneEach

\* What the theorems below assume: no process dies, no answer of the broker is lost,
\* Redis answers, a retry ends before its lock expires, and nobody reorders what
\* was executed in part.
Orderly ==
    /\ {"lost_ack", "crash", "slow_retry", "redis_down"} \cap Faults = {}
    /\ "reorder" \notin Requests \/ \A l \in Line : PlanQty[l] = 1
Known == TypeOK /\ OpInv /\ RunInv /\ OrderInv /\ RowInv /\ Turns

\* Only an order the broker has can be anything but empty.
LEMMA NeverSentEmpty ==
    ASSUME Known, NEW k \in Key, k \notin accepted
    PROVE  Empty(k)
<1>1. oqty[k] = 0 /\ filled[k] <= oqty[k] /\ filled[k] \in Nat /\ k \notin live
  BY OrderFacts DEF Known, OrderInv, RowInv, Executions
<1> QED BY <1>1 DEF Empty

\* A step that sends nothing leaves what is empty empty.
LEMMA StaysEmpty ==
    ASSUME live' \subseteq live, filled' = filled
    PROVE  /\ \A k \in Key : Empty(k) => Empty(k)'
           /\ \A l \in Line : Free(l) => Free(l)'
           /\ OneEach => OneEach'
<1>1. \A k \in Key : Empty(k) => Empty(k)'
  BY DEF Empty
<1>2. \A l \in Line : Free(l) => Free(l)'
  BY <1>1 DEF Free
<1>3. OneEach => OneEach'
  BY <1>1 DEF OneEach
<1> QED BY <1>1, <1>2, <1>3

\* Lines whose latest row may be tried again are free while nobody places.
LEMMA LatestFree ==
    ASSUME Known, Clear, \A p \in Proc : pc[p] \notin Busy,
           NEW l \in Line, LatestStatus(l) \in Again
    PROVE  Free(l)
<1> DEFINE made == {b \in Batch : row[<<b, l>>] # "none"}
<1>1. made # {}
  BY DEF LatestStatus, Again, Reorderable, Retryable
<1>2. LatestStatus(l) = row[<<Max(made), l>>]
  BY <1>1 DEF LatestStatus
<1>3. Max(made) \in made /\ \A b \in made : b <= Max(made)
  <2>1. made \subseteq 1..MaxBatch /\ MaxBatch \in Nat
    BY ProcAssumption DEF Batch
  <2>2. \E x \in made : \A y \in made : y <= x
    <3> DEFINE back == {n \in Nat : \E b \in made : n = MaxBatch - b}
    <3> HIDE DEF made
    <3>1. back # {} /\ back \subseteq Nat
      <4>1. PICK b \in made : TRUE
        BY <1>1
      <4>2. MaxBatch - b \in Nat
        BY <2>1
      <4> QED BY <4>2
    <3> HIDE DEF back
    <3>2. PICK n \in back : \A m \in back : n <= m
      BY <3>1, LeastNumber
    <3> USE DEF back
    <3>3. PICK b \in made : n = MaxBatch - b
      BY <3>2
    <3>4. ASSUME NEW c \in made PROVE c <= b
      <4>1. MaxBatch - c \in back
        BY <2>1
      <4> HIDE DEF back
      <4> QED BY <2>1, <3>2, <3>3, <4>1
    <3> QED BY <3>4
  <2> HIDE DEF made
  <2> QED BY <2>1, <2>2 DEF Max
<1> DEFINE last == <<Max(made), l>>
<1>4. last \in Key /\ row[last] \in Again /\ last[1] = Max(made) /\ last[2] = l
  BY <1>2, <1>3 DEF Key
<1> HIDE DEF last
<1> SUFFICES ASSUME NEW k \in Key, k[2] = l PROVE Empty(k)
  BY DEF Free
<1>5. CASE row[k] # "none"
  <2>1. k[1] \in made
    <3>1. k = <<k[1], l>> /\ k[1] \in Batch
      BY DEF Key
    <3> QED BY <1>5, <3>1
  <2>2. k[1] <= last[1] /\ k[1] \in Nat /\ last[1] \in Nat
    BY <1>3, <1>4, <2>1, OrderFacts DEF Known
  <2>3. CASE k[1] = last[1]
    <3>1. k = last
      BY <1>4, <2>3 DEF Key
    <3> QED BY <1>4, <3>1 DEF Clear, Truthful
  <2>4. CASE k[1] < last[1]
    <3>1. Has(last)
      BY <1>4 DEF Has, Again, Reorderable, Retryable
    <3> QED BY <1>4, <2>4, <3>1 DEF Clear, Superseded
  <2> QED BY <2>2, <2>3, <2>4
<1>6. CASE row[k] = "none"
  BY <1>6, NeverSentEmpty DEF Clear, Rowed
<1> QED BY <1>5, <1>6

\* A step that leaves rows, sessions and orders as they are, and gives nobody
\* lines to send.
LEMMA SameClear ==
    ASSUME Known, Clear, NEW p \in Proc, Alone(p), pc[p] \notin Busy, pc'[p] \notin Busy,
           draft'[p] = draft[p], UNCHANGED <<row, retryLock, broker>>,
           ~retryLock /\ pc'[p] = "locking" => \A l \in todo'[p] : Free(l)
    PROVE  Clear'
<1>1. \A r \in Proc : draft'[r] = draft[r] /\ (pc[r] \in Busy <=> pc'[r] \in Busy)
  BY DEF Alone
<1>2. \A r \in Proc \ {p} : pc'[r] = pc[r] /\ todo'[r] = todo[r] /\ batch'[r] = batch[r]
  BY DEF Alone
<1>t. \A r \in Proc : todo[r] \subseteq Line
  BY LocalFacts DEF Known
<1>3. /\ \A k : Empty(k)' <=> Empty(k)
      /\ \A l : Free(l)' <=> Free(l)
  BY DEF Empty, Free, broker
<1>4. ToSend'
  BY <1>1, <1>2, <1>3 DEF Clear, ToSend
<1>5. ToLock'
  <2> SUFFICES ASSUME ~retryLock', NEW r \in Proc, pc'[r] = "locking", NEW l \in todo'[r] PROVE Free(l)
    BY <1>3 DEF ToLock
  <2>1. CASE r = p
    BY <2>1
  <2>2. CASE r # p
    BY <1>2, <2>2 DEF Clear, ToLock
  <2> QED BY <2>1, <2>2
<1>6. Truthful'
  BY <1>1, <1>3 DEF Clear, Truthful
<1>7. Superseded'
  BY <1>1, <1>3 DEF Clear, Superseded, Has
<1>8. Rowed'
  BY <1>1, <1>2 DEF Clear, Rowed, broker
<1>9. OneEach'
  BY <1>3 DEF Clear, OneEach
<1> QED BY <1>4, <1>5, <1>6, <1>7, <1>8, <1>9 DEF Clear

\* The lines a retry reads are free, or somebody holds the retry lock.
LEMMA ReadClear ==
    ASSUME Known, Clear, NEW p \in Proc, Read(p)
    PROVE  Clear'
<1>1. /\ Alone(p) /\ pc[p] \notin Busy /\ pc'[p] = "locking" /\ draft'[p] = draft[p]
      /\ todo'[p] # {} /\ todo'[p] \subseteq {l \in Line : LatestStatus(l) \in Again}
      /\ UNCHANGED <<row, retryLock, broker>>
  BY DEF Read, Writing
<1>2. Started
  <2>1. PICK l \in Line : LatestStatus(l) \in Again
    BY <1>1
  <2>2. LatestStatus(l) # "none"
    BY <2>1 DEF Again, Reorderable, Retryable
  <2>3. PICK b \in Batch : row[<<b, l>>] # "none"
    BY <2>2 DEF LatestStatus
  <2> QED BY <2>3 DEF Known, Turns, Quiet, Key
<1>3. ASSUME ~retryLock, NEW l \in todo'[p] PROVE Free(l)
  <2>1. \A r \in Proc : pc[r] \notin Busy
    BY <1>2, <1>3 DEF Known, Turns, Started, Holds, InRun, Busy
  <2>2. l \in Line /\ LatestStatus(l) \in Again
    BY <1>1, <1>3
  <2> QED BY <2>1, <2>2, LatestFree
<1>4. pc'[p] \notin Busy
  BY <1>1 DEF Busy
<1> QED BY <1>1, <1>3, <1>4, SameClear

\* Lines that are dropped were free and stay free.
LEMMA DroppedClear ==
    ASSUME Known, Clear, NEW p \in Proc, Dropped(p)
    PROVE  Clear'
<1>1. PICK lines \in SUBSET todo[p], status \in Status \ (LiveStatus \cup {"none"}) :
          draft'[p] = [k \in Key |-> IF k[1] = batch[p] /\ k[2] \in lines THEN status ELSE draft[p][k]]
  BY DEF Dropped
<1>2. /\ Alone(p) /\ pc[p] \in Busy /\ pc'[p] \in Busy /\ pc'[p] # "locking" /\ batch'[p] = batch[p]
      /\ todo'[p] \subseteq todo[p] /\ UNCHANGED <<row, retryLock, broker>>
  BY DEF Dropped, Busy
<1>3. /\ \A k : Empty(k)' <=> Empty(k)
      /\ \A l : Free(l)' <=> Free(l)
  BY <1>2 DEF Empty, Free, broker
<1>4. ASSUME NEW k \in Key
      PROVE  draft'[p][k] = draft[p][k] \/ (draft'[p][k] # "none" /\ Free(k[2]))
  BY <1>1, <1>2 DEF Clear, ToSend
<1>5. \A r \in Proc \ {p} : draft'[r] = draft[r] /\ pc'[r] = pc[r] /\ batch'[r] = batch[r] /\ todo'[r] = todo[r]
  BY <1>2 DEF Alone
<1>6. ToSend'
  BY <1>2, <1>3, <1>5 DEF Clear, ToSend
<1>7. ToLock'
  BY <1>2, <1>3, <1>5 DEF Clear, ToLock
<1>8. Truthful'
  BY <1>2, <1>3, <1>4, <1>5 DEF Clear, Truthful, Free
<1>9. Superseded'
  BY <1>2, <1>3, <1>4, <1>5 DEF Clear, Superseded, Has, Free
<1>10. Rowed'
  <2> SUFFICES ASSUME NEW k \in accepted, row[k] = "none"
               PROVE  \E r \in Proc : pc'[r] \in Busy /\ batch'[r] = k[1] /\ draft'[r][k] # "none"
    BY <1>2 DEF Rowed, broker
  <2>1. k \in Key
    BY OrderFacts DEF Known
  <2>2. PICK r \in Proc : pc[r] \in Busy /\ batch[r] = k[1] /\ draft[r][k] # "none"
    BY DEF Clear, Rowed
  <2> QED BY <1>2, <1>4, <1>5, <2>1, <2>2
<1>11. OneEach'
  BY <1>3 DEF Clear, OneEach
<1> QED BY <1>6, <1>7, <1>8, <1>9, <1>10, <1>11 DEF Clear

\* The lines of a batch that is opened are free.
LEMMA OpenedFree ==
    ASSUME Known, Clear, Orderly, NEW p \in Proc, NEW lines, Opened(p, lines),
           (SheetOpened(p) /\ lines = Line) \/ (RetryOpened(p) /\ lines = todo[p])
    PROVE  \A l \in lines : Free(l)
<1>1. CASE SheetOpened(p) /\ lines = Line
  <2>1. InRun(p)
    BY <1>1 DEF SheetOpened, Known, OpInv, InRun
  <2>2. \A k \in Key : row[k] = "none"
    BY <2>1 DEF Known, Turns, Started, Quiet
  <2>3. \A r \in Proc : pc[r] \notin Busy
    BY <1>1, OpenedAlone DEF Known, Orderly
  <2>4. accepted \subseteq Key
    BY OrderFacts DEF Known
  <2>5. accepted = {}
    BY <2>2, <2>3, <2>4 DEF Clear, Rowed
  <2> QED BY <2>5, NeverSentEmpty DEF Free
<1>2. CASE RetryOpened(p) /\ lines = todo[p]
  <2>1. ~retryLock /\ pc[p] = "locking"
    BY <1>2 DEF RetryOpened, AcquireRetryLock, Orderly
  <2> QED BY <1>2, <2>1 DEF Clear, ToLock
<1> QED BY <1>1, <1>2

\* The lines of a new batch are free.
LEMMA OpenedClear ==
    ASSUME Known, Clear, Orderly, NEW p \in Proc, NEW lines, Opened(p, lines),
           (SheetOpened(p) /\ lines = Line) \/ (RetryOpened(p) /\ lines = todo[p])
    PROVE  Clear'
<1>1. /\ Alone(p) /\ pc[p] \notin Busy /\ pc'[p] \in Busy /\ pc'[p] # "locking" /\ batch'[p] = nbatch + 1
      /\ todo'[p] \subseteq lines /\ UNCHANGED <<row, broker>>
      /\ draft'[p] = [k \in Key |-> IF k[1] = nbatch + 1 /\ k[2] \in lines THEN "skipped" ELSE draft[p][k]]
  BY DEF Opened, Busy
<1>2. /\ \A k : Empty(k)' <=> Empty(k)
      /\ \A l : Free(l)' <=> Free(l)
  BY <1>1 DEF Empty, Free, broker
<1>3. \A l \in lines : Free(l)
  BY OpenedFree
<1>4. ASSUME NEW k \in Key
      PROVE  draft'[p][k] = draft[p][k] \/ (draft'[p][k] # "none" /\ Free(k[2]))
  BY <1>1, <1>3
<1>5. \A r \in Proc \ {p} : draft'[r] = draft[r] /\ pc'[r] = pc[r] /\ batch'[r] = batch[r] /\ todo'[r] = todo[r]
  BY <1>1 DEF Alone
<1>6. ToSend'
  BY <1>1, <1>2, <1>3, <1>5 DEF Clear, ToSend
<1>7. ToLock'
  <2>1. ~retryLock' => ~retryLock
    BY DEF SheetOpened, RetryOpened, AcquireRetryLock, Orderly
  <2> QED BY <1>1, <1>2, <1>5, <2>1 DEF Clear, ToLock
<1>8. Truthful'
  BY <1>1, <1>2, <1>4, <1>5 DEF Clear, Truthful, Free
<1>9. Superseded'
  BY <1>1, <1>2, <1>4, <1>5 DEF Clear, Superseded, Has, Free
<1>10. Rowed'
  BY <1>1, <1>5 DEF Clear, Rowed, broker
<1>11. OneEach'
  BY <1>2 DEF Clear, OneEach
<1> QED BY <1>6, <1>7, <1>8, <1>9, <1>10, <1>11 DEF Clear

\* A commit leaves orders as they are, and its rows tell the truth of them.
LEMMA WrittenClear ==
    ASSUME Known, Clear, NEW p \in Proc, Written(p)
    PROVE  Clear'
<1>1. /\ Alone(p) /\ pc'[p] \notin Busy /\ pc'[p] # "locking" /\ draft'[p] = NoDraft
      /\ UNCHANGED <<retryLock, broker>>
  BY DEF Written, Busy
<1>2. \A k \in Key : row'[k] = IF draft[p][k] # "none" THEN draft[p][k] ELSE row[k]
  BY DEF Written, Flushed
<1>3. /\ \A k : Empty(k)' <=> Empty(k)
      /\ \A l : Free(l)' <=> Free(l)
  BY <1>1 DEF Empty, Free, broker
<1>4. \A r \in Proc \ {p} : draft'[r] = draft[r] /\ pc'[r] = pc[r] /\ batch'[r] = batch[r] /\ todo'[r] = todo[r]
  BY <1>1 DEF Alone
<1>5. \A k \in Key : draft'[p][k] = "none"
  BY <1>1 DEF NoDraft
<1>6. ToSend' /\ ToLock'
  BY <1>1, <1>3, <1>4 DEF Clear, ToSend, ToLock
<1>7. Truthful'
  BY <1>2, <1>3, <1>4, <1>5 DEF Clear, Truthful, Again, Reorderable, Retryable
<1>8. Superseded'
  <2>1. \A k \in Key : Has(k)' => Has(k)
    BY <1>2, <1>4, <1>5 DEF Has
  <2> QED BY <1>3, <2>1 DEF Clear, Superseded
<1>9. Rowed'
  <2> SUFFICES ASSUME NEW k \in accepted
               PROVE  row'[k] # "none" \/ \E r \in Proc : pc'[r] \in Busy /\ batch'[r] = k[1] /\ draft'[r][k] # "none"
    BY <1>1 DEF Rowed, broker
  <2>1. k \in Key
    BY OrderFacts DEF Known
  <2>2. CASE row[k] # "none"
    BY <1>2, <2>1, <2>2
  <2>3. ASSUME NEW r \in Proc, pc[r] \in Busy /\ batch[r] = k[1] /\ draft[r][k] # "none"
        PROVE  row'[k] # "none" \/ (pc'[r] \in Busy /\ batch'[r] = k[1] /\ draft'[r][k] # "none")
    BY <1>2, <1>4, <2>1, <2>3
  <2> QED BY <2>2, <2>3 DEF Clear, Rowed
<1>10. OneEach'
  BY <1>3 DEF Clear, OneEach
<1> QED BY <1>6, <1>7, <1>8, <1>9, <1>10 DEF Clear

\* What a row turns into when it is brought up to date does not let the line go out again.
LEMMA SyncedStays == ASSUME NEW k PROVE Synced(k) \notin Again /\ Synced(k) # "none"
  BY DEF Synced, Again, Reorderable, Retryable

\* A cancelled order was not executed, where its line may be ordered again.
LEMMA AskedClear ==
    ASSUME Known, Clear, Orderly, NEW u \in Proc, Asked(u)
    PROVE  Clear'
<1>1. /\ Alone(u) /\ pc[u] = "new" /\ pc'[u] \notin Busy /\ pc'[u] # "locking"
      /\ live' \subseteq live /\ UNCHANGED <<retryLock, accepted, filled>>
  BY DEF Asked, Busy
<1>2. \A k \in Key : row'[k] = row[k] \/ (row[k] \in LiveStatus /\ row'[k] = Synced(k))
  BY DEF Asked
<1>3. \A k \in Key : \/ draft'[u][k] = draft[u][k]
                     \/ row[k] \in LiveStatus /\ draft'[u][k] = Synced(k)
                     \/ row[k] \in LiveStatus /\ draft'[u][k] = "cancelled" /\ k \in live \ live'
  BY DEF Asked
<1>4. \A r \in Proc \ {u} : draft'[r] = draft[r] /\ pc'[r] = pc[r] /\ batch'[r] = batch[r] /\ todo'[r] = todo[r]
  BY <1>1 DEF Alone
<1>5. /\ \A k \in Key : Empty(k) => Empty(k)'
      /\ \A l \in Line : Free(l) => Free(l)'
      /\ OneEach'
  BY <1>1, StaysEmpty DEF Clear
<1>t. \A r \in Proc : todo[r] \subseteq Line
  BY LocalFacts DEF Known
<1>6. ToSend' /\ ToLock'
  BY <1>1, <1>4, <1>5, <1>t DEF Clear, ToSend, ToLock
<1>7. ASSUME NEW k \in live, k \notin live', "cancelled" \in Again PROVE Empty(k)'
  <2>1. k \in accepted /\ k \in Key /\ k[2] \in Line /\ filled[k] \in Nat /\ oqty[k] \in Nat
    BY OrderFacts DEF Known
  <2>2. PlanQty[k[2]] = 1
    BY <1>7, <2>1 DEF Orderly, Again, Retryable
  <2>3. filled[k] < oqty[k] /\ oqty[k] <= PlanQty[k[2]]
    BY <2>1 DEF Known, RowInv, Executions, OrderInv
  <2> QED BY <1>1, <1>7, <2>1, <2>2, <2>3 DEF Empty
<1>8. Truthful'
  <2> SUFFICES ASSUME NEW k \in Key, row'[k] \in Again \/ \E r \in Proc : draft'[r][k] \in Again
               PROVE  Empty(k)'
    BY DEF Truthful
  <2>1. CASE row[k] \in Again \/ \E r \in Proc : draft[r][k] \in Again
    BY <1>5, <2>1 DEF Clear, Truthful
  <2>2. CASE ~(row[k] \in Again \/ \E r \in Proc : draft[r][k] \in Again)
    <3>1. draft'[u][k] \in Again /\ draft'[u][k] # draft[u][k]
      BY <1>2, <1>4, <2>2, SyncedStays
    <3>2. draft'[u][k] = "cancelled" /\ k \in live \ live'
      BY <1>3, <3>1, SyncedStays
    <3> QED BY <1>7, <3>1, <3>2
  <2> QED BY <2>1, <2>2
<1>9. Superseded'
  <2>1. \A k \in Key : Has(k)' => Has(k)
    BY <1>2, <1>3, <1>4 DEF Has, LiveStatus
  <2> QED BY <1>5, <2>1 DEF Clear, Superseded
<1>10. Rowed'
  <2> SUFFICES ASSUME NEW k \in accepted
               PROVE  row'[k] # "none" \/ \E r \in Proc : pc'[r] \in Busy /\ batch'[r] = k[1] /\ draft'[r][k] # "none"
    BY <1>1 DEF Rowed
  <2>1. k \in Key
    BY OrderFacts DEF Known
  <2>2. CASE row[k] # "none"
    BY <1>2, <2>1, <2>2, SyncedStays
  <2>3. ASSUME NEW r \in Proc, pc[r] \in Busy /\ batch[r] = k[1] /\ draft[r][k] # "none"
        PROVE  pc'[r] \in Busy /\ batch'[r] = k[1] /\ draft'[r][k] # "none"
    BY <1>1, <1>4, <2>3 DEF Busy
  <2> QED BY <2>2, <2>3 DEF Clear, Rowed
<1> QED BY <1>5, <1>6, <1>8, <1>9, <1>10 DEF Clear

\* The line of the order that goes out was free; the other lines stay as they are.
LEMMA OrderedClear ==
    ASSUME Known, Clear, Orderly, NEW p \in Proc, NEW l \in todo[p], NEW q \in Sendable(p, l), Ordered(p, l, q)
    PROVE  Clear'
<1> DEFINE new == <<batch[p], l>>
<1>1. new \in Key \ accepted /\ l \in Line /\ new[1] = batch[p] /\ new[2] = l
  BY OrderedNew DEF Known
<1>2. /\ Alone(p) /\ pc[p] \in Busy /\ pc'[p] \in Busy /\ pc'[p] # "locking" /\ batch'[p] = batch[p]
      /\ todo'[p] = todo[p] \ {l} /\ live' = live \cup {new} /\ accepted' = accepted \cup {new}
      /\ UNCHANGED <<row, retryLock, filled>>
  BY DEF Ordered, Busy
<1>3. draft'[p] = [k \in Key |-> IF k[1] = batch[p] /\ k[2] = l THEN "submitted" ELSE draft[p][k]]
  BY DEF Ordered, Orderly
<1>4. \A k \in Key : k[1] = batch[p] /\ k[2] = l <=> k = new
  BY <1>1 DEF Key
<1>5. Free(l) /\ batch[p] = nbatch /\ \A r \in Proc \ {p} : pc[r] \notin Busy
  BY <1>2, OnePlaces DEF Clear, ToSend, Known, Turns
<1> HIDE DEF new
<1>6. \A k \in Key : IF k = new THEN draft'[p][k] = "submitted" ELSE draft'[p][k] = draft[p][k]
  BY <1>3, <1>4
<1>7. \A r \in Proc \ {p} : draft'[r] = draft[r] /\ pc'[r] = pc[r] /\ batch'[r] = batch[r] /\ todo'[r] = todo[r]
  BY <1>2 DEF Alone
<1>8. /\ \A k \in Key : k # new => (Empty(k)' <=> Empty(k))
      /\ \A m \in Line : m # l => (Free(m)' <=> Free(m))
  BY <1>1, <1>2 DEF Empty, Free
<1>9. row[new] = "none" /\ \A r \in Proc \ {p} : draft[r][new] = "none"
  BY <1>1, <1>2 DEF Known, RowInv, Apart
<1>t. \A r \in Proc : todo[r] \subseteq Line
  BY LocalFacts DEF Known
<1>10. ToSend'
  <2> SUFFICES ASSUME NEW r \in Proc, pc'[r] \in Busy, NEW m \in todo'[r] PROVE Free(m)'
    BY DEF ToSend
  <2>1. r = p
    BY <1>5, <1>7
  <2>2. m # l /\ m \in todo[p] /\ m \in Line
    BY <1>2, <1>t, <2>1
  <2> QED BY <1>2, <1>8, <2>2 DEF Clear, ToSend
<1>11. ToLock'
  <2> SUFFICES ASSUME ~retryLock, NEW r \in Proc, pc'[r] = "locking" PROVE FALSE
    BY <1>2 DEF ToLock
  <2>1. r # p /\ pc[r] = "locking"
    BY <1>2, <1>7
  <2>2. Started
    BY <2>1 DEF Known, Turns, Quiet
  <2>3. ~Holds(p)
    BY DEF Known, Turns
  <2> QED BY <1>2, <2>2, <2>3 DEF Known, Turns, Started, InRun, Holds, Busy
<1>12. Truthful'
  <2> SUFFICES ASSUME NEW k \in Key, row'[k] \in Again \/ \E r \in Proc : draft'[r][k] \in Again
               PROVE  Empty(k)'
    BY DEF Truthful
  <2>0. "submitted" \notin Again /\ "none" \notin Again
    BY DEF Again, Reorderable, Retryable
  <2>1. k # new
    BY <1>2, <1>6, <1>7, <1>9, <2>0
  <2> QED BY <1>2, <1>6, <1>7, <1>8, <2>1 DEF Clear, Truthful
<1>13. Superseded'
  <2> SUFFICES ASSUME NEW j \in Key, NEW k \in Key, j[2] = k[2], j[1] < k[1], Has(k)' PROVE Empty(j)'
    BY DEF Superseded
  <2>1. CASE k = new
    BY <1>1, <1>5, <1>8, <2>1, OrderFacts DEF Free, Known
  <2>2. CASE k # new
    <3>1. Has(k)
      BY <1>2, <1>6, <1>7, <2>2 DEF Has
    <3>2. k[1] <= nbatch /\ k[1] \in Nat /\ nbatch \in Nat /\ j[1] \in Nat
      BY <3>1, OrderFacts DEF Known, RowInv, Owned, Has
    <3>3. j # new
      BY <1>1, <1>5, <3>2
    <3> QED BY <1>8, <3>1, <3>3 DEF Clear, Superseded
  <2> QED BY <2>1, <2>2
<1>14. Rowed'
  <2> SUFFICES ASSUME NEW k \in accepted'
               PROVE  row'[k] # "none" \/ \E r \in Proc : pc'[r] \in Busy /\ batch'[r] = k[1] /\ draft'[r][k] # "none"
    BY DEF Rowed
  <2>1. CASE k = new
    BY <1>1, <1>2, <1>6, <2>1
  <2>2. CASE k # new
    <3>1. k \in accepted /\ k \in Key
      BY <1>2, <2>2, OrderFacts DEF Known
    <3> QED BY <1>2, <1>6, <1>7, <2>2, <3>1 DEF Clear, Rowed
  <2> QED BY <2>1, <2>2
<1>15. OneEach'
  <2> SUFFICES ASSUME NEW j \in Key, NEW k \in Key, j[2] = k[2], ~Empty(j)', ~Empty(k)' PROVE j = k
    BY DEF OneEach
  <2>1. j # new /\ k # new => j = k
    BY <1>8 DEF Clear, OneEach
  <2>2. \A i \in Key : i[2] = l /\ i # new => Empty(i)'
    BY <1>5, <1>8 DEF Free
  <2> QED BY <1>1, <2>1, <2>2
<1> QED BY <1>10, <1>11, <1>12, <1>13, <1>14, <1>15 DEF Clear

\* Every kind of step keeps lines clear.
LEMMA KindClear ==
    ASSUME Known, Clear, Orderly, NEW p \in Proc, Kind(p)
    PROVE  Clear'
<1>1. CASE Rest(p) \/ EnterExecute(p)
  <2>1. /\ Alone(p) /\ pc[p] \notin Writing /\ pc'[p] \notin Busy \cup {"locking"}
        /\ draft'[p] \in {NoDraft, draft[p]} /\ UNCHANGED <<row, retryLock, broker>>
    BY <1>1, LocalFacts DEF Rest, EnterExecute, Goto, Alone, Writing, Busy, shared, Known
  <2>2. draft'[p] = draft[p]
    BY <2>1 DEF RowInv, Sessions, Known
  <2> QED BY <2>1, <2>2, SameClear DEF Writing
<1>2. CASE Read(p)
  BY <1>2, ReadClear
<1>3. CASE Dropped(p)
  BY <1>3, DroppedClear
<1>4. CASE Written(p)
  BY <1>4, WrittenClear
<1>5. ~Died(p)
  BY DEF Died, Orderly
<1>6. CASE SheetOpened(p)
  BY <1>6, OpenedClear DEF SheetOpened
<1>7. CASE RetryOpened(p)
  BY <1>7, OpenedClear DEF RetryOpened
<1>8. CASE Asked(p)
  BY <1>8, AskedClear
<1>9. ASSUME NEW l \in todo[p], NEW q \in Sendable(p, l), Ordered(p, l, q) PROVE Clear'
  BY <1>9, OrderedClear
<1> QED BY <1>1, <1>2, <1>3, <1>4, <1>5, <1>6, <1>7, <1>8, <1>9 DEF Kind

\* The clock, an execution and the end of the retry lock.
LEMMA OutsideClear ==
    ASSUME Known, Clear, Orderly,
           UNCHANGED <<row, accepted, nbatch, pc, op, batch, draft, todo>>, live' \subseteq live,
           \A k \in Key : filled'[k] = filled[k] \/ k \in live,
           retryLock' = retryLock \/ \A p \in Proc : pc[p] # "locking"
    PROVE  Clear'
<1>1. \A k \in Key : Empty(k) => Empty(k)'
  BY DEF Empty
<1>2. \A l : Free(l) => Free(l)'
  BY <1>1 DEF Free
<1>3. ToSend' /\ ToLock'
  BY <1>2 DEF Clear, ToSend, ToLock
<1>4. Truthful' /\ Superseded' /\ OneEach'
  BY <1>1 DEF Clear, Truthful, Superseded, OneEach, Has
<1>5. Rowed'
  BY DEF Clear, Rowed
<1> QED BY <1>3, <1>4, <1>5 DEF Clear

\* So does every step of the day.
LEMMA StepClear == Known /\ Clear /\ Orderly /\ [Next]_vars => Clear'
<1> SUFFICES ASSUME Known, Clear, Orderly, [Next]_vars PROVE Clear'
  OBVIOUS
<1>1. CASE Still \/ Tick
  BY <1>1, OutsideClear DEF Still, Tick, shared, redis, broker, local
<1>2. ASSUME NEW j \in Key, Fill(j) PROVE Clear'
  <2>1. /\ UNCHANGED <<row, accepted, nbatch, pc, op, batch, draft, todo, retryLock>>
        /\ j \in live /\ filled' = [filled EXCEPT ![j] = @ + 1] /\ live' \subseteq live
    BY <1>2 DEF Fill, shared, redis, local
  <2>2. \A k \in Key : filled'[k] = filled[k] \/ k \in live
    BY <2>1, OrderFacts DEF Known
  <2> QED BY <2>1, <2>2, OutsideClear
<1>3. CASE ExpireRetryLock
  <2>1. /\ UNCHANGED <<row, accepted, live, filled, nbatch, pc, op, batch, draft, todo>>
        /\ \A p \in Proc : pc[p] # "locking"
    BY <1>3 DEF ExpireRetryLock, shared, broker, local, Known, OpInv, Orderly
  <2> QED BY <2>1, OutsideClear
<1> QED BY <1>1, <1>2, <1>3, StepKind, KindClear DEF Known

\* At first every line is free.
LEMMA InitClear == Init => Clear
<1> SUFFICES ASSUME Init PROVE Clear
  OBVIOUS
<1>1. \A k \in Key : Empty(k)
  BY DEF Init, Empty
<1>2. ToSend /\ ToLock
  BY DEF Init, ToSend, ToLock, Busy
<1>3. Truthful /\ Superseded /\ OneEach
  BY <1>1 DEF Truthful, Superseded, OneEach
<1>4. Rowed
  BY DEF Init, Rowed
<1> QED BY <1>2, <1>3, <1>4 DEF Clear

-----------------------------------------------------------------------------
(* What that means for the quantity of a line. *)

Standing == [k \in Key |-> IF k \in live THEN oqty[k] ELSE filled[k]]
OfLine(l) == {k \in accepted : k[2] = l}

\* What stands of a line is a sum over its orders.
LEMMA ExposureIsSum ==
    ASSUME accepted \subseteq Key, NEW l
    PROVE  Exposure(l) = SumOver(Standing, OfLine(l))
<1> DEFINE S == OfLine(l)
           P(g) == g = [s \in SUBSET S |-> IF s = {} THEN 0 ELSE LET x == CHOOSE x \in s : TRUE
                            IN (IF x \in live THEN oqty[x] ELSE filled[x]) + g[s \ {x}]]
<1>1. Exposure(l) = (CHOOSE g : P(g))[S]
  BY DEF Exposure, MapThenSumSet, MapThenFoldSet, OfLine
<1>2. ASSUME NEW g PROVE P(g) <=> Iterates(g, Standing, S)
  <2>1. ASSUME NEW s \in SUBSET S, s # {}
        PROVE LET x == CHOOSE x \in s : TRUE IN Standing[x] = IF x \in live THEN oqty[x] ELSE filled[x]
    BY <2>1 DEF OfLine, Standing
  <2> QED BY <2>1 DEF Iterates, SumFrom
<1>3. (CHOOSE g : P(g)) = (CHOOSE g : Iterates(g, Standing, S))
  <2> HIDE DEF P
  <2> QED BY <1>2, Zenon
<1> QED BY <1>1, <1>3, SumIsIterated

\* The whole invariant holds in an orderly day.
LEMMA InvariantHolds ==
    ASSUME Orderly
    PROVE  Spec => [](Known /\ Clear)
<1>1. {"redis_down", "crash", "slow_retry"} \cap Faults = {} /\ "redis_down" \notin Faults
  BY DEF Orderly
<1>2. TypeOK /\ IInv /\ RowInv /\ Turns /\ Clear /\ [Next]_vars => RowInv' /\ Turns' /\ Clear'
  BY <1>1, StepRows, StepTurns, StepClear DEF Known, IInv
<1>3. TypeOK /\ IInv /\ [Next]_vars => IInv'
  BY <1>1, StepInv
<1>4. Init => RowInv /\ Turns /\ Clear
  BY InitRows, InitTurns, InitClear
<1>5. IInv /\ TypeOK /\ RowInv /\ Turns => Known
  BY DEF Known, IInv
<1> QED BY <1>2, <1>3, <1>4, <1>5, InitType, StepType, InitInv, PTL DEF Spec

\* What stands of an order is at most what it asked for, and nothing if it is empty.
LEMMA StandingFacts ==
    ASSUME Known, NEW l \in Line
    PROVE  /\ IsFiniteSet(OfLine(l)) /\ OfLine(l) \subseteq accepted
           /\ Standing \in [Key -> Nat] /\ accepted \subseteq Key
           /\ \A k \in accepted : Standing[k] <= oqty[k] /\ (Empty(k) => Standing[k] = 0)
<1>1. accepted \subseteq Key
  BY OrderFacts DEF Known
<1>2. IsFiniteSet(OfLine(l)) /\ OfLine(l) \subseteq accepted
  BY <1>1, FiniteKeys, FS_Subset DEF OfLine
<1>3. Standing \in [Key -> Nat]
  BY OrderFacts DEF Known, Standing
<1>4. \A k \in accepted : Standing[k] <= oqty[k] /\ (Empty(k) => Standing[k] = 0)
  BY <1>1, OrderFacts DEF Known, RowInv, Executions, Standing, Empty
<1> QED BY <1>1, <1>2, <1>3, <1>4

\* What stands of a line is at most its planned quantity, and nothing if it is free.
LEMMA ExposureBounds ==
    Known /\ Clear => \A l \in Line : Exposure(l) \in 0..PlanQty[l] /\ (Free(l) => Exposure(l) = 0)
<1> SUFFICES ASSUME Known, Clear, NEW l \in Line
             PROVE  Exposure(l) \in 0..PlanQty[l] /\ (Free(l) => Exposure(l) = 0)
  OBVIOUS
<1>1. Exposure(l) = SumOver(Standing, OfLine(l))
  BY StandingFacts, ExposureIsSum
<1>2. PlanQty[l] \in Nat
  BY LineAssumption
<1>3. CASE \A k \in OfLine(l) : Empty(k)
  <2>1. SumOver(Standing, OfLine(l)) = 0
    BY <1>3, StandingFacts, SumZero
  <2> QED BY <1>1, <1>2, <2>1
<1>4. ASSUME NEW k \in OfLine(l), ~Empty(k)
      PROVE  Exposure(l) \in 0..PlanQty[l] /\ ~Free(l)
  <2>1. k \in Key /\ k \in accepted /\ k[2] = l
    BY <1>4, StandingFacts DEF OfLine
  <2>2. \A j \in OfLine(l) \ {k} : Empty(j)
    BY <1>4, <2>1, StandingFacts DEF Clear, OneEach, OfLine
  <2>3. \A j \in OfLine(l) \ {k} : Standing[j] = 0
    BY <2>2, StandingFacts
  <2>4. Standing[k] \in Nat /\ Standing[k] <= oqty[k] /\ oqty[k] \in Nat /\ oqty[k] <= PlanQty[l]
    BY <2>1, StandingFacts, OrderFacts DEF Known, OrderInv
  <2>5. SumOver(Standing, OfLine(l)) = Standing[k]
    BY <2>3, <2>4, StandingFacts, SumSingle
  <2> QED BY <1>1, <1>2, <1>4, <2>1, <2>4, <2>5 DEF Free
<1> QED BY <1>3, <1>4

\* The run, the watchdog's retry and the user's retries, reorders, cancels and skips
\* together never have more of a line at the market or executed than the plan asks
\* for, whatever the broker rejects, executes or fails to cancel in between.
THEOREM NeverOverexposed ==
    ASSUME Orderly
    PROVE  Spec => []NotOverexposed
<1>1. Known /\ Clear => NotOverexposed
  BY ExposureBounds, LineAssumption DEF NotOverexposed
<1> QED BY <1>1, InvariantHolds, PTL

-----------------------------------------------------------------------------
(* AutoExec implements DayOrders. *)

\* The sum, for every line, before and after a step.
LEMMA ExposureSums == TypeOK => \A l \in Line : Exposure(l) = SumOver(Standing, OfLine(l))
  BY ExposureIsSum, OrderFacts
\* The same after the step.
LEMMA ExposureSumsNext == (TypeOK => \A l \in Line : Exposure(l) = SumOver(Standing, OfLine(l)))'
  BY ExposureSums, PTL
\* The bounds after the step.
LEMMA ExposureBoundsNext ==
    (Known /\ Clear => \A l \in Line : Exposure(l) \in 0..PlanQty[l] /\ (Free(l) => Exposure(l) = 0))'
  BY ExposureBounds, PTL

\* A step that sends nothing only takes quantities away.
LEMMA OnlyWithdraws ==
    ASSUME Known, Known', Clear, Clear', Orderly, dayLock' = dayLock, accepted' = accepted, oqty' = oqty,
           live' \subseteq live, \A k \in Key : filled'[k] = filled[k] \/ (k \in live /\ filled'[k] <= oqty[k])
    PROVE  Promise!Withdraw
<1>1. \A k \in Key : Standing'[k] <= Standing[k]
  BY OrderFacts DEF Known, RowInv, Executions, Standing
<1>2. ASSUME NEW l \in Line PROVE Exposure(l)' <= Exposure(l)
  <2>1. OfLine(l)' = OfLine(l)
    BY DEF OfLine
  <2>2. Exposure(l)' = SumOver(Standing', OfLine(l))
    BY <2>1, ExposureSumsNext DEF Known
  <2>3. Exposure(l) = SumOver(Standing, OfLine(l))
    BY ExposureSums DEF Known
  <2>4. \A k \in OfLine(l) : Standing[k] \in Nat /\ k \in Key
    BY StandingFacts
  <2>5. \A k \in OfLine(l) : Standing'[k] \in Nat
    BY <2>4, OrderFacts DEF Known, Standing, TypeOK, BrokerType
  <2>6. Integral(Standing, OfLine(l)) /\ Integral(Standing', OfLine(l))
    BY <2>4, <2>5 DEF Integral
  <2>7. \A k \in OfLine(l) : Standing'[k] <= Standing[k]
    BY <1>1, <2>4
  <2>8. IsFiniteSet(OfLine(l))
    BY StandingFacts
  <2>9. PICK f, g : f = Standing' /\ g = Standing
    OBVIOUS
  <2> QED BY <2>2, <2>3, <2>6, <2>7, <2>8, <2>9, SumMonotone
<1>3. \A l \in Line : Exposure(l)' \in Nat
  BY ExposureBoundsNext, LineAssumption
<1> QED BY <1>2, <1>3 DEF Promise!Withdraw

\* A step that leaves the orders and the day lock as they are.
LEMMA SameStanding ==
    ASSUME Known, Known', broker' = broker
    PROVE  \A l \in Line : Exposure(l)' = Exposure(l)
<1>1. Standing' = Standing /\ \A l : OfLine(l)' = OfLine(l)
  BY DEF broker, Standing, OfLine
<1> QED BY <1>1, ExposureSums, ExposureSumsNext DEF Known

\* Who places has the day started.
LEMMA PlacesStarted ==
    ASSUME Known, NEW p \in Proc, pc[p] \in Busy
    PROVE  dayLock
<1>1. op[p] \in {"run", "retry"}
  BY DEF Known, Turns
<1>2. CASE op[p] = "run"
  BY <1>2 DEF Known, RunInv, InRun, Busy
<1>3. CASE op[p] = "retry"
  BY <1>3 DEF Known, Turns, Quiet, Holds, Started
<1> QED BY <1>1, <1>2, <1>3

\* The line of an order that goes out had nothing at the market.
LEMMA OrderedStanding ==
    ASSUME Known, Known', Clear, Clear', NEW p \in Proc, NEW l \in todo[p], NEW q \in Sendable(p, l),
           Ordered(p, l, q)
    PROVE  Promise!Order(l, q) /\ l \in Line /\ q \in 1..PlanQty[l]
<1> DEFINE new == <<batch[p], l>>
<1>1. /\ new \in Key \ accepted /\ l \in Line /\ q \in Nat /\ q <= PlanQty[l] /\ oqty[new] = 0
      /\ oqty' = [oqty EXCEPT ![new] = q] /\ q >= 1 /\ new[2] = l
  BY OrderedNew, SendablePositive DEF Known
<1>2. /\ pc[p] \in Busy /\ dayLock' = dayLock /\ live' = live \cup {new} /\ accepted' = accepted \cup {new}
      /\ filled' = filled
  BY DEF Ordered, Busy
<1> HIDE DEF new
<1>3. Free(l) /\ dayLock
  BY <1>2, PlacesStarted DEF Clear, ToSend
<1>4. Exposure(l) = 0
  BY <1>1, <1>3, ExposureBounds
<1>5. Standing'[new] = q /\ \A k \in Key : k # new => Standing'[k] = Standing[k]
  BY <1>1, <1>2, OrderFacts DEF Known, Standing
<1>6. ASSUME NEW m \in Line, m # l PROVE Exposure(m)' = Exposure(m)
  <2>1. OfLine(m)' = OfLine(m)
    BY <1>1, <1>2, <1>6 DEF OfLine
  <2>2. \A k \in OfLine(m) : Standing'[k] = Standing[k] /\ Standing[k] \in Nat
    BY <1>1, <1>5, <1>6, StandingFacts DEF OfLine
  <2>3. Exposure(m) = SumOver(Standing, OfLine(m)) /\ Exposure(m)' = SumOver(Standing', OfLine(m))
    BY <2>1, ExposureSums, ExposureSumsNext DEF Known
  <2>4. Integral(Standing, OfLine(m)) /\ IsFiniteSet(OfLine(m))
    BY <2>2, StandingFacts DEF Integral
  <2>5. PICK f, g : f = Standing' /\ g = Standing
    OBVIOUS
  <2> QED BY <2>2, <2>3, <2>4, <2>5, SumSame
<1>7. Exposure(l)' = q
  <2>1. OfLine(l)' = OfLine(l) \cup {new}
    BY <1>1, <1>2 DEF OfLine
  <2>2. \A k \in OfLine(l)' \ {new} : k \in Key /\ k \in accepted /\ Empty(k)
    BY <1>1, <1>3, <2>1, StandingFacts DEF Free, OfLine
  <2>3. ASSUME NEW k \in OfLine(l)' \ {new} PROVE Standing'[k] = 0
    <3>1. k \in Key /\ k # new /\ k \in accepted /\ Empty(k)
      BY <2>2
    <3>2. Standing[k] = 0
      BY <1>1, <3>1, StandingFacts
    <3> QED BY <1>5, <3>1, <3>2
  <2>4. IsFiniteSet(OfLine(l)')
    BY <1>1, <2>1, StandingFacts, FS_AddElement
  <2>5. Exposure(l)' = SumOver(Standing', OfLine(l)')
    BY <1>1, ExposureSumsNext DEF Known
  <2>6. PICK f, S : f = Standing' /\ S = OfLine(l)'
    OBVIOUS
  <2>7. new \in S /\ f[new] \in Int /\ f[new] = q
    BY <1>1, <1>5, <2>1, <2>6
  <2> QED BY <2>3, <2>4, <2>5, <2>6, <2>7, SumSingle
<1>8. [m \in Line |-> Exposure(m)]' = [[m \in Line |-> Exposure(m)] EXCEPT ![l] = q]
  BY <1>6, <1>7
<1> QED BY <1>1, <1>2, <1>3, <1>4, <1>8 DEF Promise!Order

\* Every step of one process is a step of DayOrders.
LEMMA KindPromise ==
    ASSUME Known, Known', Clear, Clear', Orderly, NEW p \in Proc, Kind(p)
    PROVE  Promise!Next
<1>1. CASE \/ Rest(p) \/ Read(p) \/ Dropped(p) \/ Written(p) \/ SheetOpened(p) \/ RetryOpened(p) \/ Died(p)
  <2>1. broker' = broker /\ dayLock' = dayLock
    BY <1>1 DEF Rest, Read, Dropped, Written, SheetOpened, RetryOpened, Opened, Died
  <2> QED BY <2>1, OnlyWithdraws DEF broker, Promise!Next
<1>2. CASE Asked(p)
  BY <1>2, OnlyWithdraws DEF Asked, Promise!Next
<1>3. CASE EnterExecute(p)
  <2>1. ~dayLock /\ dayLock' /\ broker' = broker
    BY <1>3 DEF EnterExecute, AcquireDayLock, Orderly
  <2>2. Promise!Start
    BY <2>1, SameStanding DEF Promise!Start, Known, TypeOK, StoreType
  <2> QED BY <2>2 DEF Promise!Next
<1>4. ASSUME NEW l \in todo[p], NEW q \in Sendable(p, l), Ordered(p, l, q) PROVE Promise!Next
  BY <1>4, OrderedStanding DEF Promise!Next
<1> QED BY <1>1, <1>2, <1>3, <1>4 DEF Kind

\* Every step of the day is a step of DayOrders or leaves it as it is.
LEMMA StepPromise ==
    Known /\ Known' /\ Clear /\ Clear' /\ Orderly /\ [Next]_vars => [Promise!Next]_(Promise!vars)
<1> SUFFICES ASSUME Known, Known', Clear, Clear', Orderly, [Next]_vars PROVE [Promise!Next]_(Promise!vars)
  OBVIOUS
<1>1. CASE Still \/ Tick \/ ExpireRetryLock
  BY <1>1, OnlyWithdraws DEF Still, Tick, ExpireRetryLock, shared, redis, broker, Promise!Next
<1>2. ASSUME NEW k \in Key, Fill(k) PROVE Promise!Next
  <2>1. /\ dayLock' = dayLock /\ accepted' = accepted /\ oqty' = oqty /\ live' \subseteq live
        /\ k \in live /\ filled' = [filled EXCEPT ![k] = @ + 1]
    BY <1>2 DEF Fill, redis
  <2>2. \A j \in Key : filled'[j] = filled[j] \/ (j \in live /\ filled'[j] <= oqty[j])
    BY <2>1, OrderFacts DEF Known, RowInv, Executions
  <2> QED BY <2>1, <2>2, OnlyWithdraws DEF Promise!Next
<1> QED BY <1>1, <1>2, StepKind, KindPromise DEF Known

\* The day starts as DayOrders starts.
LEMMA InitPromise == Init => Promise!Init
<1> SUFFICES ASSUME Init PROVE Promise!Init
  OBVIOUS
<1>1. ASSUME NEW l \in Line PROVE Exposure(l) = 0
  <2>1. Exposure(l) = SumOver(Standing, {})
    <3>1. OfLine(l) = {} /\ accepted \subseteq Key
      BY DEF Init, OfLine
    <3> QED BY <3>1, ExposureIsSum
  <2> QED BY <2>1, SumEmpty
<1> QED BY <1>1 DEF Promise!Init, Init

\* The whole day, with every process and every request, implements DayOrders: an
\* order of a line goes out only after the day was started, once, and only while
\* nothing of that line is at the market or executed.
THEOREM DayOrdersKept ==
    ASSUME Orderly
    PROVE  Spec => PromiseKept
<1>1. Known /\ Known' /\ Clear /\ Clear' /\ [Next]_vars => [Promise!Next]_(Promise!vars)
  BY StepPromise
<1> QED BY <1>1, InitPromise, InvariantHolds, PTL DEF Spec, PromiseKept, Promise!Spec
=============================================================================
