------------------------------ MODULE CashCheck ------------------------------
(***************************************************************************)
(* The evening of one portfolio with a linked account: executions are       *)
(* imported, deviations from the plan stop the unattended execution, and    *)
(* the cash of the ledger is compared with the account (broker.py           *)
(* run_post_close_sync, cashcheck.py).  The result is kept in               *)
(* trade_portfolios.params, one JSON value that every writer writes whole   *)
(* from the copy it loaded.                                                 *)
(*                                                                          *)
(* One day; cash in units, a deal's amount signed.                          *)
(***************************************************************************)
EXTENDS Integers, FiniteSets, FiniteSetsExt

CONSTANTS
    Deals,          \* executions: [no, amount, planned]
    Task,           \* the worker's session
    Users,          \* sessions of requests
    Drift,          \* bound: cash moved outside the program (fees, dividends)
    Runs,           \* bound: runs of the task, 15:45, 17:10 and deliveries again
    Roles,          \* bound: what each request may be, in one behaviour
    MaxChoice       \* bound: settings the user changes

ASSUME CashAssumption ==
    /\ {Drift, Runs, MaxChoice} \subseteq Nat /\ Task \notin Users
    /\ IsFiniteSet(Deals) /\ \A d \in Deals : d.amount \in Int /\ d.planned \in BOOLEAN

VARIABLES
    cast,           \* what each request may be
    done, outside,  \* executions at the broker, cash moved beside them
    booked,         \* executions in the ledger
    aligned,        \* corrections in the ledger, summed up
    params,         \* [choice, paused, check]
    sess,           \* what each session is at, the params it loaded, the balance it read
    runs,           \* runs of the task so far
    hasty,          \* history: corrected by a check of incomplete books, or by two at once
    known           \* history: outside at the check last used for a correction
cashVars == <<cast, done, outside, booked, aligned, params, sess, runs, hasty, known>>

Sum2(ds) == MapThenSumSet(LAMBDA d : d.amount, ds)
AccountCash == Sum2(done) + outside
LedgerCash == Sum2(booked) + aligned

\* A stored comparison; complete and outside are history.
Check(ledger, acct, complete, out) ==
    [ledger |-> ledger, diff |-> acct - ledger, complete |-> complete, outside |-> out]
NoCheck == [ledger |-> 0, diff |-> 0, complete |-> FALSE, outside |-> 0]
Fresh == [choice |-> 0, paused |-> FALSE, check |-> NoCheck]
Nothing == [cash |-> 0, deals |-> {}, outside |-> 0]
Away == [at |-> "idle", copy |-> Fresh, fresh |-> TRUE, bal |-> Nothing]

CashInit ==
    /\ cast \in Roles
    /\ done = {} /\ outside = 0 /\ booked = {} /\ aligned = 0 /\ params = Fresh
    /\ sess = [s \in Users \cup {Task} |-> Away] /\ runs = 0 /\ hasty = FALSE /\ known = 0

-----------------------------------------------------------------------------
(* Sessions. *)

\* s loads the row and goes on.
Load(s, at) == sess' = [sess EXCEPT ![s] = [Away EXCEPT !.at = at, !.copy = params]]

\* Mutant: the session goes on with what it loaded and not with what it wrote.
WriteAside(s, p, at) ==
    /\ params' = p
    /\ sess' = [q \in DOMAIN sess |->
                   IF q = s THEN [sess[q] EXCEPT !.at = at]
                   ELSE [sess[q] EXCEPT !.fresh = sess[q].at = "idle"]]

\* s writes params whole and commits; every other session's copy is now old.
Write(s, p, at) ==
    /\ params' = p
    /\ sess' = [q \in DOMAIN sess |->
                   IF q = s THEN (IF at = "idle" THEN Away ELSE [sess[q] EXCEPT !.at = at, !.copy = p])
                   ELSE [sess[q] EXCEPT !.fresh = sess[q].at = "idle"]]

\* s commits something else, or nothing.
Pass(s, at) == sess' = [sess EXCEPT ![s] = IF at = "idle" THEN Away ELSE [@ EXCEPT !.at = at]]

\* s rolls back: what it loaded has expired and is read again by its next stage.
RollBack(s, at) == IF at = "idle" THEN sess' = [sess EXCEPT ![s] = Away] ELSE Load(s, at)

-----------------------------------------------------------------------------
(* Comparing. *)

\* fetch_balance: the account of the moment of the answer.
Asked == [cash |-> AccountCash, deals |-> done, outside |-> outside]

Compared(s) ==
    LET bal == sess[s].bal
    IN  Check(LedgerCash, bal.cash, bal.deals = booked, bal.outside)

FetchBalance(s) ==
    /\ sess[s].at = "cash"
    /\ \/ sess' = [sess EXCEPT ![s].at = "compare", ![s].bal = Asked]
       \/ RollBack(s, "idle")                                   \* the broker does not answer
    /\ UNCHANGED <<cast, done, outside, booked, aligned, params, runs, hasty, known>>

StoreCheck(s) ==
    /\ sess[s].at = "compare"
    /\ Write(s, [sess[s].copy EXCEPT !.check = Compared(s)], "idle")
    /\ UNCHANGED <<cast, done, outside, booked, aligned, runs, hasty, known>>

-----------------------------------------------------------------------------
(* run_post_close_sync, one portfolio: each stage fails for itself. *)

TaskBegin == /\ sess[Task].at = "idle" /\ runs < Runs /\ runs' = runs + 1
             /\ Load(Task, "import")
             /\ UNCHANGED <<cast, done, outside, booked, aligned, params, hasty, known>>

TaskImport ==
    /\ sess[Task].at = "import"
    /\ \/ booked' = done /\ Pass(Task, "orders")
       \/ booked' = booked /\ RollBack(Task, "orders")
    /\ UNCHANGED <<cast, done, outside, aligned, params, runs, hasty, known>>

\* reconcile_for_portfolio and pause_if_reconcile_warns.
Danger == \E d \in booked : ~d.planned

TaskOrders ==
    /\ sess[Task].at = "orders"
    /\ \/ IF Danger /\ ~sess[Task].copy.paused
          THEN Write(Task, [sess[Task].copy EXCEPT !.paused = TRUE], "cash")
          ELSE Pass(Task, "cash") /\ UNCHANGED params
       \/ RollBack(Task, "cash") /\ UNCHANGED params
    /\ UNCHANGED <<cast, done, outside, booked, aligned, runs, hasty, known>>

TaskDies == /\ sess[Task].at # "idle" /\ sess' = [sess EXCEPT ![Task] = Away]
            /\ UNCHANGED <<cast, done, outside, booked, aligned, params, runs, hasty, known>>

-----------------------------------------------------------------------------
(* Requests. *)

\* get_cash_check with refresh.
BeginRefresh(u) == /\ "refresh" \in cast[u] /\ sess[u].at = "idle" /\ Load(u, "cash")
                   /\ UNCHANGED <<cast, done, outside, booked, aligned, params, runs, hasty, known>>

\* Mutant: the ledger is not compared again.
StillTrueAlways(check) == TRUE

\* The ledger has not changed since the check.
StillTrue(check) == LedgerCash = check.ledger

BeginAlign(u) ==
    /\ "align" \in cast[u] /\ sess[u].at = "idle" /\ params.check # NoCheck
    /\ StillTrue(params.check) /\ params.check.diff # 0
    /\ sess' = [sess EXCEPT ![u] = [Away EXCEPT !.at = "align", !.copy = params, !.bal.cash = LedgerCash]]
    /\ UNCHANGED <<cast, done, outside, booked, aligned, params, runs, hasty, known>>

CommitAlign(u) ==
    LET check == sess[u].copy.check IN
    /\ sess[u].at = "align"
    /\ aligned' = aligned + check.diff
    /\ Write(u, [sess[u].copy EXCEPT !.check = [check EXCEPT !.ledger = check.ledger + check.diff, !.diff = 0]], "idle")
    /\ hasty' = (hasty \/ ~check.complete \/ LedgerCash # sess[u].bal.cash)
    /\ known' = check.outside
    /\ UNCHANGED <<cast, done, outside, booked, runs>>

\* A setting of the user: skip a day, colour, formula; and the end of a stop.
BeginChoice(u) == /\ "choose" \in cast[u] /\ sess[u].at = "idle" /\ params.choice < MaxChoice /\ Load(u, "choose")
                  /\ UNCHANGED <<cast, done, outside, booked, aligned, params, runs, hasty, known>>
CommitChoice(u) ==
    /\ sess[u].at = "choose"
    /\ Write(u, [sess[u].copy EXCEPT !.choice = @ + 1], "idle")
    /\ UNCHANGED <<cast, done, outside, booked, aligned, runs, hasty, known>>
Resume(u) ==
    /\ "choose" \in cast[u] /\ sess[u].at = "idle" /\ params.paused
    /\ Write(u, [params EXCEPT !.paused = FALSE], "idle")
    /\ UNCHANGED <<cast, done, outside, booked, aligned, runs, hasty, known>>

\* The import button.
ImportNow == /\ booked' = done
             /\ UNCHANGED <<cast, done, outside, aligned, params, sess, runs, hasty, known>>

Deal == /\ \E d \in Deals \ done : done' = done \cup {d}
        /\ UNCHANGED <<cast, outside, booked, aligned, params, sess, runs, hasty, known>>
MoveCash == /\ outside < Drift /\ outside' = outside + 1
            /\ UNCHANGED <<cast, done, booked, aligned, params, sess, runs, hasty, known>>

\* Bound: nothing is promised of the cash after a hasty correction.
Explored == ~hasty

CashNext ==
    /\ Explored
    /\ \/ TaskBegin \/ TaskImport \/ TaskOrders \/ TaskDies
       \/ \E s \in Users \cup {Task} : FetchBalance(s) \/ StoreCheck(s)
       \/ \E u \in Users : \/ BeginRefresh(u) \/ BeginAlign(u) \/ CommitAlign(u)
                           \/ BeginChoice(u) \/ CommitChoice(u) \/ Resume(u)
       \/ ImportNow \/ Deal \/ MoveCash

CashSpec == CashInit /\ [][CashNext]_cashVars

-----------------------------------------------------------------------------
(* Properties. *)

\* Corrections add up to the cash moved outside at the check last used, whatever was
\* imported, checked or written back from an old copy meanwhile, unless two corrections
\* overlapped or the check met books that lacked an execution (cashcheck.py:170).
AlignExact == ~hasty => aligned = known

\* A stop and the user's settings are undone only by the user or by a session that loaded
\* the row before: the stages of one run do not undo each other (broker.py:974).
NothingUndone ==
    [][(params.paused /\ ~params'.paused) \/ params'.choice < params.choice
          => \E s \in DOMAIN sess : \/ s \in Users /\ Resume(s)
                                    \/ sess[s].at # "idle" /\ ~sess[s].fresh]_cashVars
=============================================================================
