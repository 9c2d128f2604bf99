----------------------------- MODULE BacktestJob -----------------------------
(***************************************************************************)
(* One backtest job (apps/api/app/backtests.py, run_backtest_job in         *)
(* worker.py): the row in the database, the deliveries of its Celery task,  *)
(* the cancel key and the progress channel in Redis, a user who cancels or  *)
(* deletes it, and browsers that watch its progress.                        *)
(***************************************************************************)
EXTENDS Integers

CONSTANTS
    Delivery,   \* deliveries of the task (acks_late: unacknowledged ones return)
    Mortal,     \* deliveries whose worker may die
    Overlap,    \* BOOLEAN: the task returns while its first delivery still runs
    PublishFails,   \* statuses whose announcement Redis may refuse
    Watcher,    \* browsers on the progress socket
    Deleter,    \* delete requests
    MaxData,    \* bound: versions of the price bars
    Steps       \* progress callbacks of one run of the engine

ASSUME JobAssumption ==
    /\ Mortal \subseteq Delivery
    /\ Overlap \in BOOLEAN
    /\ MaxData \in Nat \ {0} /\ Steps \in Nat \ {0}

Final == {"DONE", "FAILED", "CANCELED"}
JobStatus == {"QUEUED", "RUNNING"} \cup Final
Version == 0..MaxData           \* 0: none

VARIABLES
    row,        \* backtests.status, "gone" once deleted
    fprint,     \* backtests.data_fingerprint: the version of the bars
    result,     \* kpi, trades and backtest_equity: the version they come from
    data,       \* version of ohlcv_daily
    sent,       \* the task is in the queue
    cancelKey,  \* Redis: cancel requested
    snap,       \* Redis: last progress snapshot
    pc, loaded, left, word,     \* per delivery; word: what it publishes next
    watch, heard,               \* per browser
    del         \* per delete request: status it has read
db == <<row, fprint, result>>
worker == <<pc, loaded, left, word>>
browser == <<watch, heard>>
vars == <<db, data, sent, cancelKey, snap, worker, browser, del>>

Init ==
    /\ row = "QUEUED" /\ fprint = 0 /\ result = 0
    /\ data = 1 /\ sent = FALSE /\ cancelKey = FALSE /\ snap = "none"
    /\ pc = [d \in Delivery |-> "out"]
    /\ loaded = [d \in Delivery |-> 0]
    /\ left = [d \in Delivery |-> Steps]
    /\ word = [d \in Delivery |-> "none"]
    /\ watch = [w \in Watcher |-> "off"]
    /\ heard = [w \in Watcher |-> {}]
    /\ del = [u \in Deleter |-> "none"]

-----------------------------------------------------------------------------
(* The task. *)

\* create_backtest commits the row, then sends the task.
Enqueue ==
    /\ ~sent /\ sent' = TRUE
    /\ UNCHANGED <<db, data, cancelKey, snap, worker, browser, del>>

\* A delivery holds the row lock from its first read to the RUNNING commit.
Locked == \E d \in Delivery : pc[d] = "load"

\* When the queue hands the task out (again).
Due(d) ==
    /\ sent /\ pc[d] = "out"
    /\ Overlap \/ \A e \in Delivery : pc[e] \in {"out", "dead"}

\* Mutant: a finished job is run again.
AnyJob == row # "gone"
\* Mutant: only a fresh job is run.
FreshJob == row = "QUEUED"
\* Deleted and finished jobs are left alone; any other is (re)started.
Runnable == row \notin {"gone", "DONE"}

Begin(d) ==
    /\ Due(d) /\ ~Locked
    /\ pc' = [pc EXCEPT ![d] = IF Runnable THEN "load" ELSE "done"]
    /\ UNCHANGED <<db, data, sent, cancelKey, snap, loaded, left, word, browser, del>>

\* The bars are loaded and the RUNNING commit names them.
Load(d) ==
    /\ pc[d] = "load"
    /\ loaded' = [loaded EXCEPT ![d] = data]
    /\ row' = "RUNNING" /\ fprint' = data
    /\ word' = [word EXCEPT ![d] = "RUNNING"]
    /\ pc' = [pc EXCEPT ![d] = "announce"]
    /\ UNCHANGED <<result, data, sent, cancelKey, snap, left, browser, del>>

\* Bars are missing, the engine fails, Redis or the database does not answer.
Break(d) ==
    /\ pc[d] \in {"load", "run", "store"}
    /\ pc' = [pc EXCEPT ![d] = "failing"]
    /\ UNCHANGED <<db, data, sent, cancelKey, snap, loaded, left, word, browser, del>>

\* progress_cb: stop on a cancel, else publish how far it is.
Progress(d) ==
    /\ pc[d] = "run" /\ left[d] > 0
    /\ left' = [left EXCEPT ![d] = @ - 1]
    /\ IF cancelKey
       THEN pc' = [pc EXCEPT ![d] = "cancelling"] /\ UNCHANGED word
       ELSE /\ pc' = [pc EXCEPT ![d] = "announce"]
            /\ word' = [word EXCEPT ![d] = "RUNNING"]
    /\ UNCHANGED <<db, data, sent, cancelKey, snap, loaded, browser, del>>

Computed(d) ==
    /\ pc[d] = "run" /\ left[d] = 0
    /\ pc' = [pc EXCEPT ![d] = "store"]
    /\ UNCHANGED <<db, data, sent, cancelKey, snap, loaded, left, word, browser, del>>

\* A final status in one commit, then its announcement.
Settle(d, status) ==
    /\ row # "gone" /\ ~Locked
    /\ row' = status
    /\ word' = [word EXCEPT ![d] = status]
    /\ pc' = [pc EXCEPT ![d] = "announce"]
    /\ UNCHANGED <<data, sent, cancelKey, snap, loaded, left, browser, del>>

\* Mutant: the result is stored under the fingerprint of the moment.
StoreRelabelled(d) ==
    /\ pc[d] = "store" /\ Settle(d, "DONE")
    /\ result' = loaded[d] /\ fprint' = data

\* The result replaces what is there.  The code reads the row again for update
\* and would give up on DONE; but the session holds the row since its RUNNING
\* commit, does not expire it (db.py) and does not ask to populate it anew, so
\* the status it compares is always its own "RUNNING".
Store(d) ==
    /\ pc[d] = "store" /\ Settle(d, "DONE")
    /\ result' = loaded[d] /\ UNCHANGED fprint

\* After a rollback, which forgets what the session held, the row is read again.
SettleFailed(d) ==
    /\ pc[d] = "failing" /\ Settle(d, "FAILED") /\ UNCHANGED <<fprint, result>>
SettleCanceled(d) ==
    /\ pc[d] = "cancelling" /\ Settle(d, "CANCELED") /\ UNCHANGED <<fprint, result>>

\* The row was deleted meanwhile: the handler itself raises, nothing is said.
Vanished(d) ==
    /\ pc[d] \in {"store", "failing", "cancelling"} /\ row = "gone"
    /\ pc' = [pc EXCEPT ![d] = "done"]
    /\ UNCHANGED <<db, data, sent, cancelKey, snap, loaded, left, word, browser, del>>

\* publish: first the snapshot key, then the channel.
PublishSnap(d) ==
    /\ snap' = word[d] /\ UNCHANGED heard
PublishChannel(d) ==
    /\ heard' = [w \in Watcher |-> IF watch[w] = "off" THEN heard[w] ELSE heard[w] \cup {word[d]}]
    /\ UNCHANGED snap
\* Mutant: the channel before the snapshot.
ChannelFirst(d, first) == IF first THEN PublishChannel(d) ELSE PublishSnap(d)
Publish(d, first) == IF first THEN PublishSnap(d) ELSE PublishChannel(d)

Announce(d) ==
    /\ pc[d] = "announce" /\ Publish(d, TRUE)
    /\ pc' = [pc EXCEPT ![d] = "announced"]
    /\ UNCHANGED <<db, data, sent, cancelKey, loaded, left, word, watch, del>>
Announced(d) ==
    /\ pc[d] = "announced" /\ Publish(d, FALSE)
    /\ pc' = [pc EXCEPT ![d] = IF word[d] = "RUNNING" THEN "run" ELSE "done"]
    /\ UNCHANGED <<db, data, sent, cancelKey, loaded, left, word, watch, del>>

\* An announcement raises.  The one of a start or a result is made under the
\* try that marks the job FAILED, those of the handlers are not.
PublishError(d) ==
    /\ pc[d] \in {"announce", "announced"} /\ word[d] \in PublishFails
    /\ pc' = [pc EXCEPT ![d] = IF word[d] \in {"RUNNING", "DONE"} THEN "failing" ELSE "done"]
    /\ UNCHANGED <<db, data, sent, cancelKey, snap, loaded, left, word, browser, del>>

\* The worker dies: its transaction and its lock are gone, the task comes back.
Crash(d) ==
    /\ d \in Mortal /\ pc[d] \notin {"out", "done", "dead"}
    /\ pc' = [pc EXCEPT ![d] = "dead"]
    /\ UNCHANGED <<db, data, sent, cancelKey, snap, loaded, left, word, browser, del>>

-----------------------------------------------------------------------------
(* Others. *)

\* Bars are corrected or added while jobs run.
Ingest ==
    /\ data < MaxData /\ data' = data + 1
    /\ UNCHANGED <<db, sent, cancelKey, snap, worker, browser, del>>

CancelRequest ==
    /\ row \in {"QUEUED", "RUNNING"} /\ ~cancelKey
    /\ cancelKey' = TRUE
    /\ UNCHANGED <<db, data, sent, snap, worker, browser, del>>

\* A running job is refused (409); what happens before the commit is not seen.
DeleteRead(u) ==
    /\ del[u] = "none" /\ row \notin {"RUNNING", "gone"}
    /\ del' = [del EXCEPT ![u] = row]
    /\ UNCHANGED <<db, data, sent, cancelKey, snap, worker, browser>>

\* Equity rows stored since the request deleted them keep the row (foreign key).
DeleteCommit(u) ==
    /\ del[u] \in JobStatus /\ ~Locked
    /\ del' = [del EXCEPT ![u] = "over"]
    /\ IF row = "gone" \/ (row = "DONE" /\ del[u] # "DONE")
       THEN UNCHANGED <<row, result>>
       ELSE row' = "gone" /\ result' = 0
    /\ UNCHANGED <<fprint, data, sent, cancelKey, snap, worker, browser>>

\* ws_backtest_progress subscribes first and reads the snapshot then.
Subscribe(w) ==
    /\ watch[w] = "off"
    /\ watch' = [watch EXCEPT ![w] = "subscribed"]
    /\ UNCHANGED <<db, data, sent, cancelKey, snap, worker, heard, del>>
ReadSnap(w) ==
    /\ watch[w] = "subscribed"
    /\ watch' = [watch EXCEPT ![w] = "listening"]
    /\ heard' = [heard EXCEPT ![w] = @ \cup {snap}]
    /\ UNCHANGED <<db, data, sent, cancelKey, snap, worker, del>>

-----------------------------------------------------------------------------
Work(d) ==
    \/ Begin(d) \/ Load(d) \/ Progress(d) \/ Computed(d) \/ Store(d)
    \/ SettleFailed(d) \/ SettleCanceled(d) \/ Vanished(d)
    \/ Announce(d) \/ Announced(d)
Next ==
    \/ Enqueue \/ Ingest \/ CancelRequest
    \/ \E d \in Delivery : Work(d) \/ Break(d) \/ PublishError(d) \/ Crash(d)
    \/ \E u \in Deleter : DeleteRead(u) \/ DeleteCommit(u)
    \/ \E w \in Watcher : Subscribe(w) \/ ReadSnap(w)
Spec == Init /\ [][Next]_vars

\* The route sends its task, workers work, a socket that is open is served.
Fairness ==
    /\ WF_vars(Enqueue)
    /\ \A d \in Delivery : WF_vars(Work(d))
    /\ \A w \in Watcher : WF_vars(ReadSnap(w))
FairSpec == Spec /\ Fairness

-----------------------------------------------------------------------------
(* Properties. *)

Places == {"out", "load", "announce", "announced", "run", "store", "failing",
           "cancelling", "done", "dead"}
\* Every variable keeps its type.
TypeOK ==
    /\ row \in JobStatus \cup {"gone"}
    /\ fprint \in Version /\ result \in Version /\ data \in Version \ {0}
    /\ sent \in BOOLEAN /\ cancelKey \in BOOLEAN
    /\ snap \in JobStatus \cup {"none"}
    /\ pc \in [Delivery -> Places]
    /\ loaded \in [Delivery -> Version]
    /\ left \in [Delivery -> 0..Steps]
    /\ word \in [Delivery -> JobStatus \cup {"none"}]
    /\ watch \in [Watcher -> {"off", "subscribed", "listening"}]
    /\ heard \in [Watcher -> SUBSET (JobStatus \cup {"none"})]
    /\ del \in [Deleter -> JobStatus \cup {"none", "over"}]

\* A stored result is the last word: a task that comes again after its worker
\* died neither runs the job anew nor changes its result or status.
DoneStays ==
    [][row = "DONE" => row' = "gone" \/ UNCHANGED <<row, result, fprint>>]_vars

\* The fingerprint of a finished job names the bars its result was computed
\* from: create_backtest hands the result out again for equal fingerprints.
ResultMatchesData == row = "DONE" => result = fprint /\ result # 0

\* A cancelled or failed job has no result, however often it was started.
NoPartialResult == row \in {"CANCELED", "FAILED"} => result = 0

\* A cancel that comes before the job is started is obeyed: it is never done.
QueuedCancelWins == [](cancelKey /\ row = "QUEUED" => [](row # "DONE"))

\* A job that was sent ends, or is deleted, even if a worker dies with it; and a job
\* cancelled in time does not end as done.
JobEnds == QueuedCancelWins /\ (sent ~> row \in Final \cup {"gone"})

\* A browser that watches hears the end, whenever it connects, unless the job is
\* deleted or a worker dies with the news.
WatcherLearns ==
    \A w \in Watcher :
        watch[w] # "off" ~> \/ heard[w] \cap Final # {}
                            \/ row = "gone"
                            \/ \E d \in Delivery : pc[d] = "dead"

\* Why DoneStays and ResultMatchesData hold when deliveries do not overlap: one
\* delivery is at work, the row is RUNNING under the fingerprint it loaded, and
\* only a finished job has a result.
Underway(d) ==
    \/ pc[d] \in {"run", "store", "cancelling"}
    \/ pc[d] \in {"announce", "announced"} /\ word[d] = "RUNNING"
IInv ==
    /\ \A d, e \in Delivery :
          pc[d] \notin {"out", "dead"} /\ pc[e] \notin {"out", "dead"} => d = e
    /\ \A d \in Delivery :
          /\ pc[d] \in {"load", "failing"} => row # "DONE"
          /\ Underway(d) =>
                row \in {"RUNNING", "gone"} /\ fprint = loaded[d] /\ loaded[d] # 0
    /\ ResultMatchesData
    /\ row # "DONE" => result = 0
=============================================================================
