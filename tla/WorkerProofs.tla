---------------------------- MODULE WorkerProofs ----------------------------
(***************************************************************************)
(* The proofs about what the Celery workers do in the background: the       *)
(* stored bars and the signals of a day (Market), and backtest jobs         *)
(* (BacktestJob).                                                           *)
(*                                                                          *)
(* Bars: rows on their way are what the argument is about: each is of a     *)
(* finished session or has been straddled by its close, and the US rows of  *)
(* a batch reach back to what is stored, however many batches store at the  *)
(* same time.                                                               *)
(*                                                                          *)
(* Jobs: a task that only comes again after its worker died never touches a *)
(* stored result, and the result belongs to the fingerprint beside it.      *)
(***************************************************************************)
EXTENDS Market, BacktestJob, Sums, TLAPS

MarketTypes ==
    /\ time \in Nat /\ known \subseteq Instruments
    /\ DOMAIN task = Batch \union Viewer
    /\ table \in [Instruments -> [Dates -> {"none", "final", "early"}]]

\* A row on its way.
Sound(r) == /\ r.inst \in Instruments /\ r.day \in 1..LastDate
            /\ r.final \/ ~Ended(r.inst, r.day) \/ <<r.inst, r.day>> \in straddled

\* A day of a US fund is stored, refused, or on its way in the same batch.
Backed(i, d, taken) == \/ table[i][d] # "none" \/ <<i, d>> \in Refused
                      \/ \E r \in taken : r.inst = i /\ r.day = d
ReachBack(taken) == \A r \in taken : r.inst \in Foreign =>
                      r.inst \in known /\ \A d \in (1..r.day) \ Closed : Backed(r.inst, d, taken)

OnTheWay == \A t \in Batch \union Viewer : ReachBack(task[t].rows) /\ \A r \in task[t].rows : Sound(r)

EarlyStraddled == \A i \in Instruments, d \in Dates : table[i][d] = "early" => <<i, d>> \in straddled
\* Up to every stored day, and from the first on.
NoHole == \A i \in Foreign \intersect known :
             /\ table[i][0] # "none"
             /\ \A e \in Dates : table[i][e] # "none" => \A d \in (1..e) \ Closed :
                   table[i][d] # "none" \/ <<i, d>> \in Refused

MarketInv == MarketTypes /\ OnTheWay /\ EarlyStraddled /\ NoHole

-----------------------------------------------------------------------------
(* Sessions and rows. *)

\* A set of dates that is not empty has a last one.
LEMMA LastDay ==
    ASSUME NEW S, S \subseteq Dates, S # {}
    PROVE  Max(S) \in S /\ \A y \in S : Max(S) >= y
<1> DEFINE T == {LastDate - x : x \in S}
<1>1. LastDate \in Nat
  BY MarketAssumption DEF MarketAssumption
<1>2. T \subseteq Nat /\ T # {}
  <2>1. ASSUME NEW x \in S PROVE LastDate - x \in Nat
    BY <1>1 DEF Dates
  <2> QED BY <2>1
<1>3. PICK m \in T : \A y \in T : m <= y
  BY <1>2, LeastNumber
<1>4. PICK x \in S : m = LastDate - x
  OBVIOUS
<1>5. \A y \in S : x >= y
  <2> SUFFICES ASSUME NEW y \in S PROVE x >= y
    OBVIOUS
  <2>1. LastDate - y \in T
    OBVIOUS
  <2> QED BY <1>1, <1>3, <1>4, <2>1 DEF Dates
<1> QED BY <1>5 DEF Max

\* What the code takes for over is over at the source.
LEMMA OverIsEnded ==
    ASSUME time \in Nat, NEW i \in Instruments, NEW d \in Nat, Over(i, d)
    PROVE  Ended(i, d)
<1>1. Now \in Nat /\ 4 * Now <= time /\ time = 4 * Now + (time % 4) /\ time % 4 \in 0..3
  BY DEF Now
<1>2. CASE i \in Foreign
  BY <1>1, <1>2 DEF Over, Ended
<1>3. CASE i \in Stock /\ i \notin Foreign
  BY <1>1, <1>3 DEF Over, Ended
<1>4. CASE i \notin Stock /\ i \notin Foreign
  BY <1>1, <1>4 DEF Over, Ended
<1> QED BY <1>2, <1>3, <1>4

\* The rows a source lists.
LEMMA RowsListed ==
    ASSUME NEW i, NEW ds, NEW r \in Rows(i, ds)
    PROVE  r.inst = i /\ r.day \in ds /\ Shown(i, r.day) /\ r.final = Ended(i, r.day)
  BY DEF Rows, Row

\* A day that has shown up at a source stays listed, and so do the open days before it.
LEMMA ShownBefore ==
    ASSUME time \in Nat, NEW i \in Foreign, NEW e \in Nat, Shown(i, e), NEW d \in (1..e) \ Closed
    PROVE  Shown(i, d)
  BY MarketAssumption DEF Shown, MarketAssumption

-----------------------------------------------------------------------------
(* Every step keeps the invariant. *)

\* More stored, more straddled, later, with the same rows or fewer.
LEMMA RowsStay ==
    ASSUME MarketInv, NEW taken, ReachBack(taken), \A r \in taken : Sound(r),
           known \subseteq known', time' = time, straddled \subseteq straddled',
           \A i \in Instruments, d \in Dates : table[i][d] # "none" => table'[i][d] # "none"
    PROVE  ReachBack(taken)' /\ \A r \in taken : Sound(r)'
<1>1. \A r \in taken : Sound(r)'
  BY DEF Sound, Ended
<1>2. ASSUME NEW r \in taken, r.inst \in Foreign, NEW d \in (1..r.day) \ Closed PROVE Backed(r.inst, d, taken)'
  <2>1. r.inst \in Instruments /\ r.day \in 1..LastDate /\ LastDate \in Nat
    BY MarketAssumption DEF Sound, MarketAssumption
  <2>2. d \in Dates
    BY <2>1 DEF Dates
  <2>3. r.inst \in known /\ Backed(r.inst, d, taken)
    BY <1>2 DEF ReachBack
  <2> QED BY <2>1, <2>2, <2>3 DEF Backed
<1>3. \A r \in taken : r.inst \in Foreign => r.inst \in known'
  BY DEF ReachBack
<1> QED BY <1>1, <1>2, <1>3 DEF ReachBack

\* Time passing keeps every row sound and every row of a US batch backed.
LEMMA TimeKeeps ==
    ASSUME MarketInv, TimePasses
    PROVE  MarketInv'
<1>1. /\ time' = time + 1 /\ time \in Nat /\ UNCHANGED <<known, table, task>>
      /\ straddled \subseteq straddled'
      /\ \A t \in Batch \union Viewer : \A r \in task[t].rows : ~r.final => <<r.inst, r.day>> \in straddled'
  BY DEF TimePasses, MarketInv, MarketTypes
<1>2. MarketTypes' /\ EarlyStraddled' /\ NoHole'
  BY <1>1 DEF MarketInv, MarketTypes, EarlyStraddled, NoHole
<1>3. ASSUME NEW t \in Batch \union Viewer PROVE ReachBack(task[t].rows)' /\ \A r \in task'[t].rows : Sound(r)'
  BY <1>1 DEF MarketInv, OnTheWay, ReachBack, Backed, Sound
<1> QED BY <1>2, <1>3 DEF MarketInv, OnTheWay

\* A task that begins with rows of a source, everything stored being as it was.
LEMMA BeginKeeps ==
    ASSUME MarketInv, NEW t \in Batch \union Viewer, NEW taken,
           UNCHANGED <<time, table, straddled>>, known \subseteq known', known' \subseteq Instruments,
           known' \intersect Foreign = known \intersect Foreign,
           DOMAIN task' = DOMAIN task, \A u \in Batch \union Viewer : u # t => task'[u] = task[u],
           task'[t].rows = taken, ReachBack(taken), \A r \in taken : Sound(r)
    PROVE  MarketInv'
<1>1. MarketTypes' /\ EarlyStraddled' /\ NoHole'
  BY DEF MarketInv, MarketTypes, EarlyStraddled, NoHole
<1>2. ASSUME NEW u \in Batch \union Viewer
      PROVE  ReachBack(task[u].rows)' /\ \A r \in task'[u].rows : Sound(r)'
  <2>1. PICK old : old = task'[u].rows
    OBVIOUS
  <2>2. ReachBack(old) /\ \A r \in old : Sound(r)
    BY <2>1 DEF MarketInv, OnTheWay
  <2>3. ReachBack(old)' /\ \A r \in old : Sound(r)'
    BY <2>2, RowsStay
  <2> QED BY <2>1, <2>3 DEF ReachBack, Backed
<1>3. OnTheWay'
  BY <1>2 DEF OnTheWay
<1> QED BY <1>1, <1>3 DEF MarketInv

\* Rows of a Korean instrument.
LEMMA HomeRows ==
    ASSUME MarketInv, NEW i \in Instruments \ Foreign, NEW ds, NEW r \in Rows(i, ds)
    PROVE  Sound(r) /\ r.inst = i /\ r.inst \notin Foreign
  BY RowsListed DEF Sound, Shown

\* Rows of a US fund: all that its source lists after the last stored day.
LEMMA ForeignRows ==
    ASSUME MarketInv, NEW i \in Foreign \intersect known, NEW r \in Rows(i, AfterLast(i))
    PROVE  /\ Sound(r) /\ r.inst = i
           /\ \A d \in (1..r.day) \ Closed :
                 table[i][d] # "none" \/ <<i, d>> \in Refused \/ \E q \in Rows(i, AfterLast(i)) : q.inst = i /\ q.day = d
<1>1. /\ r.inst = i /\ r.day \in AfterLast(i) /\ Shown(i, r.day) /\ r.final = Ended(i, r.day)
      /\ r.day \in 1..LastDate /\ i \in Instruments
  BY RowsListed DEF Shown, Instruments
<1>2. Sound(r)
  BY <1>1 DEF Sound
<1>3. Max(Present(i)) \in Present(i) /\ Present(i) \subseteq Dates
  <2>1. 0 \in Present(i) /\ Present(i) \subseteq Dates
    BY <1>1, MarketAssumption DEF Present, MarketInv, NoHole, Dates, MarketAssumption
  <2> QED BY <2>1, LastDay
<1>4. ASSUME NEW d \in (1..r.day) \ Closed
      PROVE  table[i][d] # "none" \/ <<i, d>> \in Refused \/ \E q \in Rows(i, AfterLast(i)) : q.inst = i /\ q.day = d
  <2>1. d \in Dates /\ Shown(i, d)
    BY <1>1, ShownBefore, MarketAssumption DEF Dates, MarketInv, MarketTypes, MarketAssumption
  <2>2. CASE d > Max(Present(i))
    <3>1. d \in AfterLast(i)
      BY <2>1, <2>2 DEF AfterLast
    <3>2. Row(i, d) \in Rows(i, AfterLast(i)) /\ Row(i, d).inst = i /\ Row(i, d).day = d
      BY <2>1, <3>1 DEF Rows, Row
    <3> QED BY <3>2
  <2>3. CASE ~(d > Max(Present(i)))
    <3>1. d \in (1..Max(Present(i))) \ Closed /\ Max(Present(i)) \in Dates /\ table[i][Max(Present(i))] # "none"
      BY <1>3, <2>1, <2>3, MarketAssumption DEF Dates, Present, MarketAssumption
    <3> QED BY <3>1 DEF MarketInv, NoHole
  <2> QED BY <2>2, <2>3
<1> QED BY <1>1, <1>2, <1>4

\* A batch starts with sound rows that reach back to what is stored.
LEMMA IngestBegins ==
    ASSUME MarketInv, NEW t \in Batch, BeginIngest(t)
    PROVE  MarketInv'
<1>1. PICK scope \in {"regular", "stocks"}, pages \in 0..1 :
          LET covered == {i \in known : InScope(i, scope)} IN
          \E answer \in [covered -> UNION {Answers(i) : i \in covered}] :
             /\ \A i \in covered : answer[i] \in Answers(i)
             /\ task' = [task EXCEPT ![t] =
                  [at |-> "fetched", scope |-> scope, day |-> Now,
                   rows |-> UNION {Fetch(i, Now, answer[i], pages) : i \in covered},
                   ok |-> \A i \in covered : ~Failed(answer[i])]]
  BY Zenon DEF BeginIngest
<1> DEFINE covered == {i \in known : InScope(i, scope)}
<1>2. PICK answer \in [covered -> UNION {Answers(i) : i \in covered}] :
         task' = [task EXCEPT ![t] =
                  [at |-> "fetched", scope |-> scope, day |-> Now,
                   rows |-> UNION {Fetch(i, Now, answer[i], pages) : i \in covered},
                   ok |-> \A i \in covered : ~Failed(answer[i])]]
  BY <1>1, Zenon
<1> DEFINE taken == UNION {Fetch(i, Now, answer[i], pages) : i \in covered}
<1>3. ASSUME NEW r \in taken
      PROVE  /\ Sound(r)
             /\ r.inst \in Foreign => r.inst \in known /\ \A d \in (1..r.day) \ Closed : Backed(r.inst, d, taken)
  <2>1. PICK i \in covered : r \in Fetch(i, Now, answer[i], pages)
    OBVIOUS
  <2>2. i \in known /\ i \in Instruments /\ Fetch(i, Now, answer[i], pages) \subseteq taken
    BY DEF MarketInv, MarketTypes
  <2>3. CASE i \notin Foreign
    <3>1. r \in Rows(i, {Now})
      BY <2>1, <2>3 DEF Fetch
    <3> QED BY <2>2, <2>3, <3>1, HomeRows
  <2>4. CASE i \in Foreign
    <3>1. Rows(i, {}) = {}
      BY DEF Rows
    <3>2. Fetch(i, Now, answer[i], pages) = Rows(i, AfterLast(i))
      BY <2>1, <2>4, <3>1 DEF Fetch, WholeOrNothing
    <3>3. /\ Sound(r) /\ r.inst = i
          /\ \A d \in (1..r.day) \ Closed :
                table[i][d] # "none" \/ <<i, d>> \in Refused \/ \E q \in Rows(i, AfterLast(i)) : q.inst = i /\ q.day = d
      BY <2>1, <2>2, <2>4, <3>2, ForeignRows
    <3> QED BY <2>2, <3>2, <3>3 DEF Backed
  <2> QED BY <2>3, <2>4
<1>4. ReachBack(taken) /\ \A r \in taken : Sound(r)
  BY <1>3 DEF ReachBack
<1>5. /\ task'[t].rows = taken /\ DOMAIN task' = DOMAIN task
      /\ \A u \in Batch \union Viewer : u # t => task'[u] = task[u]
  BY <1>2 DEF MarketInv, MarketTypes
<1>6. UNCHANGED <<time, known, table, straddled>> /\ known \subseteq Instruments
  BY DEF BeginIngest, MarketInv, MarketTypes
<1> HIDE DEF taken
<1> QED BY <1>4, <1>5, <1>6, BeginKeeps

\* A batch that dies leaves what is stored.
LEMMA IngestEnds ==
    ASSUME MarketInv, NEW t \in Batch, IngestDies(t)
    PROVE  MarketInv'
<1>1. task'[t].rows = {} /\ DOMAIN task' = DOMAIN task /\ \A u \in Batch \union Viewer : u # t => task'[u] = task[u]
  BY DEF IngestDies, NoTask, MarketInv, MarketTypes
<1>2. UNCHANGED <<time, known, table, straddled>> /\ known \subseteq Instruments
  BY DEF IngestDies, MarketInv, MarketTypes
<1>3. ReachBack({})
  BY DEF ReachBack
<1> QED BY <1>1, <1>2, <1>3, BeginKeeps

\* A viewer starts with sound rows of the funds it looks at.
LEMMA ViewBegins ==
    ASSUME MarketInv, NEW v \in Viewer, BeginView(v)
    PROVE  MarketInv'
<1>1. PICK i \in (known \union Stock) \ Foreign : \E from \in Asked(i) :
         /\ known' = known \union {i}
         /\ task' = [task EXCEPT ![v] = [NoTask EXCEPT !.at = "fetched", !.rows = Rows(i, Needed(i, from))]]
  BY DEF BeginView
<1>2. PICK ds : /\ known' = known \union {i}
                /\ task' = [task EXCEPT ![v] = [NoTask EXCEPT !.at = "fetched", !.rows = Rows(i, ds)]]
  BY <1>1
<1>3. i \in Instruments \ Foreign
  BY DEF Instruments, MarketInv, MarketTypes
<1>4. /\ task'[v].rows = Rows(i, ds) /\ DOMAIN task' = DOMAIN task
      /\ \A u \in Batch \union Viewer : u # v => task'[u] = task[u]
  BY <1>2 DEF NoTask, MarketInv, MarketTypes
<1>5. \A r \in Rows(i, ds) : Sound(r) /\ r.inst \notin Foreign
  BY <1>3, HomeRows
<1>6. ReachBack(Rows(i, ds))
  BY <1>5 DEF ReachBack
<1>7. /\ UNCHANGED <<time, table, straddled>> /\ known \subseteq known' /\ known' \subseteq Instruments
      /\ known' \intersect Foreign = known \intersect Foreign
  BY <1>2, <1>3 DEF BeginView, MarketInv, MarketTypes
<1> QED BY <1>4, <1>5, <1>6, <1>7, BeginKeeps

\* Storing what a task fetched.
LEMMA StoreKeeps ==
    ASSUME MarketInv, NEW t \in Batch \union Viewer, table' = Upserted(task[t].rows),
           task' = [task EXCEPT ![t] = NoTask], UNCHANGED <<time, known, straddled>>
    PROVE  MarketInv'
<1> DEFINE taken == task[t].rows
<1>1. ReachBack(taken) /\ \A r \in taken : Sound(r)
  BY DEF MarketInv, OnTheWay
<1>2. \A i \in Instruments, d \in Dates :
         table'[i][d] = IF table[i][d] = "none" /\ \E r \in Kept(taken) : r.inst = i /\ r.day = d
                        THEN IF \E r \in Kept(taken) : r.inst = i /\ r.day = d /\ r.final THEN "final" ELSE "early"
                        ELSE table[i][d]
  BY DEF Upserted
<1>3. MarketTypes'
  BY DEF MarketInv, MarketTypes, Upserted
<1>4. \A i \in Instruments, d \in Dates : table[i][d] # "none" => table'[i][d] = table[i][d]
  BY <1>2
<1>5. LastDate \in Nat /\ time \in Nat
  BY MarketAssumption DEF MarketAssumption, MarketInv, MarketTypes
<1>6. EarlyStraddled'
  <2> SUFFICES ASSUME NEW i \in Instruments, NEW d \in Dates, table'[i][d] = "early", table[i][d] # "early"
               PROVE  <<i, d>> \in straddled
    BY DEF MarketInv, EarlyStraddled
  <2>1. PICK r \in Kept(taken) : r.inst = i /\ r.day = d
    BY <1>2
  <2>2. ~r.final /\ r \in taken /\ Over(i, d)
    BY <1>2, <2>1 DEF Kept
  <2>3. Ended(i, d)
    BY <1>5, <2>2, OverIsEnded DEF Dates
  <2> QED BY <1>1, <2>1, <2>2, <2>3 DEF Sound
<1>7. NoHole'
  <2> SUFFICES ASSUME NEW i \in Foreign \intersect known
               PROVE  /\ table'[i][0] # "none"
                      /\ \A e \in Dates : table'[i][e] # "none" => \A d \in (1..e) \ Closed :
                            table'[i][d] # "none" \/ <<i, d>> \in Refused
    BY DEF NoHole
  <2>1. i \in Instruments /\ 0 \in Dates
    BY <1>5 DEF Instruments, Dates
  <2>2. table'[i][0] # "none"
    BY <1>4, <2>1 DEF MarketInv, NoHole
  <2>3. ASSUME NEW e \in Dates, table'[i][e] # "none", NEW d \in (1..e) \ Closed
        PROVE  table'[i][d] # "none" \/ <<i, d>> \in Refused
    <3>1. d \in Dates /\ d <= e /\ d \in Nat /\ e \in Nat
      BY <1>5 DEF Dates
    <3>2. CASE table[i][e] # "none"
      BY <1>4, <2>1, <3>1, <3>2 DEF MarketInv, NoHole
    <3>3. CASE table[i][e] = "none"
      <4>1. PICK r \in Kept(taken) : r.inst = i /\ r.day = e
        BY <1>2, <2>1, <2>3, <3>3
      <4>2. Backed(i, d, taken) /\ Over(i, e)
        BY <1>1, <4>1 DEF Kept, ReachBack
      <4>3. Over(i, d)
        BY <1>5, <3>1, <4>2 DEF Over, Now
      <4>4. ASSUME NEW q \in taken, q.inst = i, q.day = d, <<i, d>> \notin Refused PROVE table'[i][d] # "none"
        <5>1. q \in Kept(taken)
          BY <4>3, <4>4 DEF Kept, Valid
        <5> QED BY <1>2, <2>1, <3>1, <4>4, <5>1
      <4> QED BY <1>4, <2>1, <3>1, <4>2, <4>4 DEF Backed
    <3> QED BY <3>2, <3>3
  <2> QED BY <2>2, <2>3
<1>8. OnTheWay'
  <2>1. ASSUME NEW u \in Batch \union Viewer
        PROVE  ReachBack(task[u].rows)' /\ \A r \in task'[u].rows : Sound(r)'
    <3>1. PICK old : old = task'[u].rows
      OBVIOUS
    <3>2. ReachBack(old) /\ \A r \in old : Sound(r)
      BY <3>1 DEF MarketInv, OnTheWay, MarketTypes, NoTask, ReachBack
    <3>3. ReachBack(old)' /\ \A r \in old : Sound(r)'
      BY <1>4, <3>2, RowsStay
    <3> QED BY <3>1, <3>3 DEF ReachBack, Backed
  <2> QED BY <2>1 DEF OnTheWay
<1> QED BY <1>3, <1>6, <1>7, <1>8 DEF MarketInv

\* Every step keeps the invariant of the bars.
LEMMA MarketStep == MarketInv /\ [MarketNext]_marketVars => MarketInv'
<1> SUFFICES ASSUME MarketInv, [MarketNext]_marketVars PROVE MarketInv'
  OBVIOUS
<1>1. ASSUME UNCHANGED <<time, known, table, task, straddled>> PROVE MarketInv'
  BY <1>1 DEF MarketInv, MarketTypes, OnTheWay, EarlyStraddled, NoHole, ReachBack, Backed, Sound, Ended
<1>2. CASE UNCHANGED marketVars \/ RefreshCalendar
  BY <1>1, <1>2 DEF marketVars, RefreshCalendar
<1>3. ASSUME NEW g \in Signal, ComputeSignal(g) \/ ReadVersions(g) \/ Record(g) PROVE MarketInv'
  BY <1>1, <1>3 DEF ComputeSignal, ReadVersions, Record
<1>4. ASSUME NEW t \in Batch, BeginIngest(t) \/ CommitIngest(t) \/ IngestDies(t) PROVE MarketInv'
  BY <1>4, IngestBegins, IngestEnds, StoreKeeps DEF CommitIngest
<1>5. ASSUME NEW v \in Viewer, BeginView(v) \/ CommitView(v) PROVE MarketInv'
  BY <1>5, ViewBegins, StoreKeeps DEF CommitView
<1> QED BY <1>2, <1>3, <1>4, <1>5, TimeKeeps DEF MarketNext

\* It holds at the start.
LEMMA MarketStarts == MarketInit => MarketInv
<1> SUFFICES ASSUME NEW cast \in Casts, MarketStart(cast) PROVE MarketInv
  BY DEF MarketInit
<1>1. /\ time = 4 /\ known = cast.known /\ known \subseteq Instruments
      /\ table = [i \in Instruments |-> [d \in Dates |-> IF d = 0 /\ i \in known THEN "final" ELSE "none"]]
      /\ task = [t \in Batch \union Viewer |-> NoTask]
  BY MarketAssumption DEF MarketStart, MarketAssumption, Instruments
<1>2. LastDate \in Nat /\ 0 \in Dates
  BY MarketAssumption DEF MarketAssumption, Dates
<1>3. MarketTypes
  BY <1>1 DEF MarketTypes
<1>4. OnTheWay
  BY <1>1 DEF OnTheWay, NoTask, ReachBack
<1>5. \A i \in Instruments, d \in Dates : table[i][d] = IF d = 0 /\ i \in known THEN "final" ELSE "none"
  BY <1>1
<1>6. EarlyStraddled
  BY <1>5 DEF EarlyStraddled
<1>7. NoHole
  BY <1>2, <1>5 DEF NoHole, Instruments
<1> QED BY <1>3, <1>4, <1>6, <1>7 DEF MarketInv

\* For any instruments, calendar and refused rows, any number of batches and views, and
\* pages of any size: nothing stored is of an unfinished session but what was on its way at
\* the close, and the US bars have no hole.
THEOREM BarsAreFinal == MarketSpec => []BarsFinal
<1>1. MarketInv => BarsFinal
  <2> SUFFICES ASSUME MarketInv,
                      NEW i \in Foreign \intersect known, NEW d \in (1..Max(Present(i))) \ Closed
               PROVE  d \in Present(i) \/ <<i, d>> \in Refused
    BY DEF MarketInv, EarlyStraddled, BarsFinal
  <2>1. Present(i) \subseteq Dates /\ 0 \in Present(i) /\ LastDate \in Nat
    BY MarketAssumption DEF Present, MarketInv, NoHole, Dates, MarketAssumption
  <2>2. Max(Present(i)) \in Present(i) /\ Max(Present(i)) \in Dates
    BY <2>1, LastDay
  <2>3. d \in Dates /\ table[i][Max(Present(i))] # "none"
    BY <2>1, <2>2 DEF Dates, Present
  <2> QED BY <2>2, <2>3 DEF MarketInv, NoHole, Present
<1> QED BY <1>1, MarketStarts, MarketStep, PTL DEF MarketSpec

-----------------------------------------------------------------------------
(* Versions of a signal.  Those of a date are numbered from one on and the   *)
(* last is current.  A batch that is about to record has seen the first of   *)
(* them; the unique index lets it write only if it has seen them all, and    *)
(* then the one it adds is the next.                                         *)

Status == {"OK", "FAILED", "MISSING"}
SnapSet == [date : Dates, version : Nat, current : BOOLEAN, status : Status, used : SUBSET Dates]

Numbered(V, k) == /\ k \in Nat
                  /\ \A s \in V : s \in SnapSet /\ s.version \in 1..k
                  /\ \A n \in 1..k : \E s \in V : s.version = n
                  /\ \A s, t \in V : s.version = t.version => s = t
Chain(V, k) == Numbered(V, k) /\ \A s \in V : s.current = (s.version = k)

Honest(x) == x.status = "OK" => x.used # {} /\ Max(x.used) = x.date
\* What a signal batch holds.
Judged(j) == /\ j \in [at : {"judged", "read"}, target : Dates, date : Dates, status : Status,
                      used : SUBSET Dates, prev : SUBSET SnapSet]
             /\ j.date <= j.target /\ Honest(j)
SawFirst(j) == \E k \in Nat : /\ Numbered(j.prev, k)
                              /\ \A n \in 1..k : \E s \in Versions(j.date) : s.version = n

DayZero == \A i \in Pair \intersect known : table[i][0] # "none"
Dated == \A s \in snaps : s \in SnapSet /\ Honest(s)
Chains == \A d \in Dates : \E k \in Nat : Chain(Versions(d), k)
Batches == /\ DOMAIN judged = Signal
           /\ \A g \in Signal : judged[g] # NoSignal =>
                 Judged(judged[g]) /\ (judged[g].at = "read" => SawFirst(judged[g]))
SignalInv == MarketInv /\ DayZero /\ Dated /\ Chains /\ Batches

\* Versions numbered from 1 without a gap or a double: there are as many as the highest number.
LEMMA NumberedCounts ==
    ASSUME NEW V, NEW k, Numbered(V, k)
    PROVE  Cardinality(V) = k
<1> DEFINE f == [n \in 1..k |-> CHOOSE s \in V : s.version = n]
<1>1. \A n \in 1..k : f[n] \in V /\ f[n].version = n
  BY DEF Numbered
<1> HIDE DEF f
<1>2. f \in [1..k -> V]
  BY <1>1 DEF f
<1>3. \A m, n \in 1..k : f[m] = f[n] => m = n
  BY <1>1
<1>4. \A s \in V : \E n \in 1..k : f[n] = s
  BY <1>1 DEF Numbered
<1>5. f \in Bijection(1..k, V)
  <2>1. f \in Injection(1..k, V)
    BY <1>2, <1>3, Zenon DEF Injection, IsInjective
  <2>2. f \in Surjection(1..k, V)
    BY <1>2, <1>4, Zenon DEF Surjection
  <2> QED BY <2>1, <2>2 DEF Bijection
<1>6. ExistsBijection(1..k, V) /\ k \in Nat
  BY <1>5 DEF ExistsBijection, Numbered
<1> QED BY <1>6, FS_CountingElements

\* The days both of the pair have begin with the first day, so a judgement has bars.
LEMMA JudgementHolds ==
    ASSUME MarketInv, DayZero, NEW goal \in Dates, NEW j \in Judgements(goal)
    PROVE  Judged(j) /\ j.at = "judged"
<1>1. LastDate \in Nat /\ 0 \in Dates /\ goal \in Nat
  BY MarketAssumption DEF MarketAssumption, Dates
<1>2. CASE j.status = "MISSING"
  BY <1>1, <1>2 DEF Judgements, Judged, Honest, Status
<1>3. CASE j.status # "MISSING"
  <2>1. Aligned /\ j \in {[at |-> "judged", target |-> goal, date |-> Max(Cut(Common, goal)), status |-> st,
                           used |-> Cut(Common, goal), prev |-> {}] : st \in {"OK", "FAILED"}}
    BY <1>3 DEF Judgements
  <2>2. PICK st \in {"OK", "FAILED"} :
           j = [at |-> "judged", target |-> goal, date |-> Max(Cut(Common, goal)), status |-> st,
                used |-> Cut(Common, goal), prev |-> {}]
    BY <2>1
  <2>3. 0 \in Common
    BY <1>1, <2>1 DEF Common, Aligned, DayZero
  <2>4. 0 \in Cut(Common, goal) /\ Cut(Common, goal) \subseteq Dates
    BY <1>1, <2>3 DEF Cut, Common
  <2>5. Max(Cut(Common, goal)) \in Cut(Common, goal)
    BY <2>4, LastDay
  <2>6. Max(Cut(Common, goal)) \in Dates /\ Max(Cut(Common, goal)) <= goal
    BY <2>4, <2>5 DEF Cut
  <2> QED BY <2>2, <2>4, <2>6 DEF Judged, Honest, Status
<1> QED BY <1>2, <1>3

\* What neither records nor judges.
LEMMA OthersKeepSignals ==
    ASSUME SignalInv, [MarketNext]_marketVars, UNCHANGED <<snaps, judged>>
    PROVE  SignalInv'
<1>1. MarketInv'
  BY MarketStep DEF SignalInv
<1>2. Dated' /\ Chains' /\ Batches'
  BY DEF SignalInv, Dated, Chains, Batches, SawFirst, Versions
<1>3. \A i \in Pair \intersect known' : i \in known
  <2>1. ASSUME NEW v \in Viewer, BeginView(v) PROVE \A i \in Pair \intersect known' : i \in known
    BY <2>1, MarketAssumption DEF BeginView, MarketAssumption
  <2>2. known' = known \/ \E v \in Viewer : BeginView(v)
    BY DEF MarketNext, marketVars, TimePasses, RefreshCalendar, BeginIngest, CommitIngest, IngestDies,
           CommitView, ComputeSignal, ReadVersions, Record
  <2> QED BY <2>1, <2>2
<1>4. \A i \in Instruments : table[i][0] # "none" => table'[i][0] # "none"
  <2>1. ASSUME NEW taken, table' = Upserted(taken) PROVE \A i \in Instruments : table[i][0] # "none" => table'[i][0] # "none"
    BY <2>1, MarketAssumption DEF Upserted, Dates, MarketAssumption
  <2>2. table' = table \/ \E t \in Batch \union Viewer : table' = Upserted(task[t].rows)
    BY DEF MarketNext, marketVars, TimePasses, RefreshCalendar, BeginIngest, CommitIngest, IngestDies,
           BeginView, CommitView, ComputeSignal, ReadVersions, Record
  <2> QED BY <2>1, <2>2
<1>5. DayZero'
  BY <1>3, <1>4 DEF DayZero, SignalInv, Instruments
<1> QED BY <1>1, <1>2, <1>5 DEF SignalInv

\* Batches other than the one that moves hold what they held.
LEMMA OthersHold ==
    ASSUME Batches, NEW g \in Signal, NEW j, DOMAIN judged' = Signal,
           \A h \in Signal : judged'[h] = IF h = g THEN j ELSE judged[h],
           j # NoSignal => Judged(j) /\ (j.at = "read" => SawFirst(j)),
           \A x : SawFirst(x) => SawFirst(x)'
    PROVE  Batches'
<1>1. ASSUME NEW h \in Signal, judged'[h] # NoSignal
      PROVE  Judged(judged'[h]) /\ (judged'[h].at = "read" => SawFirst(judged[h])')
  <2>1. PICK x : x = judged'[h]
    OBVIOUS
  <2>2. Judged(x) /\ (x.at = "read" => SawFirst(x))
    BY <1>1, <2>1 DEF Batches
  <2>3. x.at = "read" => SawFirst(x)'
    BY <2>2
  <2>4. x.at = "read" => SawFirst(judged[h])'
    BY <2>1, <2>3 DEF SawFirst, Versions
  <2> QED BY <2>1, <2>2, <2>4
<1> QED BY <1>1 DEF Batches

\* A batch takes something in hand, and nothing else changes.
LEMMA HoldingKeeps ==
    ASSUME SignalInv, NEW g \in Signal, ComputeSignal(g) \/ ReadVersions(g),
           NEW j, judged' = [judged EXCEPT ![g] = j], Judged(j), j.at = "read" => SawFirst(j)
    PROVE  SignalInv'
<1>1. UNCHANGED <<known, table, snaps>>
  BY DEF ComputeSignal, ReadVersions
<1>2. MarketInv'
  <2>1. UNCHANGED <<time, known, table, task, straddled>>
    BY DEF ComputeSignal, ReadVersions
  <2> QED BY <2>1 DEF SignalInv, MarketInv, MarketTypes, OnTheWay, EarlyStraddled, NoHole, ReachBack, Backed, Sound, Ended
<1>3. DayZero' /\ Dated' /\ Chains'
  BY <1>1 DEF SignalInv, DayZero, Dated, Chains, Versions
<1>4. \A x : SawFirst(x) => SawFirst(x)'
  BY <1>1 DEF SawFirst, Versions
<1>5. DOMAIN judged' = Signal /\ \A h \in Signal : judged'[h] = IF h = g THEN j ELSE judged[h]
  BY DEF SignalInv, Batches
<1>6. Batches'
  BY <1>4, <1>5, OthersHold DEF SignalInv
<1> QED BY <1>2, <1>3, <1>6 DEF SignalInv

\* A computation leaves what is recorded.
LEMMA ComputeKeeps ==
    ASSUME SignalInv, NEW g \in Signal, ComputeSignal(g)
    PROVE  SignalInv'
<1>1. PICK goal \in Dates : \E j \in Judgements(goal) : judged' = [judged EXCEPT ![g] = j]
  BY DEF ComputeSignal
<1>2. PICK j \in Judgements(goal) : judged' = [judged EXCEPT ![g] = j]
  BY <1>1
<1>3. Judged(j) /\ j.at = "judged"
  BY <1>2, JudgementHolds DEF SignalInv
<1> QED BY <1>2, <1>3, HoldingKeeps

\* Reading the versions of a day leaves what is recorded.
LEMMA ReadKeeps ==
    ASSUME SignalInv, NEW g \in Signal, ReadVersions(g)
    PROVE  SignalInv'
<1> DEFINE was == judged[g]
           j == [was EXCEPT !.at = "read", !.prev = Versions(was.date)]
<1>1. judged[g].at = "judged" /\ judged' = [judged EXCEPT ![g].at = "read", ![g].prev = Versions(judged[g].date)]
  BY DEF ReadVersions
<1>2. judged' = [judged EXCEPT ![g] = j]
  BY <1>1 DEF SignalInv, Batches
<1>3. was # NoSignal
  BY <1>1 DEF NoSignal
<1>4. Judged(was)
  BY <1>3 DEF SignalInv, Batches
<1>5. PICK k \in Nat : Chain(Versions(was.date), k)
  BY <1>4 DEF SignalInv, Chains, Judged
<1>6. Versions(was.date) \subseteq SnapSet
  BY DEF SignalInv, Dated, Versions
<1>7. /\ j \in [at : {"judged", "read"}, target : Dates, date : Dates, status : Status,
               used : SUBSET Dates, prev : SUBSET SnapSet]
      /\ j.date = was.date /\ j.target = was.target /\ j.status = was.status /\ j.used = was.used
      /\ j.prev = Versions(was.date)
  BY <1>4, <1>6 DEF Judged
<1>8. Judged(j)
  BY <1>4, <1>7 DEF Judged, Honest
<1>9. SawFirst(j)
  BY <1>5, <1>7 DEF SawFirst, Chain, Numbered
<1> QED BY <1>2, <1>8, <1>9, HoldingKeeps

-----------------------------------------------------------------------------
(* Recording. *)

\* What the index lets through has seen every version.
LEMMA SawAll ==
    ASSUME SignalInv, NEW g \in Signal, judged[g].at = "read", ~Two(judged[g])
    PROVE  /\ Judged(judged[g])
           /\ \E k \in Nat : /\ Chain(Versions(judged[g].date), k) /\ Numbered(judged[g].prev, k)
                            /\ \A s \in Versions(judged[g].date) : \E q \in judged[g].prev : q.version = s.version
<1> DEFINE j == judged[g]
<1>1. Judged(j) /\ SawFirst(j)
  BY DEF SignalInv, Batches, NoSignal
<1>2. PICK seen \in Nat : /\ Numbered(j.prev, seen)
                         /\ \A n \in 1..seen : \E s \in Versions(j.date) : s.version = n
  BY <1>1 DEF SawFirst
<1>3. PICK k \in Nat : Chain(Versions(j.date), k)
  BY <1>1 DEF SignalInv, Chains, Judged
<1>4. \A s \in Versions(j.date) : s.current => \E q \in j.prev : q.version = s.version
  BY DEF Two
<1>5. seen <= k
  BY <1>2, <1>3 DEF Chain, Numbered
<1>6. k <= seen
  <2>1. CASE k = 0
    BY <1>2, <2>1
  <2>2. CASE k # 0
    <3>1. PICK s \in Versions(j.date) : s.version = k
      BY <1>3, <2>2 DEF Chain, Numbered
    <3>2. s.current
      BY <1>3, <3>1 DEF Chain
    <3>3. PICK q \in j.prev : q.version = k
      BY <1>4, <3>1, <3>2
    <3> QED BY <1>2, <3>3 DEF Numbered
  <2> QED BY <2>1, <2>2
<1>7. seen = k
  BY <1>2, <1>3, <1>5, <1>6
<1>8. \A s \in Versions(j.date) : \E q \in j.prev : q.version = s.version
  BY <1>2, <1>3, <1>7 DEF Chain, Numbered
<1> QED BY <1>1, <1>2, <1>3, <1>7, <1>8

\* A chain with its next version is a chain.
LEMMA ChainGrows ==
    ASSUME NEW V, NEW k \in Nat, Chain(V, k), NEW new \in SnapSet, new.version = k + 1, new.current = TRUE
    PROVE  Chain({[s EXCEPT !.current = FALSE] : s \in V} \cup {new}, k + 1)
<1> DEFINE Old(s) == [s EXCEPT !.current = FALSE]
           W == {Old(s) : s \in V} \cup {new}
<1>1. \A s \in V : /\ s \in SnapSet /\ Old(s) \in SnapSet /\ Old(s).version = s.version
                  /\ Old(s).current = FALSE /\ s.version \in 1..k
  BY DEF Chain, Numbered, SnapSet
<1> HIDE DEF Old
<1>2. \A w \in W : w = new \/ \E s \in V : w = Old(s)
  OBVIOUS
<1>3. \A w \in W : w \in SnapSet /\ w.version \in 1..(k + 1)
  BY <1>1, <1>2
<1>4. \A n \in 1..(k + 1) : \E w \in W : w.version = n
  <2>1. ASSUME NEW n \in 1..k PROVE \E w \in W : w.version = n
    <3>1. PICK s \in V : s.version = n
      BY DEF Chain, Numbered
    <3>2. Old(s) \in W
      OBVIOUS
    <3> QED BY <1>1, <3>1, <3>2
  <2>2. \E w \in W : w.version = k + 1
    OBVIOUS
  <2> QED BY <2>1, <2>2
<1>5. \A v, w \in W : v.version = w.version => v = w
  <2> SUFFICES ASSUME NEW v \in W, NEW w \in W, v.version = w.version PROVE v = w
    OBVIOUS
  <2>1. CASE v = new \/ w = new
    BY <1>1, <1>2, <2>1
  <2>2. CASE v # new /\ w # new
    <3>1. PICK s \in V, t \in V : v = Old(s) /\ w = Old(t)
      BY <1>2, <2>2
    <3>2. s.version = t.version
      BY <1>1, <3>1
    <3>3. s = t
      BY <3>2 DEF Chain, Numbered
    <3> QED BY <3>1, <3>3
  <2> QED BY <2>1, <2>2
<1>6. \A w \in W : w.current = (w.version = k + 1)
  <2> SUFFICES ASSUME NEW w \in W PROVE w.current = (w.version = k + 1)
    OBVIOUS
  <2>1. CASE w = new
    BY <2>1
  <2>2. CASE w # new
    <3>1. PICK s \in V : w = Old(s)
      BY <1>2, <2>2
    <3>2. w.current = FALSE /\ w.version \in 1..k
      BY <1>1, <3>1
    <3>3. w.version # k + 1
      BY <3>2
    <3> QED BY <3>2, <3>3
  <2> QED BY <2>1, <2>2
<1>7. Numbered(W, k + 1)
  BY <1>3, <1>4, <1>5 DEF Numbered
<1> HIDE DEF W
<1>8. Chain(W, k + 1)
  BY <1>6, <1>7 DEF Chain
<1> QED BY <1>8 DEF W, Old

\* A recorded version is numbered next and alone current.
LEMMA RecordKeeps ==
    ASSUME SignalInv, NEW g \in Signal, Record(g)
    PROVE  /\ SignalInv'
           /\ \A s \in snaps' \ snaps : s.date <= judged[g].target
<1> DEFINE j == judged[g]
           V == Versions(j.date)
           Old(s) == [s EXCEPT !.current = FALSE]
           W == {Old(s) : s \in V} \cup {Snapshot(j)}
<1>1. /\ j.at = "read" /\ judged' = [judged EXCEPT ![g] = NoSignal]
      /\ UNCHANGED <<time, known, table, task, straddled>>
  BY DEF Record
<1>2. MarketInv' /\ DayZero'
  BY <1>1 DEF SignalInv, MarketInv, MarketTypes, OnTheWay, EarlyStraddled, NoHole, ReachBack, Backed, Sound, Ended, DayZero
<1>3. DOMAIN judged' = Signal /\ \A h \in Signal : judged'[h] = IF h = g THEN NoSignal ELSE judged[h]
  BY <1>1 DEF SignalInv, Batches
<1>4. Judged(j)
  BY <1>1 DEF SignalInv, Batches, NoSignal
<1>5. CASE Two(j)
  <2>1. snaps' = snaps
    BY <1>1, <1>5 DEF Record
  <2>2. Dated' /\ Chains'
    BY <2>1 DEF SignalInv, Dated, Chains, Versions
  <2>3. Batches'
    <3>1. \A x : SawFirst(x) => SawFirst(x)'
      BY <2>1 DEF SawFirst, Versions
    <3> QED BY <1>3, <3>1, OthersHold DEF SignalInv
  <2> QED BY <1>2, <2>1, <2>2, <2>3 DEF SignalInv
<1>6. CASE ~Two(j)
  <2>1. PICK k \in Nat : /\ Chain(V, k) /\ Numbered(j.prev, k)
                        /\ \A s \in V : \E q \in j.prev : q.version = s.version
    BY <1>1, <1>6, SawAll
  <2>2. Cardinality(j.prev) = k
    BY <2>1, NumberedCounts
  <2>3. /\ Snapshot(j) \in SnapSet /\ Snapshot(j).version = k + 1 /\ Snapshot(j).current = TRUE
        /\ Snapshot(j).date = j.date /\ Honest(Snapshot(j))
    BY <1>4, <2>1, <2>2 DEF Snapshot, SnapSet, Judged, Honest
  <2>4. snaps' = (snaps \ V) \cup W
    <3>1. {s \in V : \E q \in j.prev : q.version = s.version} = V
      BY <2>1
    <3> QED BY <1>1, <1>6, <3>1 DEF Record
  <2>5. \A s \in V : Old(s) \in SnapSet /\ Old(s).date = j.date /\ Old(s).version = s.version /\ Honest(Old(s))
    BY DEF SignalInv, Dated, Versions, SnapSet, Honest
  <2> HIDE DEF Old
  <2>6. \A w \in W : w \in SnapSet /\ w.date = j.date /\ Honest(w)
    BY <2>3, <2>5
  <2>7. Chain(W, k + 1)
    BY <2>1, <2>3, ChainGrows DEF Old
  <2>8. \A n \in 1..k : \E w \in W : w.version = n
    BY <2>7 DEF Chain, Numbered
  <2>9. PICK d : d = j.date
    OBVIOUS
  <2>10. PICK set : set = W
    OBVIOUS
  <2>11. PICK old : old = V
    OBVIOUS
  <2> HIDE DEF W, V
  <2>12. Versions(d)' = set /\ old = Versions(d)
    <3>1. \A s \in snaps' : s.date = d => s \in set
      BY <2>4, <2>9, <2>10 DEF V, Versions
    <3>2. \A s \in set : s \in snaps' /\ s.date = d
      BY <2>4, <2>6, <2>9, <2>10
    <3> QED BY <2>9, <2>11, <3>1, <3>2 DEF Versions, V
  <2>13. \A e : e # d => Versions(e)' = Versions(e)
    <3>1. \A e, s : s \in snaps' /\ s.date = e /\ e # d => s \in snaps
      BY <2>4, <2>6, <2>9
    <3>2. \A e, s : s \in snaps /\ s.date = e /\ e # d => s \in snaps'
      BY <2>4, <2>9 DEF V, Versions
    <3> QED BY <3>1, <3>2 DEF Versions
  <2>14. Dated'
    BY <2>4, <2>6 DEF SignalInv, Dated
  <2>15. Chains'
    <3> SUFFICES ASSUME NEW e \in Dates PROVE \E m \in Nat : Chain(Versions(e)', m)
      BY DEF Chains
    <3>1. CASE e = d
      BY <2>1, <2>7, <2>10, <2>12, <3>1
    <3>2. CASE e # d
      BY <2>13, <3>2 DEF SignalInv, Chains
    <3> QED BY <3>1, <3>2
  <2>16. \A x : SawFirst(x) => SawFirst(x)'
    <3> SUFFICES ASSUME NEW x, NEW m \in Nat, Numbered(x.prev, m),
                        \A n \in 1..m : \E s \in Versions(x.date) : s.version = n
                 PROVE  \A n \in 1..m : \E s \in Versions(x.date)' : s.version = n
      BY DEF SawFirst
    <3>1. CASE x.date # d
      BY <2>13, <3>1
    <3>2. CASE x.date = d
      <4>1. \A n \in 1..m : n \in 1..k
        BY <2>1, <2>11, <2>12, <3>2 DEF Chain, Numbered
      <4> QED BY <2>8, <2>10, <2>12, <3>2, <4>1
    <3> QED BY <3>1, <3>2
  <2>17. Batches'
    BY <1>3, <2>16, OthersHold DEF SignalInv
  <2>18. \A s \in snaps' \ snaps : s.date <= j.target
    BY <1>4, <2>4, <2>6 DEF Judged
  <2> QED BY <1>2, <2>14, <2>15, <2>17, <2>18 DEF SignalInv
<1> QED BY <1>5, <1>6

\* Every step keeps the invariant of the signals.
LEMMA SignalStep == SignalInv /\ [MarketNext]_marketVars => SignalInv'
<1> SUFFICES ASSUME SignalInv, [MarketNext]_marketVars PROVE SignalInv'
  OBVIOUS
<1>1. CASE UNCHANGED <<snaps, judged>>
  BY <1>1, OthersKeepSignals
<1>2. CASE \E g \in Signal : ComputeSignal(g) \/ ReadVersions(g) \/ Record(g)
  BY <1>2, ComputeKeeps, ReadKeeps, RecordKeeps
<1>3. CASE /\ ~(\E g \in Signal : ComputeSignal(g) \/ ReadVersions(g) \/ Record(g))
           /\ ~UNCHANGED <<snaps, judged>>
  BY <1>3 DEF MarketNext, marketVars, TimePasses, RefreshCalendar, BeginIngest, CommitIngest, IngestDies,
              BeginView, CommitView
<1> QED BY <1>1, <1>2, <1>3

\* For any pair, calendar and number of batches: of every day with a signal the last version
\* is the current one and no other, whatever batches of the same or other days read, judge
\* and record side by side (the unique index of signal_snapshots and _record, signals.py);
\* an OK signal used the bars up to its day; and no batch touches a day after its own.
THEOREM SignalsAreTrue == MarketSpec => SignalTrue
<1> DEFINE Current == \A s \in snaps : \E c \in snaps :
                         /\ c.date = s.date /\ c.current /\ c.version >= s.version
                         /\ \A t \in snaps : t.date = s.date /\ t # c => ~t.current /\ t.version # c.version
           Used == \A s \in snaps : s.status = "OK" => s.used # {} /\ Max(s.used) = s.date
           Later == \A g \in Signal : judged[g].at = "read" /\ judged'[g] = NoSignal =>
                       \A s \in snaps' \ snaps : s.date <= judged[g].target
<1>1. MarketInit => SignalInv
  <2> SUFFICES ASSUME NEW cast \in Casts, MarketStart(cast) PROVE SignalInv
    BY DEF MarketInit
  <2>1. /\ known = cast.known /\ judged = [g \in Signal |-> NoSignal] /\ snaps = {}
        /\ table = [i \in Instruments |-> [d \in Dates |-> IF d = 0 /\ i \in known THEN "final" ELSE "none"]]
    BY DEF MarketStart
  <2>2. DayZero
    BY <2>1, MarketAssumption DEF DayZero, Instruments, Dates, MarketAssumption
  <2>3. \A d \in Dates : Chain(Versions(d), 0)
    BY <2>1 DEF Chain, Numbered, Versions
  <2>4. Dated /\ Chains /\ Batches
    BY <2>1, <2>3 DEF Dated, Chains, Batches
  <2> QED BY <2>2, <2>4, MarketStarts DEF MarketInit, SignalInv
<1>2. SignalInv => Current /\ Used
  <2> SUFFICES ASSUME SignalInv PROVE Current /\ Used
    OBVIOUS
  <2>1. Used
    BY DEF SignalInv, Dated, Honest
  <2>2. ASSUME NEW s \in snaps
        PROVE  \E c \in snaps :
                  /\ c.date = s.date /\ c.current /\ c.version >= s.version
                  /\ \A t \in snaps : t.date = s.date /\ t # c => ~t.current /\ t.version # c.version
    <3>1. s.date \in Dates /\ s \in Versions(s.date)
      BY DEF SignalInv, Dated, SnapSet, Versions
    <3>2. PICK k \in Nat : Chain(Versions(s.date), k)
      BY <3>1 DEF SignalInv, Chains
    <3>3. s.version \in 1..k
      BY <3>1, <3>2 DEF Chain, Numbered
    <3>4. PICK c \in Versions(s.date) : c.version = k
      BY <3>2, <3>3 DEF Chain, Numbered
    <3>5. c \in snaps /\ c.date = s.date /\ c.version >= s.version
      BY <3>3, <3>4 DEF Versions
    <3>6. c.current
      BY <3>2, <3>4, Zenon DEF Chain
    <3>7. ASSUME NEW t \in snaps, t.date = s.date, t # c PROVE ~t.current /\ t.version # c.version
      <4>1. t \in Versions(s.date)
        BY <3>7 DEF Versions
      <4>2. t.version # c.version
        BY <3>2, <3>4, <3>7, <4>1 DEF Chain, Numbered
      <4> QED BY <3>2, <3>4, <4>1, <4>2 DEF Chain
    <3> QED BY <3>5, <3>6, <3>7
  <2> QED BY <2>1, <2>2
<1>3. SignalInv /\ [MarketNext]_marketVars => [Later]_marketVars
  <2> SUFFICES ASSUME SignalInv, MarketNext, NEW g \in Signal, judged[g].at = "read", judged'[g] = NoSignal
               PROVE  \A s \in snaps' \ snaps : s.date <= judged[g].target
    OBVIOUS
  <2>1. judged[g] # judged'[g]
    BY DEF NoSignal
  <2>2. ASSUME NEW h \in Signal, ComputeSignal(h) \/ ReadVersions(h) PROVE snaps' = snaps
    BY <2>2 DEF ComputeSignal, ReadVersions
  <2>3. ASSUME NEW h \in Signal, Record(h), h # g PROVE FALSE
    BY <2>1, <2>3 DEF Record, SignalInv, Batches
  <2>4. (\E h \in Signal : ComputeSignal(h) \/ ReadVersions(h) \/ Record(h)) \/ snaps' = snaps
    BY DEF MarketNext, TimePasses, RefreshCalendar, BeginIngest, CommitIngest, IngestDies, BeginView, CommitView
  <2> QED BY <2>2, <2>3, <2>4, RecordKeeps
<1>4. [](Current /\ Used) /\ [][Later]_marketVars => SignalTrue
  <2>1. (Current /\ Used)' /\ [Later]_marketVars =>
           [/\ \A s \in snaps' : \E c \in snaps' :
                  /\ c.date = s.date /\ c.current /\ c.version >= s.version
                  /\ \A t \in snaps' : t.date = s.date /\ t # c => ~t.current /\ t.version # c.version
            /\ \A s \in snaps' : s.status = "OK" => s.used # {} /\ Max(s.used) = s.date
            /\ \A g \in Signal : judged[g].at = "read" /\ judged'[g] = NoSignal =>
                  \A s \in snaps' \ snaps : s.date <= judged[g].target]_marketVars
    OBVIOUS
  <2> HIDE DEF Current, Used, Later
  <2> QED BY <2>1, PTL DEF SignalTrue
<1> HIDE DEF Current, Used, Later
<1> QED BY <1>1, <1>2, <1>3, <1>4, SignalStep, PTL DEF MarketSpec

-----------------------------------------------------------------------------
(* Backtest jobs. *)

\* Every step of a delivery keeps the types.
LEMMA WorkType ==
    ASSUME TypeOK, NEW d \in Delivery, Work(d) \/ Break(d) \/ PublishError(d) \/ Crash(d)
    PROVE  TypeOK'
<1> USE JobAssumption DEF JobAssumption, TypeOK, vars, db, worker, browser, Places, Version, JobStatus, Final
<1>1. CASE Begin(d)
  BY <1>1 DEF Begin, Due
<1>2. CASE Load(d)
  BY <1>2 DEF Load
<1>3. CASE Progress(d)
  BY <1>3 DEF Progress
<1>4. CASE Computed(d)
  BY <1>4 DEF Computed
<1>5. CASE Store(d)
  BY <1>5 DEF Store, Settle
<1>6. CASE SettleFailed(d)
  BY <1>6 DEF SettleFailed, Settle
<1>7. CASE SettleCanceled(d)
  BY <1>7 DEF SettleCanceled, Settle
<1>8. CASE Vanished(d)
  BY <1>8 DEF Vanished
<1>9. CASE Announce(d)
  BY <1>9 DEF Announce, Publish, PublishSnap, PublishChannel
<1>10. CASE Announced(d)
  BY <1>10 DEF Announced, Publish, PublishSnap, PublishChannel
<1>11. CASE Break(d)
  BY <1>11 DEF Break
<1>12. CASE Crash(d)
  BY <1>12 DEF Crash
<1>13. CASE PublishError(d)
  BY <1>13 DEF PublishError
<1> QED BY <1>1, <1>2, <1>3, <1>4, <1>5, <1>6, <1>7, <1>8, <1>9, <1>10, <1>11, <1>12, <1>13
        DEF Work

\* Every step keeps the types: deliveries, users, browsers and the ingest.
LEMMA StepType == TypeOK /\ [Next]_vars => TypeOK'
<1> SUFFICES ASSUME TypeOK, [Next]_vars PROVE TypeOK'
  OBVIOUS
<1> USE JobAssumption DEF JobAssumption, TypeOK, vars, db, worker, browser, Version, JobStatus, Final
<1>1. CASE Enqueue
  BY <1>1 DEF Enqueue
<1>2. CASE Ingest
  BY <1>2 DEF Ingest
<1>3. CASE CancelRequest
  BY <1>3 DEF CancelRequest
<1>4. ASSUME NEW d \in Delivery, Work(d) \/ Break(d) \/ PublishError(d) \/ Crash(d) PROVE TypeOK'
  BY <1>4, WorkType
<1>5. ASSUME NEW u \in Deleter, DeleteRead(u) PROVE TypeOK'
  BY <1>5 DEF DeleteRead
<1>6. ASSUME NEW u \in Deleter, DeleteCommit(u) PROVE TypeOK'
  BY <1>6 DEF DeleteCommit
<1>7. ASSUME NEW w \in Watcher, Subscribe(w) PROVE TypeOK'
  BY <1>7 DEF Subscribe
<1>8. ASSUME NEW w \in Watcher, ReadSnap(w) PROVE TypeOK'
  BY <1>8 DEF ReadSnap
<1>9. CASE UNCHANGED vars
  BY <1>9
<1> QED BY <1>1, <1>2, <1>3, <1>4, <1>5, <1>6, <1>7, <1>8, <1>9 DEF Next

\* For any number of deliveries, overlapping or not, browsers and requests, the
\* job's row, its Redis keys and its processes keep their types.
THEOREM JobTypeCorrect == Spec => []TypeOK
<1>1. ASSUME Init PROVE TypeOK
  <2> USE <1>1, JobAssumption DEF JobAssumption, Init, Version, JobStatus
  <2>1. /\ row \in JobStatus \cup {"gone"} /\ snap \in JobStatus \cup {"none"}
        /\ sent \in BOOLEAN /\ cancelKey \in BOOLEAN
    OBVIOUS
  <2>5. MaxData \in Nat /\ MaxData >= 1 /\ fprint = 0 /\ result = 0 /\ data = 1
    OBVIOUS
  <2>6. fprint \in Version /\ result \in Version /\ data \in Version \ {0}
    BY <2>5
  <2>2. pc \in [Delivery -> Places] /\ word \in [Delivery -> JobStatus \cup {"none"}]
    BY DEF Places
  <2>3. loaded \in [Delivery -> Version] /\ left \in [Delivery -> 0..Steps]
    OBVIOUS
  <2>4. /\ watch \in [Watcher -> {"off", "subscribed", "listening"}]
        /\ heard \in [Watcher -> SUBSET (JobStatus \cup {"none"})]
        /\ del \in [Deleter -> JobStatus \cup {"none", "over"}]
    OBVIOUS
  <2> QED BY <2>1, <2>2, <2>3, <2>4, <2>6 DEF TypeOK
<1> QED BY <1>1, StepType, PTL DEF Spec

-----------------------------------------------------------------------------

\* A task only comes again after its worker died, and the announcement of a
\* result does not raise.
Calm == ~Overlap /\ "DONE" \notin PublishFails

\* While deliveries do not overlap, a step of one keeps the invariant.
LEMMA WorkInv ==
    ASSUME Calm, TypeOK, IInv, NEW d \in Delivery, Work(d) \/ Break(d) \/ PublishError(d) \/ Crash(d)
    PROVE  IInv'
<1> USE DEF Calm, TypeOK, IInv, Underway, ResultMatchesData, db, worker, Places, Version, JobStatus, Final
<1>1. CASE Begin(d)
  BY <1>1 DEF Begin, Due, Runnable
<1>2. CASE Load(d)
  BY <1>2 DEF Load
<1>3. CASE Progress(d)
  BY <1>3 DEF Progress
<1>4. CASE Computed(d)
  BY <1>4 DEF Computed
<1>5. CASE Store(d)
  BY <1>5 DEF Store, Settle
<1>6. CASE SettleFailed(d)
  BY <1>6 DEF SettleFailed, Settle
<1>7. CASE SettleCanceled(d)
  BY <1>7 DEF SettleCanceled, Settle
<1>8. CASE Vanished(d)
  BY <1>8 DEF Vanished
<1>9. CASE Announce(d)
  BY <1>9 DEF Announce
<1>10. CASE Announced(d)
  BY <1>10 DEF Announced
<1>11. CASE Break(d)
  BY <1>11 DEF Break
<1>12. CASE Crash(d)
  BY <1>12 DEF Crash
<1>13. CASE PublishError(d)
  BY <1>13 DEF PublishError
<1> QED BY <1>1, <1>2, <1>3, <1>4, <1>5, <1>6, <1>7, <1>8, <1>9, <1>10, <1>11, <1>12, <1>13
        DEF Work

\* Every step keeps the invariant; a delete takes row and result together.
LEMMA StepInv == Calm /\ TypeOK /\ IInv /\ [Next]_vars => IInv'
<1> SUFFICES ASSUME Calm, TypeOK, IInv, [Next]_vars PROVE IInv'
  OBVIOUS
<1> USE DEF IInv, Underway, ResultMatchesData, vars, db, worker
<1>1. CASE Enqueue
  BY <1>1 DEF Enqueue
<1>2. CASE Ingest
  BY <1>2 DEF Ingest
<1>3. CASE CancelRequest
  BY <1>3 DEF CancelRequest
<1>4. ASSUME NEW d \in Delivery, Work(d) \/ Break(d) \/ PublishError(d) \/ Crash(d) PROVE IInv'
  BY <1>4, WorkInv
<1>5. ASSUME NEW u \in Deleter, DeleteRead(u) PROVE IInv'
  BY <1>5 DEF DeleteRead
<1>6. ASSUME NEW u \in Deleter, DeleteCommit(u) PROVE IInv'
  BY <1>6 DEF DeleteCommit, TypeOK
<1>7. ASSUME NEW w \in Watcher, Subscribe(w) PROVE IInv'
  BY <1>7 DEF Subscribe
<1>8. ASSUME NEW w \in Watcher, ReadSnap(w) PROVE IInv'
  BY <1>8 DEF ReadSnap
<1>9. CASE UNCHANGED vars
  BY <1>9
<1> QED BY <1>1, <1>2, <1>3, <1>4, <1>5, <1>6, <1>7, <1>8, <1>9 DEF Next

\* The invariant holds for any number of crashes and redeliveries, as long as a
\* task only comes again after its worker died.
THEOREM JobInvHolds == ASSUME Calm PROVE Spec => []IInv
<1>1. Init => IInv
  BY DEF Init, IInv, Underway, ResultMatchesData
<1>2. Calm
  OBVIOUS
<1> QED BY <1>1, <1>2, StepInv, JobTypeCorrect, PTL DEF Spec

\* A finished job is handed out again only under the fingerprint of the bars
\* its result was computed from (create_backtest's reuse).
THEOREM ResultsMatch == ASSUME Calm PROVE Spec => []ResultMatchesData
<1>1. IInv => ResultMatchesData
  BY DEF IInv
<1> QED BY <1>1, JobInvHolds, PTL

\* No run of the engine that was cancelled or failed leaves a result behind.
THEOREM NothingPartial == ASSUME Calm PROVE Spec => []NoPartialResult
<1>1. IInv => NoPartialResult
  BY DEF IInv, NoPartialResult
<1> QED BY <1>1, JobInvHolds, PTL

\* No step of a redelivered task, a request or the ingest changes the status or
\* the result of a finished job, except a delete.
THEOREM DoneIsFinal == ASSUME Calm PROVE Spec => DoneStays
<1> DEFINE Stays == row = "DONE" => row' = "gone" \/ UNCHANGED <<row, result, fprint>>
<1>1. ASSUME TypeOK, IInv, [Next]_vars PROVE [Stays]_vars
  <2> USE DEF IInv, Underway, vars, db, worker
  <2>1. ASSUME NEW d \in Delivery, Work(d) \/ Break(d) \/ PublishError(d) \/ Crash(d) PROVE Stays
    <3>1. CASE Load(d)
      BY <1>1, <3>1 DEF Load
    <3>2. CASE Store(d) \/ SettleFailed(d) \/ SettleCanceled(d)
      BY <1>1, <3>2 DEF Store, SettleFailed, SettleCanceled, Settle
    <3>3. CASE Begin(d) \/ Progress(d) \/ Computed(d) \/ Vanished(d) \/ Announce(d)
               \/ Announced(d) \/ Break(d) \/ PublishError(d) \/ Crash(d)
      BY <3>3 DEF PublishError, Begin, Progress, Computed, Vanished, Announce, Announced, Break, Crash
    <3> QED BY <2>1, <3>1, <3>2, <3>3 DEF Work
  <2>2. ASSUME NEW u \in Deleter, DeleteRead(u) \/ DeleteCommit(u) PROVE Stays
    BY <2>2 DEF DeleteRead, DeleteCommit
  <2>3. ASSUME NEW w \in Watcher, Subscribe(w) \/ ReadSnap(w) PROVE Stays
    BY <2>3 DEF Subscribe, ReadSnap
  <2>4. CASE Enqueue \/ Ingest \/ CancelRequest
    BY <2>4 DEF Enqueue, Ingest, CancelRequest
  <2>5. CASE UNCHANGED vars
    BY <2>5
  <2> QED BY <1>1, <2>1, <2>2, <2>3, <2>4, <2>5 DEF Next
<1> QED BY <1>1, JobInvHolds, JobTypeCorrect, PTL DEF Spec, DoneStays
=============================================================================
