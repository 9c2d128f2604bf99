------------------------------- MODULE Journal -------------------------------
(***************************************************************************)
(* A journal of share trades beside the portfolios (mjournal.py): entries   *)
(* written by hand, imported from the executions of a linked account, or    *)
(* made from its balance.  Holdings are computed three times, first in      *)
(* first out for the overview, the same for the curve, and as a net sum for *)
(* the checks.                                                              *)
(*                                                                          *)
(* One instrument, which the broker calls Name and knows by a code; the     *)
(* user writes one of Forms: a name with or without the code.  Times of day *)
(* are left out, fees and taxes are rates of the amounts, prices follow the *)
(* date.                                                                    *)
(***************************************************************************)
EXTENDS Integers, Sequences, FiniteSets, FiniteSetsExt, Amounts

CONSTANTS
    Keepers,        \* requests of the user and the batch of 15:45
    Nightly,          \* those of Keepers that are the batch
    Forms,          \* [sym, code] the user writes
    Name,           \* the broker's name of the instrument
    Execs,          \* executions at the broker: [no, side, date, qty]
    Openings,       \* shares held before the first of them
    LastDay,        \* bound: days
    BatchDays,      \* days the batch asks for
    Habits,         \* bound: sets of what the user does in one behaviour
    MaxEntries      \* bound: entries of the journal

ASSUME JournalAssumption ==
    /\ Nightly \subseteq Keepers /\ Openings \subseteq Nat
    /\ {LastDay, BatchDays, MaxEntries} \subseteq Nat \ {0}
    /\ \A f \in Forms : f.code \in BOOLEAN
    /\ \A x \in Execs : x.side \in {"buy", "sell"} /\ x.date \in 1..LastDay /\ x.qty \in Nat \ {0}
                         /\ x.no \in Nat /\ \A y \in Execs : y.no = x.no => y = x

VARIABLES
    habit,          \* what the user does
    day,            \* today
    executed,       \* executions so far
    opening,        \* shares at the broker before them
    entries,        \* committed entries
    nextEntry,      \* next id of the table
    closed,         \* closed_at is set
    linked,         \* an account is linked
    shown,          \* suggestion of the balance dialog: [qty, complete], or NoOffer
    work,           \* what each request has computed and not committed
    causes,         \* history: why a sale may exceed what is held
    clean           \* history: nothing but imports and an opening row made in time
journalVars == <<habit, day, executed, opening, entries, nextEntry, closed, linked, shown, work, causes, clean>>

Sides == {"buy", "sell"}
Symbols == {f.sym : f \in Forms} \cup {Name}
NoRef == <<"none", 0>>
FillRef(x) == <<"fill", x.no>>
BalanceRef(d) == <<"bal", d>>
AtRest == [op |-> "idle", rows |-> <<>>, warned |-> FALSE, fresh |-> TRUE]
NoOffer == [qty |-> 0, complete |-> FALSE]

Entry(side, d, n, f, ref) ==
    [id |-> 0, side |-> side, date |-> d, qty |-> n, sym |-> f.sym, code |-> f.code, ref |-> ref]
Price(d) == d

-----------------------------------------------------------------------------
(* Holdings. *)

Signed(e) == IF e.side = "buy" THEN e.qty ELSE -e.qty
NetOf(es) == MapThenSumSet(Signed, es)

\* _position_by_symbol, and the check of a sale: those up to a date.
Of(es, s) == {e \in es : e.sym = s}
Position(es, s) == NetOf(Of(es, s))
HeldAt(es, s, d) == NetOf({e \in es : e.sym = s /\ e.date <= d})

Earlier(x, y) == x.date < y.date \/ (x.date = y.date /\ x.id < y.id)

\* Folds the entries in the order of their dates, those of a date as they were entered.
InOrder(Step(_, _), start, es) ==
    LET nth(n) == CHOOSE e \in es : Cardinality({x \in es : Earlier(x, e)}) = n - 1
        after[n \in 0..Cardinality(es)] == IF n = 0 THEN start ELSE Step(after[n - 1], nth(n))
    IN  after[Cardinality(es)]

\* A lot is what is left of a purchase.
LotOf(e) == [id |-> e.id, date |-> e.date, qty |-> e.qty]
QtyOf(lots) == LET qty(l) == l.qty IN MapThenSumSet(qty, lots)
CostOf(lots) == LET cost(l) == l.qty * Price(l.date) IN MapThenSumSet(cost, lots)

\* Mutant: a lot sold in part is lost.
ConsumeWhole(lots, n) == {l \in lots : QtyOf({m \in lots : Earlier(m, l)}) >= n}

\* What n shares take of a lot: the oldest lots are sold first.
TakenOf(lots, n, l) == Most(0, Least(l.qty, n - QtyOf({m \in lots : Earlier(m, l)})))
CostTaken(lots, n) == LET cost(l) == TakenOf(lots, n, l) * Price(l.date) IN MapThenSumSet(cost, lots)
Consumed(lots, n) ==
    {l \in {[m EXCEPT !.qty = @ - TakenOf(lots, n, m)] : m \in lots} : l.qty > 0}

\* _compute: a sale of more than is held is left out and its row marked.
Booked(book, e) ==
    IF e.side = "buy" THEN [book EXCEPT !.lots = @ \cup {LotOf(e)}]
    ELSE IF e.qty > QtyOf(book.lots) THEN [book EXCEPT !.flaws = @ \cup {e.id}]
    ELSE [book EXCEPT !.lots = Consumed(book.lots, e.qty), !.matched = @ + CostTaken(book.lots, e.qty)]
EmptyBook == [lots |-> {}, matched |-> 0, flaws |-> {}]
Book(es, s) == InOrder(Booked, EmptyBook, Of(es, s))

\* _fifo_apply, of the curve: the same without the mark.
Applied(lots, e) == IF e.side = "buy" THEN lots \cup {LotOf(e)} ELSE Consumed(lots, e.qty)
CurveLots(es, s) == InOrder(Applied, {}, Of(es, s))

Flaws == UNION {Book(entries, s).flaws : s \in Symbols}

-----------------------------------------------------------------------------
(* Names. *)

\* Code, then name, then a new name: the symbols the broker's instrument may be booked
\* under (the entry found first is the database's choice).
Matches(es) == IF \E e \in es : e.code THEN {e.sym : e \in {x \in es : x.code}} ELSE {Name}

-----------------------------------------------------------------------------
(* Writing. *)

JournalInit ==
    /\ habit \in Habits
    /\ day = 1 /\ executed = {} /\ opening \in Openings
    /\ entries = {} /\ nextEntry = 1 /\ closed = FALSE /\ linked = TRUE
    /\ shown = NoOffer /\ work = [r \in Keepers |-> AtRest] /\ causes = {} /\ clean = TRUE

\* What a request computed from the entries is no longer of now.
Outdated(r) == [q \in Keepers |-> IF q = r THEN AtRest
                                 ELSE IF work[q].op = "idle" THEN work[q] ELSE [work[q] EXCEPT !.fresh = FALSE]]

\* A committed row gets the next id.
Insert(r, rows) ==
    /\ work' = Outdated(r)
    /\ shown' = [shown EXCEPT !.complete = FALSE]
    /\ entries' = entries \cup {[rows[i] EXCEPT !.id = nextEntry + i - 1] : i \in 1..Len(rows)}
    /\ nextEntry' = nextEntry + Len(rows)

\* Sales a new sale of that date comes before.
Later(es, s, d) == {e \in es : e.sym = s /\ e.side = "sell" /\ e.date > d}

AddBuy(r) ==
    /\ work[r].op = "idle" /\ r \notin Nightly /\ "buy" \in habit /\ ~closed /\ nextEntry <= MaxEntries
    /\ \E f \in Forms, d \in 1..day, n \in 1..2 : Insert(r, <<Entry("buy", d, n, f, NoRef)>>)
    /\ clean' = FALSE
    /\ UNCHANGED <<habit, day, executed, opening, closed, linked, causes>>

\* Mutant: everything held today counts, also what was bought later.
HeldEver(es, s, d) == NetOf({e \in es : e.sym = s})

\* What the check of a sale allows at its date.
Sellable(es, s, d) == HeldAt(es, s, d)

BeginSell(r) ==
    /\ work[r].op = "idle" /\ r \notin Nightly /\ "sell" \in habit /\ ~closed /\ nextEntry <= MaxEntries
    /\ \E f \in Forms, d \in 1..day, n \in 1..2 :
          /\ n <= Sellable(entries, f.sym, d)
          /\ work' = [work EXCEPT ![r] = [AtRest EXCEPT !.op = "sell", !.rows = <<Entry("sell", d, n, f, NoRef)>>]]
    /\ UNCHANGED <<habit, day, executed, opening, entries, nextEntry, closed, linked, shown, causes, clean>>

CommitSell(r) ==
    /\ work[r].op = "sell" /\ nextEntry <= MaxEntries
    /\ LET e == work[r].rows[1] IN
       /\ Insert(r, work[r].rows)
       /\ causes' = causes \cup (IF ~work[r].fresh THEN {"race"} ELSE {})
                           \cup (IF Later(entries, e.sym, e.date) # {} THEN {"backdated"} ELSE {})
    /\ clean' = FALSE
    /\ UNCHANGED <<habit, day, executed, opening, closed, linked>>

DeleteEntry(r) ==
    /\ work[r].op = "idle" /\ r \notin Nightly /\ "delete" \in habit
    /\ \E e \in entries : /\ entries' = entries \ {e}
                          /\ causes' = causes \cup (IF e.side = "buy" THEN {"deleted"} ELSE {})
    /\ work' = Outdated(r) /\ shown' = [shown EXCEPT !.complete = FALSE]
    /\ clean' = FALSE
    /\ UNCHANGED <<habit, day, executed, opening, nextEntry, closed, linked>>

\* close_journal, reopen_journal, link_journal_broker.
CloseOrReopen == /\ "close" \in habit /\ closed' = ~closed
                 /\ UNCHANGED <<habit, day, executed, opening, entries, nextEntry, linked, shown, work, causes, clean>>
Link == /\ "close" \in habit /\ linked' = ~linked
        /\ UNCHANGED <<habit, day, executed, opening, entries, nextEntry, closed, shown, work, causes, clean>>

-----------------------------------------------------------------------------
(* Importing: nothing asks whether the journal is closed. *)

Known(es) == {e.ref : e \in es} \ {NoRef}

\* The executions an import asks for: the route 30 days, the batch two.
Fetched(r) == {x \in executed : r \in Nightly => x.date > day - BatchDays}

NewRows(es, xs, s) ==
    LET new == {x \in xs : FillRef(x) \notin Known(es)}
        before(x) == {y \in new : y.date < x.date \/ (y.date = x.date /\ y.no < x.no)}
        nth(n) == CHOOSE x \in new : Cardinality(before(x)) = n - 1
    IN  [n \in 1..Cardinality(new) |->
            Entry(nth(n).side, nth(n).date, nth(n).qty, [sym |-> s, code |-> TRUE], FillRef(nth(n)))]

\* The sale in row i is more than is held: only a warning.
Warned(es, rows, i) ==
    LET signed(k) == Signed(rows[k])
    IN  /\ rows[i].side = "sell"
        /\ rows[i].qty > HeldAt(es, rows[i].sym, rows[i].date)
                          + MapThenSumSet(signed, {k \in 1..(i - 1) : rows[k].date <= rows[i].date})

BeginImport(r) ==
    /\ work[r].op = "idle" /\ "import" \in habit /\ linked /\ nextEntry <= MaxEntries
    /\ Fetched(r) # {}
    /\ \E s \in Matches(entries) :
          LET rows == NewRows(entries, Fetched(r), s) IN
          work' = [work EXCEPT ![r] = [AtRest EXCEPT !.op = "import", !.rows = rows,
                       !.warned = \E i \in 1..Len(rows) : Warned(entries, rows, i)]]
    /\ UNCHANGED <<habit, day, executed, opening, entries, nextEntry, closed, linked, shown, causes, clean>>

\* Mutant: without the unique index.
NeverClash(rows) == FALSE

\* uq_manual_journal_entries_broker_ref.
Clash(rows) == \E i \in 1..Len(rows) : rows[i].ref \in Known(entries)

CommitImport(r) ==
    /\ work[r].op = "import"
    /\ LET rows == work[r].rows
           sales == {i \in 1..Len(rows) : rows[i].side = "sell"}
       IN  IF Clash(rows) \/ rows = <<>>
           THEN work' = [work EXCEPT ![r] = AtRest] /\ UNCHANGED <<entries, nextEntry, causes, shown>>
           ELSE /\ Insert(r, rows)
                /\ causes' = causes \cup (IF work[r].warned THEN {"warned"} ELSE {})
                     \cup (IF \E i \in sales : Later(entries, rows[i].sym, rows[i].date) # {} THEN {"backdated"} ELSE {})
                     \cup (IF sales # {} /\ ~work[r].fresh THEN {"race"} ELSE {})
    /\ UNCHANGED <<habit, day, executed, opening, closed, linked, clean>>

Complete == \A x \in executed : FillRef(x) \in Known(entries)
AtBroker == opening + NetOf(executed)

\* What the journal lacks of the balance.
Offer(s) == Most(AtBroker - Position(entries, s), 0)

\* journal_broker_holdings: the user looks at the balance ...
ShowHoldings ==
    /\ "balance" \in habit /\ linked
    /\ \E s \in Matches(entries) : shown' = [qty |-> Offer(s), complete |-> Complete]
    /\ UNCHANGED <<habit, day, executed, opening, entries, nextEntry, closed, linked, work, causes, clean>>

\* ... and registers it, as one purchase of today, whatever has happened since.
ImportHoldings ==
    /\ shown.qty > 0 /\ ~closed /\ nextEntry <= MaxEntries
    /\ IF BalanceRef(day) \in Known(entries) THEN UNCHANGED <<entries, nextEntry, clean, work, shown>>
       ELSE /\ \E s \in Matches(entries) :
                  Insert("user", <<Entry("buy", day, shown.qty, [sym |-> s, code |-> TRUE], BalanceRef(day))>>)
            /\ clean' = (clean /\ shown.complete)
    /\ UNCHANGED <<habit, day, executed, opening, closed, linked, causes>>

-----------------------------------------------------------------------------
(* The broker and the days. *)

ExecuteShare ==
    /\ \E x \in Execs \ executed :
          /\ x.date = day
          /\ x.side = "sell" => x.qty <= AtBroker
          /\ executed' = executed \cup {x}
    /\ UNCHANGED <<habit, day, opening, entries, nextEntry, closed, linked, shown, work, causes, clean>>

NextDay == /\ day < LastDay /\ day' = day + 1
           /\ UNCHANGED <<habit, executed, opening, entries, nextEntry, closed, linked, shown, work, causes, clean>>

JournalNext ==
    \/ \E r \in Keepers : \/ AddBuy(r) \/ BeginSell(r) \/ CommitSell(r) \/ DeleteEntry(r)
                          \/ BeginImport(r) \/ CommitImport(r)
    \/ CloseOrReopen \/ Link \/ ShowHoldings \/ ImportHoldings
    \/ ExecuteShare \/ NextDay

JournalSpec == JournalInit /\ [][JournalNext]_journalVars

-----------------------------------------------------------------------------
(* Properties. *)

\* Every purchase is either matched by a sale or still a lot, share for share and won for
\* won, and as long as no row is marked the overview, the curve and the sum used by the
\* checks hold the same (mjournal.py:103, 703, 1077). A row is marked, a sale exceeding what
\* is held, only after a purchase was deleted, a sale was dated before another, two
\* requests overlapped, or an import warned of it (mjournal.py:329, 473).
BooksAgree ==
    /\ Flaws # {} => causes # {}
    /\ \A s \in Symbols :
        LET book == Book(entries, s)
            bought == {e \in Of(entries, s) : e.side = "buy"}
        IN  /\ CostOf(bought) = book.matched + CostOf(book.lots)
            /\ book.flaws = {} => /\ QtyOf(book.lots) = Position(entries, s)
                                  /\ CurveLots(entries, s) = book.lots

\* An execution is in the journal at most once however often imports run and overlap, and
\* an opening row made from the balance of a journal that had all executions fills exactly
\* the gap: with it the journal holds the opening shares and what was imported.
GapFilledOnce ==
    /\ \A e, f \in entries : e.ref = f.ref /\ e.ref # NoRef => e = f
    /\ clean /\ (\E e \in entries : e.ref[1] = "bal") =>
          NetOf(entries) = opening + NetOf({x \in executed : FillRef(x) \in Known(entries)})
=============================================================================
