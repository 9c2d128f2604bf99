------------------------------ MODULE AccountMC ------------------------------
(* What the broker's account is compared with, in one run: a behaviour is one of the rows
   of orders and their final status, of a journal linked to the account, or of a
   portfolio's evening, or of the user's daily status message, the others being at rest.
   Deals and cash moved outside have amounts no sum of which repeats, so a ledger that
   has changed differs from the one of the check. *)
EXTENDS OrdersMC, Journal, CashCheck, Notify

CONSTANTS k1, k2, u1, u2, w, d1, d2, e1, e2, put, log

MCForms == {[sym |-> "A", code |-> FALSE], [sym |-> "B", code |-> TRUE]}
MCExecs == {[no |-> 1, side |-> "buy", date |-> 1, qty |-> 1], [no |-> 2, side |-> "sell", date |-> 2, qty |-> 2]}
MCHabits == {{"buy", "sell", "import"}, {"buy", "sell", "delete"}, {"buy", "import", "balance"},
             {"import", "balance", "close"}}
MCDeals == {[no |-> 1, amount |-> 10, planned |-> FALSE]}
MCRoles == {(u1 :> {"refresh", "align"}) @@ (u2 :> {"choose"}), (u1 :> {"refresh", "align"}) @@ (u2 :> {"align"})}

MCParties == {{d1, d2, log}, {d1, d2, put}, {e1, e2, log}, {e1, e2, put}, {d1, d2, e1}}

VARIABLE part
OrdersRest == /\ phase = 0 /\ rows = <<>> /\ book = <<>> /\ settled = FALSE /\ excused = {}
              /\ req = [r \in Request |-> Done]
JournalRests == JournalInit /\ opening = 0 /\ "delete" \in habit
CashRests == CashInit /\ "choose" \in cast[u2]
NotifyRests == NotifyInit /\ e1 \in party /\ d1 \in party /\ ~notify.on /\ notify.daily /\ ~chat

Init == \/ part = "orders" /\ OrdersInit /\ JournalRests /\ CashRests /\ NotifyRests
        \/ part = "journal" /\ JournalInit /\ OrdersRest /\ CashRests /\ NotifyRests
        \/ part = "cash" /\ CashInit /\ OrdersRest /\ JournalRests /\ NotifyRests
        \/ part = "notify" /\ NotifyInit /\ OrdersRest /\ JournalRests /\ CashRests

Next == \/ part = "orders" /\ OrdersNext /\ UNCHANGED <<part, journalVars, cashVars, notifyVars>>
        \/ part = "journal" /\ JournalNext /\ UNCHANGED <<part, ordersVars, cashVars, notifyVars>>
        \/ part = "cash" /\ CashNext /\ UNCHANGED <<part, ordersVars, journalVars, notifyVars>>
        \/ part = "notify" /\ NotifyNext /\ UNCHANGED <<part, ordersVars, journalVars, cashVars>>

Spec == Init /\ [][Next]_<<part, ordersVars, journalVars, cashVars, notifyVars>>
=============================================================================
