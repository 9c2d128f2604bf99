-------------------------------- MODULE Notify --------------------------------
(***************************************************************************)
(* The daily status message of one user and day (notify.py, with the 16:40  *)
(* and 20:20 tasks of worker.py and the hook in activity.py): one message   *)
(* after the regular session, one more in the evening if something was      *)
(* traded since 16:45.  That a message went out is marked in                *)
(* user_settings.notify, one JSON value which every sender and the settings *)
(* screen write whole from the copy they loaded; the mark is committed      *)
(* after all users' messages have gone.                                     *)
(***************************************************************************)
EXTENDS Integers, FiniteSets

CONSTANTS
    Afternoon, Evening,  \* deliveries of the 16:40 and of the 20:20 task
    Screens,             \* requests of the settings page
    Others,              \* sessions that log an event with a message, as the 20:15 sync
    Parties              \* bound: the sessions there are, in one behaviour

ASSUME NotifyAssumption ==
    /\ Afternoon \intersect Evening = {} /\ (Afternoon \cup Evening) \intersect (Screens \cup Others) = {}
    /\ Screens \intersect Others = {}
    /\ \A p \in Parties : IsFiniteSet(p)

VARIABLES
    party,      \* the sessions there are
    notify,     \* the JSON value: switched on, daily status wanted, a mark per phase
    chat,       \* the column of the chat: found or not
    traded,     \* something was registered since 16:45
    hand,       \* what each session is at, and the copies it works on
    inbox,      \* messages of each phase the user has received
    slips       \* history: marks that were lost, or came too late for another delivery

notifyVars == <<party, notify, chat, traded, hand, inbox, slips>>

Phases == {"close", "after"}
Delivery == Afternoon \cup Evening
Phase(s) == IF s \in Evening THEN "after" ELSE "close"
\* PHASE_KEY: each phase has a mark of its own.
Key(s) == Phase(s)

Unset == [on |-> FALSE, daily |-> TRUE, sent |-> [f \in Phases |-> FALSE]]
Waiting == [at |-> "new", copy |-> Unset, chat |-> FALSE]

NotifyInit ==
    /\ party \in Parties
    /\ \E on, daily \in BOOLEAN : notify = [Unset EXCEPT !.on = on, !.daily = daily]
    /\ chat \in BOOLEAN /\ traded = FALSE
    /\ hand = [s \in party |-> Waiting]
    /\ inbox = [f \in Phases |-> 0] /\ slips = [f \in Phases |-> 0]

Move(s, at) == hand' = [hand EXCEPT ![s].at = at]
LoadRow(s, at) == hand' = [hand EXCEPT ![s] = [at |-> at, copy |-> notify, chat |-> chat]]

\* A whole value written from an old copy may take marks away.
WriteNotify(value) ==
    /\ notify' = value
    /\ slips' = [f \in Phases |-> IF notify.sent[f] /\ ~value.sent[f] THEN slips[f] + 1 ELSE slips[f]]

-----------------------------------------------------------------------------
(* daily_asset_snapshot and evening_asset_snapshot; another delivery of a task may begin
   at any time: after a crash, when the scheduler catches up, or with the first at work. *)

\* The assets of all users are stored first; the task ends there if that fails.
Snapshot(s) ==
    /\ hand[s].at = "new"
    /\ \E next \in {IF s \in Evening THEN "who" ELSE "row", "end"} : Move(s, next)
    /\ UNCHANGED <<party, notify, chat, traded, inbox, slips>>

\* users_with_evening_fills
Choose(s) ==
    /\ hand[s].at = "who" /\ Move(s, IF traded THEN "row" ELSE "end")
    /\ UNCHANGED <<party, notify, chat, traded, inbox, slips>>

\* Mutant: the mark is not looked at.
MarkedNever(s) == FALSE
\* The phase is marked as sent for the day.
Marked(s) == notify.sent[Key(s)]

\* Deliveries of one phase that have both looked at the mark send both.
AtOnce(s) == \E q \in (party \intersect Delivery) \ {s} :
                /\ Phase(q) = Phase(s)
                /\ hand[q].at = "send" \/ (hand[q].at = "sent" /\ hand[q].copy.sent[Key(q)])

LookAtMark(s) ==
    /\ hand[s].at = "row"
    /\ IF Marked(s) THEN Move(s, "end") /\ UNCHANGED slips
       ELSE /\ LoadRow(s, "send")
            /\ slips' = [slips EXCEPT ![Phase(s)] = IF AtOnce(s) THEN @ + 1 ELSE @]
    /\ UNCHANGED <<party, notify, chat, traded, inbox>>

-----------------------------------------------------------------------------
(* maybe_notify: what the session loaded decides; a failure is only recorded. *)

Ready(s) == hand[s].copy.on /\ hand[s].chat

\* What is in the copy when the messenger has answered: the mark only after a success.
Recorded(s, answer) == IF answer = "ok" THEN [hand[s].copy EXCEPT !.sent[Key(s)] = TRUE] ELSE hand[s].copy

\* The answer may be lost while the message arrives.
SendStatus(s) ==
    /\ s \in Delivery /\ hand[s].at = "send"
    /\ IF ~Ready(s) \/ ~hand[s].copy.daily
       THEN Move(s, "end") /\ UNCHANGED <<inbox, slips>>
       ELSE \E answer \in {"ok", "lost", "failed"} :
              /\ hand' = [hand EXCEPT ![s].at = "sent", ![s].copy = Recorded(s, answer)]
              /\ inbox' = [inbox EXCEPT ![Phase(s)] = IF answer = "failed" THEN @ ELSE @ + 1]
              /\ slips' = [slips EXCEPT ![Phase(s)] = IF answer = "lost" THEN @ + 1 ELSE @]
    /\ UNCHANGED <<party, notify, chat, traded>>

\* One commit when every user has been served.
CommitStatus(s) ==
    /\ s \in Delivery /\ hand[s].at = "sent"
    /\ WriteNotify(hand[s].copy) /\ Move(s, "end")
    /\ UNCHANGED <<party, chat, traded, inbox>>

\* The worker is lost, and with it what is not committed.
Lost(s) ==
    /\ s \in Delivery /\ hand[s].at \in {"who", "row", "send", "sent"} /\ Move(s, "end")
    /\ slips' = [slips EXCEPT ![Phase(s)] =
                   IF hand[s].at = "sent" /\ hand[s].copy.sent[Key(s)] THEN @ + 1 ELSE @]
    /\ UNCHANGED <<party, notify, chat, traded, inbox>>

-----------------------------------------------------------------------------
(* The other writers of the value. *)

\* log_event sends at once and its row is committed, or rolled back, with the session's work.
LogEvent(s) ==
    /\ s \in Others /\ hand[s].at = "new" /\ LoadRow(s, IF notify.on /\ chat THEN "sent" ELSE "end")
    /\ UNCHANGED <<party, notify, chat, traded, inbox, slips>>
EndEvent(s) ==
    /\ s \in Others /\ hand[s].at = "sent" /\ Move(s, "end")
    /\ \/ WriteNotify(hand[s].copy) \/ UNCHANGED <<notify, slips>>
    /\ UNCHANGED <<party, chat, traded, inbox>>

BeginPut(s) == /\ s \in Screens /\ hand[s].at = "new" /\ LoadRow(s, "put")
               /\ UNCHANGED <<party, notify, chat, traded, inbox, slips>>
\* put_notify: the switch or the wanted messages, or the chat.
CommitPut(s) ==
    /\ s \in Screens /\ hand[s].at = "put" /\ Move(s, "end")
    /\ \/ \E on, daily \in BOOLEAN : WriteNotify([hand[s].copy EXCEPT !.on = on, !.daily = daily])
       \/ UNCHANGED <<notify, slips>>
    /\ chat' \in BOOLEAN
    /\ UNCHANGED <<party, traded, inbox>>

\* test_notify looks for the chat if there is none, and commits it by itself; a search
\* that fails is recorded.
BeginTest(s) == /\ s \in Screens /\ hand[s].at = "new" /\ LoadRow(s, "search")
                /\ UNCHANGED <<party, notify, chat, traded, inbox, slips>>
FindChat(s) ==
    /\ s \in Screens /\ hand[s].at = "search"
    /\ \/ hand[s].chat /\ Move(s, "test") /\ UNCHANGED <<notify, chat, slips>>
       \/ ~hand[s].chat /\ chat' = TRUE /\ Move(s, "test") /\ UNCHANGED <<notify, slips>>
       \/ ~hand[s].chat /\ WriteNotify(hand[s].copy) /\ Move(s, "end") /\ UNCHANGED chat
       \/ ~hand[s].chat /\ Move(s, "end") /\ UNCHANGED <<notify, chat, slips>>
    /\ UNCHANGED <<party, traded, inbox>>
\* The test message; its success switches the messages on.
CommitTest(s) ==
    /\ s \in Screens /\ hand[s].at = "test" /\ Move(s, "end")
    /\ \E ok \in BOOLEAN : WriteNotify([hand[s].copy EXCEPT !.on = @ \/ ok])
    /\ UNCHANGED <<party, chat, traded, inbox>>

Fill == /\ ~traded /\ traded' = TRUE
        /\ UNCHANGED <<party, notify, chat, hand, inbox, slips>>

NotifyNext ==
    \/ Fill
    \/ \E s \in party \intersect Delivery : \/ Snapshot(s) \/ Choose(s) \/ LookAtMark(s)
                                         \/ SendStatus(s) \/ CommitStatus(s) \/ Lost(s)
    \/ \E s \in party \ Delivery : \/ LogEvent(s) \/ EndEvent(s) \/ BeginPut(s) \/ CommitPut(s)
                                \/ BeginTest(s) \/ FindChat(s) \/ CommitTest(s)

NotifySpec == NotifyInit /\ [][NotifyNext]_notifyVars

-----------------------------------------------------------------------------
(* Properties. *)

\* Each phase's message comes once a day, however often its task is delivered: every
\* further one has a cause of its own, a worker lost between the messages and the commit,
\* an answer that was lost, two deliveries at once, or a mark that another session wrote
\* away with its old copy (notify.py:337).
ToldOnce == \A f \in Phases : inbox[f] <= 1 + slips[f]
=============================================================================
