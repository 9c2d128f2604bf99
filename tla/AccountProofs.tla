---------------------------- MODULE AccountProofs ----------------------------
(***************************************************************************)
(* The status message comes once a phase, but for the causes counted in     *)
(* slips.  The argument counts credit: a message that may still go out, or  *)
(* has gone out without a mark, is backed by the one delivery that looked    *)
(* first, by the mark, or by a slip.                                        *)
(*                                                                         *)
(* The cash check: corrections are exact, and no stage of the evening      *)
(* undoes another's params.  A session's copy of the JSON value is what is  *)
(* stored, until another session writes (CashCheck).                        *)
(*                                                                         *)
(* The journal: its books agree, and imports and the opening row fill the   *)
(* gap once.  The books are folds over the entries in their order, so what  *)
(* they hold is shown for the first entries, then for one more (AgreesNext).*)
(* No row is marked because every sale is covered by the entries before it, *)
(* which a written row can undo only for one of the causes the model keeps. *)
(***************************************************************************)
EXTENDS Notify, CashCheck, Journal, Sums, FiniteSetTheorems, TLAPS

Value == [on : BOOLEAN, daily : BOOLEAN, sent : [Phases -> BOOLEAN]]
Places == {"new", "who", "row", "send", "sent", "end", "put", "search", "test"}

NotifyTypes ==
    /\ IsFiniteSet(party) /\ notify \in Value /\ chat \in BOOLEAN
    /\ hand \in [party -> [at : Places, copy : Value, chat : BOOLEAN]]
    /\ inbox \in [Phases -> Nat] /\ slips \in [Phases -> Nat]

Ours(f) == {q \in party \intersect Delivery : Phase(q) = f}
\* Deliveries that have looked at the mark and not yet sent.
Sending(f) == {q \in Ours(f) : hand[q].at = "send"}
\* A delivery that has sent, and whose mark is not committed.
Marking(q) == hand[q].at = "sent" /\ hand[q].copy.sent[Phase(q)] = TRUE

Credited(f) == notify.sent[f] = TRUE \/ Sending(f) # {} \/ \E q \in Ours(f) : Marking(q)

Count(f) == /\ inbox[f] + Cardinality(Sending(f)) <= slips[f] + 1
            /\ Credited(f) \/ inbox[f] + Cardinality(Sending(f)) <= slips[f]

NotifyInv == NotifyTypes /\ \A f \in Phases : Count(f)

-----------------------------------------------------------------------------
\* The deliveries at work are finitely many.
LEMMA SendingFinite ==
    ASSUME NotifyTypes, NEW f \in Phases
    PROVE  IsFiniteSet(Sending(f)) /\ Cardinality(Sending(f)) \in Nat
<1>1. Sending(f) \subseteq party
  BY DEF Sending, Ours
<1>2. IsFiniteSet(Sending(f))
  BY <1>1, FS_Subset DEF NotifyTypes
<1> QED BY <1>2, FS_CardinalityType

\* Writing the whole value takes a mark away only against a slip.
LEMMA WriteBacked ==
    ASSUME NotifyTypes, NEW value \in Value, WriteNotify(value), NEW f \in Phases
    PROVE  /\ notify' \in Value /\ slips' \in [Phases -> Nat]
           /\ notify'.sent[f] = value.sent[f]
           /\ slips'[f] >= slips[f]
           /\ notify.sent[f] = TRUE /\ ~(value.sent[f] = TRUE) => slips'[f] = slips[f] + 1
<1>1. notify' = value /\ slips' = [g \in Phases |-> IF notify.sent[g] /\ ~value.sent[g] THEN slips[g] + 1 ELSE slips[g]]
  BY DEF WriteNotify
<1>2. slips \in [Phases -> Nat] /\ notify \in Value
  BY DEF NotifyTypes
<1>3. slips'[f] = IF notify.sent[f] /\ ~value.sent[f] THEN slips[f] + 1 ELSE slips[f]
  BY <1>1
<1> QED BY <1>1, <1>2, <1>3

\* What the value and the slips may do in a phase whose deliveries stay where they are.
Backed(f) ==
    /\ inbox'[f] = inbox[f] /\ slips'[f] >= slips[f]
    /\ notify.sent[f] = TRUE /\ ~(notify'.sent[f] = TRUE) => slips'[f] = slips[f] + 1

\* A step that sends nothing keeps the count of a phase.
LEMMA UntouchedCount ==
    ASSUME NotifyInv, NotifyTypes', party' = party, NEW f \in Phases, Backed(f),
           Sending(f)' = Sending(f), \A q \in Ours(f) : Marking(q) => Marking(q)'
    PROVE  Count(f)'
<1>1. /\ inbox[f] \in Nat /\ slips[f] \in Nat /\ slips'[f] \in Nat /\ Cardinality(Sending(f)) \in Nat
      /\ inbox[f] + Cardinality(Sending(f)) <= slips[f] + 1
      /\ Credited(f) \/ inbox[f] + Cardinality(Sending(f)) <= slips[f]
  BY SendingFinite DEF NotifyInv, NotifyTypes, Count
<1>2. CASE notify.sent[f] = TRUE /\ ~(notify'.sent[f] = TRUE)
  BY <1>1, <1>2 DEF Backed, Count
<1>3. CASE ~(notify.sent[f] = TRUE /\ ~(notify'.sent[f] = TRUE))
  <2>1. Ours(f)' = Ours(f)
    BY DEF Ours
  <2>2. Credited(f) => Credited(f)'
    BY <1>3, <2>1 DEF Credited
  <2> QED BY <1>1, <2>2 DEF Backed, Count
<1> QED BY <1>2, <1>3

\* A delivery that has looked at the mark.
LEMMA EnterCount ==
    ASSUME NotifyInv, NotifyTypes', party' = party, NEW f \in Phases, NEW s \in Ours(f),
           hand[s].at = "row", hand'[s].at = "send", \A q \in party : q # s => hand'[q] = hand[q],
           inbox' = inbox, notify' = notify,
           IF AtOnce(s) THEN slips'[f] = slips[f] + 1 ELSE slips'[f] = slips[f],
           ~(notify.sent[f] = TRUE)
    PROVE  Count(f)'
<1>1. Sending(f)' = Sending(f) \cup {s} /\ s \notin Sending(f)
  BY DEF Sending, Ours
<1>2. Cardinality(Sending(f)') = Cardinality(Sending(f)) + 1
  BY <1>1, SendingFinite, FS_AddElement DEF NotifyInv
<1>3. /\ inbox[f] \in Nat /\ slips[f] \in Nat /\ Cardinality(Sending(f)) \in Nat
      /\ inbox[f] + Cardinality(Sending(f)) <= slips[f] + 1
      /\ Credited(f) \/ inbox[f] + Cardinality(Sending(f)) <= slips[f]
  BY SendingFinite DEF NotifyInv, NotifyTypes, Count
<1>4. Credited(f)'
  BY <1>1 DEF Credited
<1>5. Credited(f) => AtOnce(s)
  BY DEF Credited, Sending, Marking, Ours, AtOnce, Key
<1> QED BY <1>2, <1>3, <1>4, <1>5 DEF Count

\* A delivery that stops sending: it sent a message and holds the mark, it sent one
\* against a slip, or it sent none.
LEMMA LeaveCount ==
    ASSUME NotifyInv, NotifyTypes', party' = party, NEW f \in Phases, NEW s \in Ours(f),
           hand[s].at = "send", hand'[s].at # "send", \A q \in party : q # s => hand'[q] = hand[q],
           notify' = notify,
           \/ inbox'[f] = inbox[f] /\ slips'[f] = slips[f]
           \/ inbox'[f] = inbox[f] + 1 /\ slips'[f] = slips[f] + 1
           \/ inbox'[f] = inbox[f] + 1 /\ slips'[f] = slips[f] /\ Marking(s)'
    PROVE  Count(f)'
<1>1. Sending(f)' = Sending(f) \ {s} /\ s \in Sending(f)
  BY DEF Sending, Ours
<1>2. Cardinality(Sending(f)') = Cardinality(Sending(f)) - 1
  BY <1>1, SendingFinite, FS_RemoveElement DEF NotifyInv
<1>3. /\ inbox[f] \in Nat /\ slips[f] \in Nat /\ Cardinality(Sending(f)) \in Nat
      /\ inbox[f] + Cardinality(Sending(f)) <= slips[f] + 1
  BY SendingFinite DEF NotifyInv, NotifyTypes, Count
<1>4. Marking(s)' => Credited(f)'
  BY DEF Credited, Ours
<1> QED BY <1>2, <1>3, <1>4 DEF Count

-----------------------------------------------------------------------------
(* Every step keeps the invariant. *)

\* A delivery is of one phase.
LEMMA Parts ==
    ASSUME NotifyTypes, NEW s \in party \intersect Delivery
    PROVE  /\ Phase(s) \in Phases /\ s \in Ours(Phase(s))
           /\ \A f \in Phases : f # Phase(s) => s \notin Ours(f)
  BY DEF Phase, Phases, Ours

\* Another session than a delivery.
LEMMA OthersKeep ==
    ASSUME NotifyInv, NEW s \in party \ Delivery,
           LogEvent(s) \/ EndEvent(s) \/ BeginPut(s) \/ CommitPut(s) \/ BeginTest(s) \/ FindChat(s) \/ CommitTest(s)
    PROVE  NotifyInv'
<1>1. hand[s].copy \in Value /\ notify \in Value /\ chat \in BOOLEAN
  BY DEF NotifyInv, NotifyTypes
<1>2. /\ party' = party /\ inbox' = inbox /\ chat' \in BOOLEAN
      /\ hand' \in [party -> [at : Places, copy : Value, chat : BOOLEAN]]
      /\ \A q \in party : q # s => hand'[q] = hand[q]
  <2>1. party' = party /\ inbox' = inbox /\ chat' \in BOOLEAN
    BY <1>1 DEF LogEvent, EndEvent, BeginPut, CommitPut, BeginTest, FindChat, CommitTest
  <2>2. \E at \in Places : Move(s, at) \/ LoadRow(s, at)
    BY DEF LogEvent, EndEvent, BeginPut, CommitPut, BeginTest, FindChat, CommitTest, Places
  <2>3. PICK at \in Places : Move(s, at) \/ LoadRow(s, at)
    BY <2>2
  <2>4. hand \in [party -> [at : Places, copy : Value, chat : BOOLEAN]]
    BY DEF NotifyInv, NotifyTypes
  <2>5. CASE Move(s, at)
    BY <2>1, <2>4, <2>5 DEF Move
  <2>6. CASE LoadRow(s, at)
    BY <1>1, <2>1, <2>4, <2>6 DEF LoadRow
  <2> QED BY <2>3, <2>5, <2>6
<1>3. UNCHANGED <<notify, slips>> \/ \E value \in Value : WriteNotify(value)
  <2>1. \A on, daily \in BOOLEAN : [hand[s].copy EXCEPT !.on = on, !.daily = daily] \in Value
    BY <1>1 DEF Value
  <2>2. \A ok \in BOOLEAN : [hand[s].copy EXCEPT !.on = @ \/ ok] \in Value
    BY <1>1 DEF Value
  <2> QED BY <1>1, <2>1, <2>2 DEF LogEvent, EndEvent, BeginPut, CommitPut, BeginTest, FindChat, CommitTest
<1>4. /\ notify' \in Value /\ slips' \in [Phases -> Nat]
      /\ \A f \in Phases : Backed(f)
  <2>1. CASE UNCHANGED <<notify, slips>>
    BY <1>2, <2>1 DEF NotifyInv, NotifyTypes, Backed
  <2>2. CASE \E value \in Value : WriteNotify(value)
    <3>1. PICK value \in Value : WriteNotify(value)
      BY <2>2
    <3>2. Phases # {} /\ \A f \in Phases :
                        /\ notify' \in Value /\ slips' \in [Phases -> Nat]
                        /\ notify'.sent[f] = value.sent[f] /\ slips'[f] >= slips[f]
                        /\ notify.sent[f] = TRUE /\ ~(value.sent[f] = TRUE) => slips'[f] = slips[f] + 1
      BY <3>1, WriteBacked DEF NotifyInv, Phases
    <3> QED BY <1>2, <3>2 DEF Backed
  <2> QED BY <1>3, <2>1, <2>2
<1>5. NotifyTypes'
  BY <1>2, <1>4 DEF NotifyInv, NotifyTypes
<1>6. ASSUME NEW f \in Phases PROVE Count(f)'
  <2>1. Sending(f)' = Sending(f) /\ \A q \in Ours(f) : Marking(q) => Marking(q)'
    BY <1>2 DEF Sending, Ours, Marking
  <2> QED BY <1>2, <1>4, <1>5, <2>1, UntouchedCount
<1> QED BY <1>5, <1>6 DEF NotifyInv

\* A delivery before it looks at the mark, and one that finds it.
LEMMA IdleKeeps ==
    ASSUME NotifyInv, NEW s \in party \intersect Delivery, NEW at \in Places \ {"send", "sent"},
           hand[s].at \notin {"send", "sent"}, Move(s, at), UNCHANGED <<party, notify, chat, inbox, slips>>
    PROVE  NotifyInv'
<1>1. NotifyTypes' /\ \A q \in party : q # s => hand'[q] = hand[q]
  BY DEF NotifyInv, NotifyTypes, Move
<1>2. hand'[s].at = at
  BY DEF NotifyInv, NotifyTypes, Move
<1>3. ASSUME NEW f \in Phases PROVE Count(f)'
  <2>1. Sending(f)' = Sending(f) /\ \A q \in Ours(f) : Marking(q) => Marking(q)'
    BY <1>1, <1>2 DEF Sending, Ours, Marking
  <2>2. Backed(f)
    BY DEF Backed, NotifyInv, NotifyTypes
  <2> QED BY <1>1, <2>1, <2>2, UntouchedCount
<1> QED BY <1>1, <1>3 DEF NotifyInv

\* The phase a delivery does not belong to.
LEMMA OtherPhase ==
    ASSUME NotifyInv, NotifyTypes', NEW s \in party \intersect Delivery, party' = party,
           \A q \in party : q # s => hand'[q] = hand[q],
           NEW f \in Phases, f # Phase(s), Backed(f)
    PROVE  Count(f)'
<1>1. Sending(f)' = Sending(f) /\ \A q \in Ours(f) : Marking(q) => Marking(q)'
  BY DEF Sending, Ours, Marking
<1> QED BY <1>1, UntouchedCount

\* A delivery looks at the mark.
LEMMA LookKeeps ==
    ASSUME NotifyInv, NEW s \in party \intersect Delivery, LookAtMark(s)
    PROVE  NotifyInv'
<1>1. CASE Marked(s)
  BY <1>1, IdleKeeps DEF LookAtMark, Places
<1>2. CASE ~Marked(s)
  <2>1. /\ hand[s].at = "row" /\ UNCHANGED <<party, notify, chat, inbox>>
        /\ hand' = [hand EXCEPT ![s] = [at |-> "send", copy |-> notify, chat |-> chat]]
        /\ slips' = [slips EXCEPT ![Phase(s)] = IF AtOnce(s) THEN @ + 1 ELSE @]
        /\ ~(notify.sent[Phase(s)] = TRUE)
    BY <1>2 DEF LookAtMark, LoadRow, Marked, Key
  <2>2. Phase(s) \in Phases /\ s \in Ours(Phase(s))
    BY Parts DEF NotifyInv
  <2>3. /\ NotifyTypes' /\ hand'[s].at = "send" /\ \A q \in party : q # s => hand'[q] = hand[q]
    BY <2>1, <2>2 DEF NotifyInv, NotifyTypes, Places
  <2>4. /\ IF AtOnce(s) THEN slips'[Phase(s)] = slips[Phase(s)] + 1 ELSE slips'[Phase(s)] = slips[Phase(s)]
        /\ \A f \in Phases : f # Phase(s) => slips'[f] = slips[f]
    BY <2>1, <2>2 DEF NotifyInv, NotifyTypes
  <2>6. ASSUME NEW f \in Phases, f # Phase(s) PROVE Count(f)'
    <3>1. Backed(f)
      BY <2>1, <2>4, <2>6 DEF Backed, NotifyInv, NotifyTypes
    <3> QED BY <2>1, <2>3, <2>6, <3>1, OtherPhase
  <2>7. \A f \in Phases : Count(f)'
    BY <2>1, <2>2, <2>3, <2>4, <2>6, EnterCount
  <2> QED BY <2>3, <2>7 DEF NotifyInv
<1> QED BY <1>1, <1>2

\* A delivery sends.
LEMMA SendKeeps ==
    ASSUME NotifyInv, NEW s \in party \intersect Delivery, SendStatus(s)
    PROVE  NotifyInv'
<1> DEFINE f == Phase(s)
<1>1. f \in Phases /\ s \in Ours(f) /\ hand[s].at = "send" /\ UNCHANGED <<party, notify, chat, traded>>
  BY Parts DEF SendStatus, NotifyInv
<1>2. /\ hand \in [party -> [at : Places, copy : Value, chat : BOOLEAN]] /\ hand[s].copy \in Value
      /\ inbox \in [Phases -> Nat] /\ slips \in [Phases -> Nat]
  BY DEF NotifyInv, NotifyTypes
<1>3. CASE Move(s, "end") /\ UNCHANGED <<inbox, slips>>
  <2>1. /\ NotifyTypes' /\ hand'[s].at # "send" /\ \A q \in party : q # s => hand'[q] = hand[q]
    BY <1>1, <1>2, <1>3 DEF NotifyInv, NotifyTypes, Move, Places
  <2>2. Count(f)'
    BY <1>1, <1>3, <2>1, LeaveCount
  <2>3. ASSUME NEW g \in Phases, g # f PROVE Count(g)'
    <3>1. Backed(g)
      BY <1>1, <1>2, <1>3 DEF Backed
    <3> QED BY <1>1, <2>1, <2>3, <3>1, OtherPhase
  <2> QED BY <2>1, <2>2, <2>3 DEF NotifyInv
<1>4. ASSUME NEW answer \in {"ok", "lost", "failed"},
             hand' = [hand EXCEPT ![s].at = "sent", ![s].copy = Recorded(s, answer)],
             inbox' = [inbox EXCEPT ![f] = IF answer = "failed" THEN @ ELSE @ + 1],
             slips' = [slips EXCEPT ![f] = IF answer = "lost" THEN @ + 1 ELSE @]
      PROVE  NotifyInv'
  <2>1. Recorded(s, answer) \in Value /\ (answer = "ok" => Recorded(s, answer).sent[f] = TRUE)
    BY <1>1, <1>2 DEF Recorded, Value, Key
  <2>2. /\ hand' \in [party -> [at : Places, copy : Value, chat : BOOLEAN]]
        /\ \A q \in party : q # s => hand'[q] = hand[q]
        /\ hand'[s].at = "sent" /\ hand'[s].copy = Recorded(s, answer)
    BY <1>2, <1>4, <2>1 DEF Places
  <2>3. inbox' \in [Phases -> Nat] /\ slips' \in [Phases -> Nat]
    BY <1>1, <1>2, <1>4
  <2>4. NotifyTypes'
    BY <1>1, <2>2, <2>3 DEF NotifyInv, NotifyTypes
  <2>5. /\ inbox'[f] = IF answer = "failed" THEN inbox[f] ELSE inbox[f] + 1
        /\ slips'[f] = IF answer = "lost" THEN slips[f] + 1 ELSE slips[f]
    BY <1>1, <1>2, <1>4
  <2>6. Count(f)'
    <3>1. answer = "ok" => Marking(s)'
      BY <2>1, <2>2 DEF Marking
    <3>2. \/ inbox'[f] = inbox[f] /\ slips'[f] = slips[f]
          \/ inbox'[f] = inbox[f] + 1 /\ slips'[f] = slips[f] + 1
          \/ inbox'[f] = inbox[f] + 1 /\ slips'[f] = slips[f] /\ Marking(s)'
      BY <2>5, <3>1
    <3> QED BY <1>1, <2>2, <2>4, <3>2, LeaveCount
  <2>7. ASSUME NEW g \in Phases, g # f PROVE Count(g)'
    <3>1. Backed(g)
      BY <1>1, <1>2, <1>4, <2>7 DEF Backed
    <3> QED BY <1>1, <2>2, <2>4, <2>7, <3>1, OtherPhase
  <2> QED BY <2>4, <2>6, <2>7 DEF NotifyInv
<1> QED BY <1>3, <1>4 DEF SendStatus

\* A delivery that has answered for all users: its commit, or its loss.
LEMMA CommitKeeps ==
    ASSUME NotifyInv, NEW s \in party \intersect Delivery, CommitStatus(s)
    PROVE  NotifyInv'
<1> DEFINE f == Phase(s)
           value == hand[s].copy
<1>1. /\ f \in Phases /\ s \in Ours(f) /\ hand[s].at = "sent" /\ value \in Value
      /\ UNCHANGED <<party, chat, traded, inbox>> /\ WriteNotify(value) /\ Move(s, "end")
  BY Parts DEF CommitStatus, NotifyInv, NotifyTypes
<1>2. \A g \in Phases : /\ notify' \in Value /\ slips' \in [Phases -> Nat]
                        /\ notify'.sent[g] = value.sent[g] /\ slips'[g] >= slips[g]
                        /\ notify.sent[g] = TRUE /\ ~(value.sent[g] = TRUE) => slips'[g] = slips[g] + 1
  BY <1>1, WriteBacked DEF NotifyInv
<1>3. /\ hand' \in [party -> [at : Places, copy : Value, chat : BOOLEAN]]
      /\ hand'[s].at = "end" /\ \A q \in party : q # s => hand'[q] = hand[q]
  BY <1>1 DEF NotifyInv, NotifyTypes, Move, Places
<1>4. NotifyTypes'
  BY <1>1, <1>2, <1>3 DEF NotifyInv, NotifyTypes
<1>5. \A g \in Phases : Backed(g)
  BY <1>1, <1>2 DEF Backed
<1>6. ASSUME NEW g \in Phases, g # f PROVE Count(g)'
  BY <1>1, <1>3, <1>4, <1>5, <1>6, OtherPhase
<1>7. Count(f)'
  <2>1. Sending(f)' = Sending(f) /\ \A q \in Ours(f) : q # s /\ Marking(q) => Marking(q)'
    BY <1>1, <1>3 DEF Sending, Ours, Marking
  <2>2. CASE ~Marking(s)
    BY <1>1, <1>4, <1>5, <2>1, <2>2, UntouchedCount
  <2>3. CASE Marking(s)
    <3>1. Credited(f)'
      BY <1>1, <1>2, <2>3 DEF Credited, Marking
    <3>2. /\ inbox[f] \in Nat /\ slips[f] \in Nat /\ slips'[f] \in Nat /\ Cardinality(Sending(f)) \in Nat
          /\ inbox[f] + Cardinality(Sending(f)) <= slips[f] + 1 /\ slips'[f] >= slips[f]
      BY <1>1, <1>2, SendingFinite DEF NotifyInv, NotifyTypes, Count
    <3> QED BY <1>1, <2>1, <3>1, <3>2 DEF Count
  <2> QED BY <2>2, <2>3
<1> QED BY <1>4, <1>6, <1>7 DEF NotifyInv

\* A delivery is lost or fails.
LEMMA LostKeeps ==
    ASSUME NotifyInv, NEW s \in party \intersect Delivery, Lost(s)
    PROVE  NotifyInv'
<1> DEFINE f == Phase(s)
<1>1. /\ f \in Phases /\ s \in Ours(f) /\ hand[s].at \in {"who", "row", "send", "sent"} /\ Move(s, "end")
      /\ slips' = [slips EXCEPT ![f] = IF hand[s].at = "sent" /\ hand[s].copy.sent[f] THEN @ + 1 ELSE @]
      /\ UNCHANGED <<party, notify, chat, traded, inbox>>
  BY Parts DEF Lost, Key, NotifyInv
<1>2. /\ hand' \in [party -> [at : Places, copy : Value, chat : BOOLEAN]]
      /\ hand'[s].at = "end" /\ \A q \in party : q # s => hand'[q] = hand[q]
  BY <1>1 DEF NotifyInv, NotifyTypes, Move, Places
<1>3. /\ slips \in [Phases -> Nat] /\ inbox \in [Phases -> Nat] /\ slips' \in [Phases -> Nat]
      /\ slips'[f] = IF hand[s].at = "sent" /\ hand[s].copy.sent[f] THEN slips[f] + 1 ELSE slips[f]
      /\ \A g \in Phases : g # f => slips'[g] = slips[g]
  BY <1>1 DEF NotifyInv, NotifyTypes
<1>4. NotifyTypes'
  BY <1>1, <1>2, <1>3 DEF NotifyInv, NotifyTypes
<1>5. ASSUME NEW g \in Phases, g # f PROVE Count(g)'
  <2>1. Backed(g)
    BY <1>1, <1>3, <1>5 DEF Backed
  <2> QED BY <1>1, <1>2, <1>4, <1>5, <2>1, OtherPhase
<1>6. Count(f)'
  <2>1. CASE hand[s].at = "send"
    BY <1>1, <1>2, <1>3, <1>4, <2>1, LeaveCount
  <2>2. CASE hand[s].at # "send"
    <3>1. Sending(f)' = Sending(f) /\ \A q \in Ours(f) : q # s /\ Marking(q) => Marking(q)'
      BY <1>1, <1>2, <2>2 DEF Sending, Ours, Marking
    <3>2. CASE ~Marking(s)
      <4>1. Backed(f)
        BY <1>1, <1>3 DEF Backed
      <4> QED BY <1>1, <1>4, <3>1, <3>2, <4>1, UntouchedCount
    <3>3. CASE Marking(s)
      <4>1. slips'[f] = slips[f] + 1
        BY <1>3, <3>3 DEF Marking
      <4>2. /\ inbox[f] \in Nat /\ slips[f] \in Nat /\ Cardinality(Sending(f)) \in Nat
            /\ inbox[f] + Cardinality(Sending(f)) <= slips[f] + 1
        BY <1>1, SendingFinite DEF NotifyInv, NotifyTypes, Count
      <4> QED BY <1>1, <3>1, <4>1, <4>2 DEF Count
    <3> QED BY <3>2, <3>3
  <2> QED BY <2>1, <2>2
<1> QED BY <1>4, <1>5, <1>6 DEF NotifyInv

\* Every step.
LEMMA NotifyStep == NotifyInv /\ [NotifyNext]_notifyVars => NotifyInv'
<1> SUFFICES ASSUME NotifyInv, [NotifyNext]_notifyVars PROVE NotifyInv'
  OBVIOUS
<1>1. ASSUME UNCHANGED <<party, notify, chat, hand, inbox, slips>> PROVE NotifyInv'
  BY <1>1 DEF NotifyInv, NotifyTypes, Count, Credited, Sending, Ours, Marking
<1>2. CASE Fill \/ UNCHANGED notifyVars
  BY <1>1, <1>2 DEF Fill, notifyVars
<1>3. ASSUME NEW s \in party \intersect Delivery, Snapshot(s) \/ Choose(s) PROVE NotifyInv'
  BY <1>3, IdleKeeps DEF Snapshot, Choose, Places
<1>4. ASSUME NEW s \in party \intersect Delivery,
             LookAtMark(s) \/ SendStatus(s) \/ CommitStatus(s) \/ Lost(s)
      PROVE  NotifyInv'
  BY <1>4, LookKeeps, SendKeeps, CommitKeeps, LostKeeps
<1> QED BY <1>2, <1>3, <1>4, OthersKeep DEF NotifyNext

\* For any number of deliveries, requests and logging sessions, in any order, with workers
\* lost and answers lost: every message of a phase beyond the first has a cause of its own.
THEOREM StatusToldOnce == NotifySpec => []ToldOnce
<1>1. NotifyInit => NotifyInv
  <2> SUFFICES ASSUME NotifyInit PROVE NotifyInv
    OBVIOUS
  <2>1. Unset \in Value /\ \A on, daily \in BOOLEAN : [Unset EXCEPT !.on = on, !.daily = daily] \in Value
    BY DEF Unset, Value
  <2>2. NotifyTypes
    <3>1. IsFiniteSet(party)
      <4>1. party \in Parties
        BY DEF NotifyInit
      <4>2. \A p \in Parties : IsFiniteSet(p)
        BY NotifyAssumption DEF NotifyAssumption
      <4> QED BY <4>1, <4>2
    <3>2. notify \in Value /\ chat \in BOOLEAN
      <4>1. PICK on, daily \in BOOLEAN : notify = [Unset EXCEPT !.on = on, !.daily = daily]
        BY DEF NotifyInit
      <4>2. chat \in BOOLEAN
        BY DEF NotifyInit
      <4> QED BY <2>1, <4>1, <4>2
    <3>3. Waiting \in [at : Places, copy : Value, chat : BOOLEAN]
      <4>1. Waiting = [at |-> "new", copy |-> Unset, chat |-> FALSE] /\ "new" \in Places
        BY DEF Waiting, Places
      <4> QED BY <2>1, <4>1
    <3>4. hand \in [party -> [at : Places, copy : Value, chat : BOOLEAN]]
      BY <3>3 DEF NotifyInit
    <3>5. inbox \in [Phases -> Nat] /\ slips \in [Phases -> Nat]
      BY DEF NotifyInit
    <3> QED BY <3>1, <3>2, <3>4, <3>5 DEF NotifyTypes
  <2>3. ASSUME NEW f \in Phases PROVE Count(f)
    <3>1. Sending(f) = {}
      BY DEF NotifyInit, Sending, Ours, Waiting
    <3>2. Cardinality(Sending(f)) = 0
      BY <3>1, FS_EmptySet
    <3>3. inbox[f] = 0 /\ slips[f] = 0
      BY DEF NotifyInit
    <3> QED BY <3>2, <3>3 DEF Count
  <2> QED BY <2>2, <2>3 DEF NotifyInv
<1>2. NotifyInv => ToldOnce
  <2> SUFFICES ASSUME NotifyInv, NEW f \in Phases PROVE inbox[f] <= 1 + slips[f]
    BY DEF ToldOnce
  <2>1. inbox[f] \in Nat /\ slips[f] \in Nat /\ Cardinality(Sending(f)) \in Nat
    BY SendingFinite DEF NotifyInv, NotifyTypes
  <2> QED BY <2>1 DEF NotifyInv, Count
<1> QED BY <1>1, <1>2, NotifyStep, PTL DEF NotifySpec

-----------------------------------------------------------------------------
(* What has moved the cash, and what a check holds of it. *)

\* No two sets of executions differ by what moves outside of them: a ledger whose cash is
\* that of the check is the ledger of the check.
TellingSums ==
    \A A, B \in SUBSET Deals : \A x, y \in 0 .. Drift :
        Sum2(A) + x = Sum2(B) + y => x = y

\* What is stored and held: a check, the params, a balance, a session.
CheckRec == [ledger : Int, diff : Int, complete : BOOLEAN, outside : Int]
ParamsRec == [choice : Int, paused : BOOLEAN, check : CheckRec]
BalanceRec == [cash : Int, deals : SUBSET Deals, outside : Int]
SessRec == [at : {"idle", "import", "orders", "cash", "compare", "align", "choose"},
            copy : ParamsRec, fresh : BOOLEAN, bal : BalanceRec]

\* A check of complete books: it found what was moved outside less what was corrected.
Exact(c) ==
    TellingSums /\ c.complete => /\ c.outside \in 0 .. Drift
                  /\ \E B \in SUBSET Deals, a \in 0 .. Drift :
                        c.ledger = Sum2(B) + a /\ c.diff = c.outside - a
\* A balance as the broker reported it.
Reported(b) == b.outside \in 0 .. Drift /\ b.cash = Sum2(b.deals) + b.outside

\* A session: what it loaded is what is stored unless another has written meanwhile.
Sound(q, p) ==
    /\ q \in SessRec /\ Exact(q.copy.check)
    /\ q.at = "compare" => Reported(q.bal)
    /\ q.at = "align" => q.copy.check.ledger = q.bal.cash
    /\ q.at # "idle" /\ q.fresh => q.copy = p

\* Types; the corrections so far make up what the last one knew of; every stored, loaded
\* or reported figure is the one of its moment.
CashInv ==
    /\ done \subseteq Deals /\ booked \subseteq Deals /\ outside \in 0 .. Drift
    /\ aligned \in Int /\ hasty \in BOOLEAN /\ (TellingSums /\ ~hasty => aligned = known /\ known \in 0 .. Drift)
    /\ params \in ParamsRec /\ Exact(params.check)
    /\ DOMAIN sess = Users \cup {Task} /\ \A s \in Users \cup {Task} : Sound(sess[s], params)

\* A sum of executions.
LEMMA SumOfDeals == ASSUME NEW S \in SUBSET Deals PROVE Sum2(S) \in Int
<1> DEFINE F == [x \in S |-> x.amount]
           P(g) == g = [s \in SUBSET S |-> IF s = {} THEN 0 ELSE LET x == CHOOSE x \in s : TRUE
                            IN x.amount + g[s \ {x}]]
<1>1. Sum2(S) = (CHOOSE g : P(g))[S]
  BY DEF Sum2, MapThenSumSet, MapThenFoldSet
<1>2. ASSUME NEW g PROVE P(g) <=> Iterates(g, F, S)
  <2>1. ASSUME NEW s \in SUBSET S, s # {}
        PROVE LET x == CHOOSE x \in s : TRUE IN F[x] = x.amount
    BY <2>1
  <2> QED BY <2>1 DEF Iterates, SumFrom
<1>3. (CHOOSE g : P(g)) = (CHOOSE g : Iterates(g, F, S))
  <2> HIDE DEF P, F
  <2> QED BY <1>2, Zenon
<1>4. Sum2(S) = SumOver(F, S)
  <2> HIDE DEF P, F
  <2> QED BY <1>1, <1>3, SumIsIterated
<1>5. IsFiniteSet(S) /\ Integral(F, S)
  BY CashAssumption, FS_Subset DEF CashAssumption, Integral
<1> HIDE DEF F
<1> QED BY <1>4, <1>5, SumInteger

\* The constants.
LEMMA CashIs == Drift \in Nat /\ Task \notin Users
BY CashAssumption DEF CashAssumption

\* A check no one has made, and a session at rest.
LEMMA Rested == Fresh \in ParamsRec /\ Exact(NoCheck) /\ NoCheck \in CheckRec /\ \A p : Sound(Away, p)
<1>1. NoCheck \in CheckRec /\ Exact(NoCheck) /\ Nothing \in BalanceRec
  BY DEF NoCheck, CheckRec, Exact, Nothing, BalanceRec
<1>2. Fresh \in ParamsRec /\ Fresh.check = NoCheck
  BY <1>1 DEF Fresh, ParamsRec
<1>3. Away \in SessRec /\ Away.copy = Fresh /\ Away.at = "idle"
  BY <1>1, <1>2 DEF Away, SessRec
<1> QED BY <1>1, <1>2, <1>3 DEF Sound

\* A session that loads the row.
LEMMA Loaded ==
    ASSUME NEW p \in ParamsRec, Exact(p.check), NEW at \in {"import", "orders", "cash", "choose"}
    PROVE  Sound([Away EXCEPT !.at = at, !.copy = p], p)
<1>1. Away \in SessRec
  BY Rested DEF Sound
<1> DEFINE q == [Away EXCEPT !.at = at, !.copy = p]
<1>2. q \in SessRec /\ q.at = at /\ q.copy = p
  BY <1>1 DEF SessRec
<1>3. Sound(q, p)
  <2> HIDE DEF q
  <2> QED BY <1>2 DEF Sound
<1> QED BY <1>3

\* A session that goes on with what it has loaded.
LEMMA Passed ==
    ASSUME NEW p, NEW q, Sound(q, p), q.at # "idle",
           NEW at \in {"import", "orders", "cash", "choose"}
    PROVE  Sound([q EXCEPT !.at = at], p)
<1>1. q \in SessRec
  BY DEF Sound
<1> DEFINE n == [q EXCEPT !.at = at]
<1>2. n \in SessRec /\ n.at = at /\ n.copy = q.copy /\ n.fresh = q.fresh /\ n.bal = q.bal
  BY <1>1 DEF SessRec
<1>3. Sound(n, p)
  <2> HIDE DEF n
  <2> QED BY <1>2 DEF Sound
<1> QED BY <1>3

\* A session beside one that writes.
LEMMA LeftBehind ==
    ASSUME NEW p, NEW q, Sound(q, p), NEW n
    PROVE  Sound([q EXCEPT !.fresh = (q.at = "idle")], n)
<1>1. q \in SessRec
  BY DEF Sound
<1>2. PICK b \in BOOLEAN : b = (q.at = "idle")
  OBVIOUS
<1> DEFINE m == [q EXCEPT !.fresh = b]
<1>3. m \in SessRec /\ m.at = q.at /\ m.copy = q.copy /\ m.fresh = b /\ m.bal = q.bal
  BY <1>1 DEF SessRec
<1>4. Sound(m, n)
  <2> HIDE DEF m
  <2> QED BY <1>2, <1>3 DEF Sound
<1> QED BY <1>2, <1>4

\* A session that writes, and rests or goes on with what it wrote.
LEMMA Wrote ==
    ASSUME NEW p, NEW q, Sound(q, p), NEW n \in ParamsRec, Exact(n.check),
           NEW at \in {"idle", "import", "orders", "cash", "choose"}
    PROVE  Sound(IF at = "idle" THEN Away ELSE [q EXCEPT !.at = at, !.copy = n], n)
<1>1. q \in SessRec
  BY DEF Sound
<1> DEFINE m == [q EXCEPT !.at = at, !.copy = n]
<1>2. m \in SessRec /\ m.at = at /\ m.copy = n
  BY <1>1 DEF SessRec
<1>3. Sound(m, n)
  <2> HIDE DEF m
  <2> QED BY <1>2, Rested DEF Sound
<1> QED BY <1>3, Rested

-----------------------------------------------------------------------------
(* Steps. *)

\* A session that writes: the others are left behind.
LEMMA WriteKeeps ==
    ASSUME CashInv, NEW s \in Users \cup {Task}, NEW n \in ParamsRec, Exact(n.check),
           NEW at \in {"idle", "import", "orders", "cash", "choose"}, Write(s, n, at)
    PROVE  /\ params' = n /\ DOMAIN sess' = Users \cup {Task}
           /\ \A q \in Users \cup {Task} : Sound(sess'[q], n)
<1>1. /\ params' = n /\ DOMAIN sess' = Users \cup {Task}
      /\ \A q \in Users \cup {Task} :
            sess'[q] = IF q = s THEN (IF at = "idle" THEN Away ELSE [sess[q] EXCEPT !.at = at, !.copy = n])
                       ELSE [sess[q] EXCEPT !.fresh = (sess[q].at = "idle")]
  BY DEF Write, CashInv
<1>2. ASSUME NEW q \in Users \cup {Task} PROVE Sound(sess'[q], n)
  <2>1. Sound(sess[q], params)
    BY DEF CashInv
  <2>2. CASE q = s
    <3>1. sess'[q] = IF at = "idle" THEN Away ELSE [sess[q] EXCEPT !.at = at, !.copy = n]
      BY <1>1, <2>2
    <3>2. Sound(IF at = "idle" THEN Away ELSE [sess[q] EXCEPT !.at = at, !.copy = n], n)
      BY <2>1, Wrote
    <3> QED BY <3>1, <3>2
  <2>3. CASE q # s
    <3>1. sess'[q] = [sess[q] EXCEPT !.fresh = (sess[q].at = "idle")]
      BY <1>1, <2>3
    <3>2. Sound([sess[q] EXCEPT !.fresh = (sess[q].at = "idle")], n)
      BY <2>1, LeftBehind
    <3> QED BY <3>1, <3>2
  <2> QED BY <2>2, <2>3
<1> QED BY <1>1, <1>2

\* One session moves, and the row stays.
LEMMA MoveKeeps ==
    ASSUME CashInv, NEW s \in Users \cup {Task}, NEW n, Sound(n, params),
           sess' = [sess EXCEPT ![s] = n], params' = params
    PROVE  DOMAIN sess' = Users \cup {Task} /\ \A q \in Users \cup {Task} : Sound(sess'[q], params')
BY DEF CashInv

\* Loading, going on and rolling back are such moves.
LEMMA PartsKeep ==
    ASSUME CashInv, NEW s \in Users \cup {Task}, params' = params,
           NEW at \in {"idle", "import", "orders", "cash", "choose"},
           \/ at # "idle" /\ Load(s, at)
           \/ Pass(s, at) /\ sess[s].at # "idle"
           \/ RollBack(s, at)
    PROVE  DOMAIN sess' = Users \cup {Task} /\ \A q \in Users \cup {Task} : Sound(sess'[q], params')
<1>1. params \in ParamsRec /\ Exact(params.check) /\ Sound(sess[s], params) /\ DOMAIN sess = Users \cup {Task}
  BY DEF CashInv
<1>2. CASE sess' = [sess EXCEPT ![s] = Away]
  BY <1>2, Rested, MoveKeeps
<1>3. CASE at # "idle" /\ Load(s, at)
  <2>1. PICK n : n = [Away EXCEPT !.at = at, !.copy = params]
    OBVIOUS
  <2>2. Sound(n, params)
    BY <1>1, <1>3, <2>1, Loaded
  <2>3. sess' = [sess EXCEPT ![s] = n]
    BY <1>3, <2>1 DEF Load
  <2> QED BY <2>2, <2>3, MoveKeeps
<1>4. CASE at # "idle" /\ Pass(s, at) /\ sess[s].at # "idle"
  <2>1. PICK n : n = [sess[s] EXCEPT !.at = at]
    OBVIOUS
  <2>2. Sound(n, params)
    BY <1>1, <1>4, <2>1, Passed
  <2>3. sess' = [sess EXCEPT ![s] = n]
    BY <1>1, <1>4, <2>1 DEF Pass
  <2> QED BY <2>2, <2>3, MoveKeeps
<1> QED BY <1>2, <1>3, <1>4 DEF Pass, RollBack

\* The rest of the invariant, where a step leaves it alone.
Same == UNCHANGED <<done, booked, outside, aligned, hasty, known>>
\* A step that leaves money and books alone keeps the invariant if its sessions do.
LEMMA Gathered ==
    ASSUME CashInv, Same, params' \in ParamsRec, Exact(params'.check),
           DOMAIN sess' = Users \cup {Task}, \A q \in Users \cup {Task} : Sound(sess'[q], params')
    PROVE  CashInv'
BY DEF CashInv, Same

\* The broker's answer is the account of now.
LEMMA FetchKeeps == ASSUME CashInv, NEW s \in Users \cup {Task}, FetchBalance(s) PROVE CashInv'
<1>1. Same /\ params' = params /\ sess[s].at = "cash"
  BY DEF FetchBalance, Same
<1>2. CASE RollBack(s, "idle")
  BY <1>1, <1>2, PartsKeep, Gathered DEF CashInv
<1>3. CASE sess' = [sess EXCEPT ![s].at = "compare", ![s].bal = Asked]
  <2>1. Sound(sess[s], params) /\ sess[s] \in SessRec /\ DOMAIN sess = Users \cup {Task}
    BY DEF CashInv, Sound
  <2>2. Asked \in BalanceRec /\ Reported(Asked)
    <3>1. Sum2(done) \in Int /\ outside \in Int /\ outside \in 0 .. Drift /\ done \subseteq Deals
      BY SumOfDeals, CashIs DEF CashInv
    <3> QED BY <3>1 DEF Asked, AccountCash, BalanceRec, Reported
  <2>3. PICK b : b = Asked
    OBVIOUS
  <2>4. PICK n : n = [sess[s] EXCEPT !.at = "compare", !.bal = b]
    OBVIOUS
  <2>5. n \in SessRec /\ n.at = "compare" /\ n.bal = b /\ n.copy = sess[s].copy /\ n.fresh = sess[s].fresh
    BY <2>1, <2>2, <2>3, <2>4 DEF SessRec
  <2>6. Sound(n, params)
    BY <1>1, <2>1, <2>2, <2>3, <2>5 DEF Sound
  <2>7. sess' = [sess EXCEPT ![s] = n]
    BY <1>3, <2>1, <2>3, <2>4
  <2> QED BY <1>1, <2>6, <2>7, MoveKeeps, Gathered DEF CashInv
<1> QED BY <1>2, <1>3 DEF FetchBalance

-----------------------------------------------------------------------------
\* A comparison of complete books is exact.
LEMMA StoreKeeps ==
    ASSUME CashInv, NEW s \in Users \cup {Task}, StoreCheck(s), Explored
    PROVE  CashInv'
<1>1. Same /\ sess[s].at = "compare" /\ Write(s, [sess[s].copy EXCEPT !.check = Compared(s)], "idle")
  BY DEF StoreCheck, Same
<1>2. Sound(sess[s], params) /\ sess[s] \in SessRec /\ Reported(sess[s].bal)
  BY <1>1 DEF CashInv, Sound
<1>3. PICK b : b = sess[s].bal
  OBVIOUS
<1>4. b \in BalanceRec /\ Reported(b)
  BY <1>2, <1>3 DEF SessRec
<1>5. /\ Sum2(booked) \in Int /\ Sum2(b.deals) \in Int /\ aligned \in Int /\ booked \in SUBSET Deals
      /\ (TellingSums => aligned \in 0 .. Drift)
  BY <1>4, SumOfDeals DEF CashInv, Explored, BalanceRec
<1>6. PICK c : c = Compared(s)
  OBVIOUS
<1>7. c = [ledger |-> LedgerCash, diff |-> b.cash - LedgerCash, complete |-> (b.deals = booked), outside |-> b.outside]
  BY <1>3, <1>6 DEF Compared, Check
<1>8. LedgerCash = Sum2(booked) + aligned /\ b.cash = Sum2(b.deals) + b.outside /\ b.outside \in 0 .. Drift
  BY <1>4 DEF LedgerCash, Reported
<1>9. c \in CheckRec
  <2>1. LedgerCash \in Int /\ b.cash - LedgerCash \in Int /\ b.outside \in Int /\ (b.deals = booked) \in BOOLEAN
    BY <1>5, <1>8, CashIs
  <2> QED BY <1>7, <2>1 DEF CheckRec
<1>10. Exact(c)
  <2> SUFFICES ASSUME TellingSums, c.complete PROVE c.ledger = Sum2(booked) + aligned /\ c.diff = c.outside - aligned
    BY <1>5, <1>7, <1>8 DEF Exact
  <2>1. b.deals = booked
    BY <1>7
  <2> QED BY <1>5, <1>7, <1>8, <2>1, CashIs
<1>11. PICK n : n = [sess[s].copy EXCEPT !.check = c]
  OBVIOUS
<1>12. n \in ParamsRec /\ n.check = c
  BY <1>2, <1>9, <1>11 DEF SessRec, ParamsRec
<1>13. Write(s, n, "idle")
  BY <1>1, <1>6, <1>11
<1>14. /\ params' = n /\ DOMAIN sess' = Users \cup {Task}
       /\ \A q \in Users \cup {Task} : Sound(sess'[q], n)
  BY <1>10, <1>12, <1>13, WriteKeeps
<1> QED BY <1>1, <1>10, <1>12, <1>14, Gathered

\* A correction makes up what was moved outside, for the ledger is the one of the check.
LEMMA AlignKeeps ==
    ASSUME CashInv, NEW u \in Users, CommitAlign(u), Explored
    PROVE  CashInv'
<1>1. PICK c : c = sess[u].copy.check
  OBVIOUS
<1>2. /\ sess[u].at = "align" /\ aligned' = aligned + c.diff
      /\ hasty' = (hasty \/ ~c.complete \/ LedgerCash # sess[u].bal.cash) /\ known' = c.outside
      /\ UNCHANGED <<done, outside, booked>>
      /\ Write(u, [sess[u].copy EXCEPT !.check = [c EXCEPT !.ledger = c.ledger + c.diff, !.diff = 0]], "idle")
  BY <1>1 DEF CommitAlign
<1>3. Sound(sess[u], params) /\ sess[u] \in SessRec /\ Exact(c) /\ c \in CheckRec /\ c.ledger = sess[u].bal.cash
  BY <1>1, <1>2 DEF CashInv, Sound, SessRec, ParamsRec
<1>4. c.ledger \in Int /\ c.diff \in Int /\ c.complete \in BOOLEAN /\ c.outside \in Int
  BY <1>3 DEF CheckRec
<1>5. PICK k : k = [c EXCEPT !.ledger = c.ledger + c.diff, !.diff = 0]
  OBVIOUS
<1>6. k \in CheckRec /\ k.ledger = c.ledger + c.diff /\ k.diff = 0 /\ k.complete = c.complete /\ k.outside = c.outside
  <2>1. PICK l \in Int : l = c.ledger + c.diff
    BY <1>4
  <2>2. k = [ledger |-> l, diff |-> 0, complete |-> c.complete, outside |-> c.outside]
    BY <1>3, <1>5, <2>1 DEF CheckRec
  <2> QED BY <1>4, <2>1, <2>2 DEF CheckRec
<1>7. Exact(k)
  <2> SUFFICES ASSUME TellingSums, c.complete PROVE k.outside \in 0 .. Drift /\ \E B \in SUBSET Deals, a \in 0 .. Drift :
                                            k.ledger = Sum2(B) + a /\ k.diff = k.outside - a
    BY <1>6 DEF Exact
  <2>1. PICK B \in SUBSET Deals, a \in 0 .. Drift : c.ledger = Sum2(B) + a /\ c.diff = c.outside - a
    BY <1>3 DEF Exact
  <2>2. c.outside \in 0 .. Drift /\ Sum2(B) \in Int
    BY <1>3, SumOfDeals DEF Exact
  <2>3. k.ledger = Sum2(B) + c.outside /\ k.diff = k.outside - c.outside
    BY <1>6, <2>1, <2>2, CashIs
  <2> QED BY <1>6, <2>2, <2>3
<1>8. PICK n : n = [sess[u].copy EXCEPT !.check = k]
  OBVIOUS
<1>9. n \in ParamsRec /\ n.check = k
  BY <1>3, <1>6, <1>8 DEF SessRec, ParamsRec
<1>10. Write(u, n, "idle")
  BY <1>2, <1>5, <1>8
<1>11. /\ params' = n /\ DOMAIN sess' = Users \cup {Task}
       /\ \A q \in Users \cup {Task} : Sound(sess'[q], n)
  BY <1>7, <1>9, <1>10, WriteKeeps
<1>12. ASSUME TellingSums, ~hasty' PROVE aligned' = known' /\ known' \in 0 .. Drift
  <2>1. c.complete /\ LedgerCash = c.ledger /\ TellingSums
    BY <1>2, <1>3, <1>12
  <2>2. PICK B \in SUBSET Deals, a \in 0 .. Drift : c.ledger = Sum2(B) + a /\ c.diff = c.outside - a
    BY <1>3, <2>1 DEF Exact
  <2>3. aligned \in 0 .. Drift /\ booked \in SUBSET Deals /\ LedgerCash = Sum2(booked) + aligned
    BY <2>1 DEF CashInv, Explored, LedgerCash
  <2>4. Sum2(booked) + aligned = Sum2(B) + a
    BY <2>1, <2>2, <2>3
  <2>5. aligned = a
    BY <2>1, <2>2, <2>3, <2>4 DEF TellingSums
  <2>6. c.outside \in 0 .. Drift
    BY <1>3, <2>1 DEF Exact
  <2> QED BY <1>2, <2>2, <2>5, <2>6, CashIs
<1>13. aligned' \in Int /\ hasty' \in BOOLEAN
  BY <1>2, <1>4 DEF CashInv
<1> QED BY <1>2, <1>7, <1>9, <1>11, <1>12, <1>13 DEF CashInv

\* What is written with the check it was loaded with keeps the invariant,
LEMMA SettingKeeps ==
    ASSUME CashInv, Same, NEW s \in Users \cup {Task}, NEW n \in ParamsRec, Exact(n.check),
           NEW at \in {"idle", "cash"}, Write(s, n, at)
    PROVE  CashInv'
<1>1. /\ params' = n /\ DOMAIN sess' = Users \cup {Task}
      /\ \A q \in Users \cup {Task} : Sound(sess'[q], n)
  BY WriteKeeps
<1> QED BY <1>1, Gathered

\* which a stop or its end does,
LEMMA PausedKeeps ==
    ASSUME CashInv, Same, NEW s \in Users \cup {Task}, NEW p \in {sess[s].copy, params}, NEW b \in BOOLEAN,
           NEW at \in {"idle", "cash"}, Write(s, [p EXCEPT !.paused = b], at)
    PROVE  CashInv'
<1>1. p \in ParamsRec /\ Exact(p.check)
  BY DEF CashInv, Sound, SessRec
<1>2. [p EXCEPT !.paused = b] \in ParamsRec /\ [p EXCEPT !.paused = b].check = p.check
  BY <1>1 DEF ParamsRec
<1> QED BY <1>1, <1>2, SettingKeeps

\* and a choice.
LEMMA ChosenKeeps ==
    ASSUME CashInv, Same, NEW s \in Users \cup {Task}, NEW p \in {sess[s].copy, params}, NEW c \in Int,
           NEW at \in {"idle", "cash"}, Write(s, [p EXCEPT !.choice = c], at)
    PROVE  CashInv'
<1>1. p \in ParamsRec /\ Exact(p.check)
  BY DEF CashInv, Sound, SessRec
<1>2. [p EXCEPT !.choice = c] \in ParamsRec /\ [p EXCEPT !.choice = c].check = p.check
  BY <1>1 DEF ParamsRec
<1> QED BY <1>1, <1>2, SettingKeeps

\* The run of the task.
LEMMA TaskKeeps ==
    ASSUME CashInv, TaskBegin \/ TaskImport \/ TaskOrders \/ TaskDies
    PROVE  CashInv'
<1>1. params \in ParamsRec /\ Exact(params.check) /\ Task \in Users \cup {Task} /\ Sound(sess[Task], params)
  BY DEF CashInv
<1>2. CASE TaskBegin
  BY <1>1, <1>2, PartsKeep, Gathered DEF TaskBegin, Same
<1>3. CASE TaskImport
  <2>1. params' = params /\ UNCHANGED <<done, outside, aligned, hasty, known>> /\ booked' \subseteq Deals
    BY <1>3 DEF TaskImport, CashInv
  <2>2. DOMAIN sess' = Users \cup {Task} /\ \A q \in Users \cup {Task} : Sound(sess'[q], params')
    BY <1>1, <1>3, <2>1, PartsKeep DEF TaskImport
  <2> QED BY <2>1, <2>2 DEF CashInv
<1>4. CASE TaskOrders
  <2>1. Same /\ sess[Task].at = "orders"
    BY <1>4 DEF TaskOrders, Same
  <2>2. CASE Write(Task, [sess[Task].copy EXCEPT !.paused = TRUE], "cash")
    <3>1. PICK p \in {sess[Task].copy, params} : p = sess[Task].copy
      OBVIOUS
    <3>2. Write(Task, [p EXCEPT !.paused = TRUE], "cash")
      BY <2>2, <3>1
    <3> QED BY <1>1, <2>1, <3>2, PausedKeeps
  <2>3. CASE (Pass(Task, "cash") \/ RollBack(Task, "cash")) /\ UNCHANGED params
    BY <1>1, <2>1, <2>3, PartsKeep, Gathered
  <2> QED BY <1>4, <2>2, <2>3 DEF TaskOrders
<1>5. CASE TaskDies
  <2>1. Same /\ params' = params /\ sess' = [sess EXCEPT ![Task] = Away]
    BY <1>5 DEF TaskDies, Same
  <2> QED BY <1>1, <2>1, Rested, MoveKeeps, Gathered
<1> QED BY <1>2, <1>3, <1>4, <1>5

\* A request of the user, but for the corrections' commit.
LEMMA RequestKeeps ==
    ASSUME CashInv, NEW u \in Users,
           BeginRefresh(u) \/ BeginAlign(u) \/ BeginChoice(u) \/ CommitChoice(u) \/ Resume(u)
    PROVE  CashInv'
<1>1. params \in ParamsRec /\ Exact(params.check) /\ u \in Users \cup {Task} /\ Sound(sess[u], params)
  BY DEF CashInv
<1>2. CASE BeginRefresh(u)
  BY <1>1, <1>2, PartsKeep, Gathered DEF BeginRefresh, Same
<1>3. CASE BeginChoice(u)
  BY <1>1, <1>3, PartsKeep, Gathered DEF BeginChoice, Same
<1>4. CASE BeginAlign(u)
  <2>1. Same /\ params' = params /\ LedgerCash = params.check.ledger
    BY <1>4 DEF BeginAlign, Same, StillTrue
  <2>2. PICK c : c = LedgerCash
    OBVIOUS
  <2>3. PICK n : n = [Away EXCEPT !.at = "align", !.copy = params, !.bal.cash = c]
    OBVIOUS
  <2>4. c \in Int
    BY <1>1, <2>1, <2>2 DEF ParamsRec, CheckRec
  <2>5. Away \in SessRec
    BY Rested DEF Sound
  <2>6. n \in SessRec /\ n.at = "align" /\ n.copy = params /\ n.bal.cash = c
    BY <1>1, <2>3, <2>4, <2>5 DEF SessRec, BalanceRec
  <2>7. Sound(n, params)
    BY <1>1, <2>1, <2>2, <2>6 DEF Sound
  <2>8. sess' = [sess EXCEPT ![u] = n]
    BY <1>4, <2>2, <2>3 DEF BeginAlign
  <2> QED BY <1>1, <2>1, <2>7, <2>8, MoveKeeps, Gathered
<1>5. CASE CommitChoice(u)
  <2>1. PICK p \in {sess[u].copy, params} : p = sess[u].copy
    OBVIOUS
  <2>2. p \in ParamsRec
    BY <1>1, <2>1 DEF Sound, SessRec
  <2>3. PICK c \in Int : c = p.choice + 1
    BY <2>2 DEF ParamsRec
  <2>4. Write(u, [p EXCEPT !.choice = c], "idle") /\ Same
    BY <1>5, <2>1, <2>3 DEF CommitChoice, Same
  <2> QED BY <1>1, <2>4, ChosenKeeps
<1>6. CASE Resume(u)
  <2>1. Write(u, [params EXCEPT !.paused = FALSE], "idle") /\ Same
    BY <1>6 DEF Resume, Same
  <2>2. PICK p \in {sess[u].copy, params} : p = params
    OBVIOUS
  <2>3. Write(u, [p EXCEPT !.paused = FALSE], "idle")
    BY <2>1, <2>2
  <2> QED BY <1>1, <2>1, <2>3, PausedKeeps
<1> QED BY <1>2, <1>3, <1>4, <1>5, <1>6

\* Every step keeps the invariant.
LEMMA CashStep == CashInv /\ [CashNext]_cashVars => CashInv'
<1> SUFFICES ASSUME CashInv, [CashNext]_cashVars PROVE CashInv'
  OBVIOUS
<1>1. CASE ImportNow \/ Deal \/ MoveCash \/ UNCHANGED cashVars
  <2>1. /\ done' \subseteq Deals /\ booked' \subseteq Deals /\ outside' \in 0 .. Drift
        /\ UNCHANGED <<aligned, hasty, known, params, sess>>
    BY <1>1, CashIs DEF ImportNow, Deal, MoveCash, cashVars, CashInv
  <2> QED BY <2>1 DEF CashInv
<1>2. CASE CashNext
  BY <1>1, <1>2, TaskKeeps, FetchKeeps, StoreKeeps, AlignKeeps, RequestKeeps DEF CashNext
<1> QED BY <1>1, <1>2

\* An empty account, nothing booked, no one at work.
LEMMA CashStart == CashInit => CashInv
<1> SUFFICES ASSUME CashInit PROVE CashInv
  OBVIOUS
<1>1. Fresh.check = NoCheck
  BY DEF Fresh
<1>2. /\ done \subseteq Deals /\ booked \subseteq Deals /\ outside \in 0 .. Drift /\ aligned \in Int
      /\ hasty = FALSE /\ aligned = known /\ known \in 0 .. Drift
  BY CashIs DEF CashInit
<1>3. params \in ParamsRec /\ Exact(params.check)
  BY <1>1, Rested DEF CashInit
<1>4. DOMAIN sess = Users \cup {Task} /\ \A s \in Users \cup {Task} : sess[s] = Away
  BY DEF CashInit
<1> QED BY <1>2, <1>3, <1>4, Rested DEF CashInv

\* Corrections add up to what was moved outside at the last check used for one, for any
\* executions and any number of sessions, as long as no sum of executions is off by what
\* may be moved: the code compares the cash of the ledger, not the ledger (cashcheck.py:175).
THEOREM CorrectionsExact == ASSUME TellingSums PROVE CashSpec => []AlignExact
<1>1. ASSUME CashInv PROVE AlignExact
  BY <1>1 DEF CashInv, AlignExact
<1>2. CashInv => AlignExact
  BY <1>1
<1> QED BY <1>2, CashStep, CashStart, PTL DEF CashSpec

\* Stops and settings are undone by the user alone or by a session that loaded the row
\* before, for any number of sessions and runs: each stage of a run goes on with what the
\* last one wrote (broker.py:974).
THEOREM SettingsKept == CashSpec => NothingUndone
<1>1. CashInv /\ [CashNext]_cashVars =>
        [(params.paused /\ ~params'.paused) \/ params'.choice < params.choice
          => \E s \in DOMAIN sess : \/ s \in Users /\ Resume(s)
                                    \/ sess[s].at # "idle" /\ ~sess[s].fresh]_cashVars
  <2> SUFFICES ASSUME CashInv, CashNext, (params.paused /\ ~params'.paused) \/ params'.choice < params.choice,
                      \A s \in Users : ~Resume(s)
               PROVE  \E s \in DOMAIN sess : sess[s].at # "idle" /\ ~sess[s].fresh
    BY DEF CashInv
  <2>1. params \in ParamsRec /\ params.choice \in Int
    BY DEF CashInv, ParamsRec
  <2>2. PICK s \in Users \cup {Task} :
           \/ StoreCheck(s) \/ CommitAlign(s) \/ CommitChoice(s)
           \/ s = Task /\ sess[s].at = "orders" /\ params' = [sess[s].copy EXCEPT !.paused = TRUE]
    <3>1. params' # params
      BY <2>1
    <3>2. ~TaskBegin /\ ~TaskImport /\ ~TaskDies /\ ~ImportNow /\ ~Deal /\ ~MoveCash
      BY <3>1 DEF TaskBegin, TaskImport, TaskDies, ImportNow, Deal, MoveCash
    <3>3. /\ \A s \in Users \cup {Task} : ~FetchBalance(s)
          /\ \A u \in Users : ~BeginRefresh(u) /\ ~BeginAlign(u) /\ ~BeginChoice(u)
      BY <3>1 DEF FetchBalance, BeginRefresh, BeginAlign, BeginChoice
    <3>4. CASE TaskOrders
      BY <3>1, <3>4 DEF TaskOrders, Write
    <3>5. CASE \E s \in Users \cup {Task} : StoreCheck(s) \/ CommitAlign(s) \/ CommitChoice(s)
      BY <3>5
    <3> QED BY <3>2, <3>3, <3>4, <3>5 DEF CashNext
  <2>3. sess[s].at # "idle" /\ Sound(sess[s], params) /\ sess[s] \in SessRec
    BY <2>2 DEF StoreCheck, CommitAlign, CommitChoice, CashInv, Sound
  <2>4. PICK p : p = sess[s].copy
    OBVIOUS
  <2>5. p \in ParamsRec /\ p.choice \in Int
    BY <2>3, <2>4 DEF SessRec, ParamsRec
  <2>6. \/ \E c : params' = [p EXCEPT !.check = c]
        \/ params' = [p EXCEPT !.choice = @ + 1]
        \/ params' = [p EXCEPT !.paused = TRUE]
    BY <2>2, <2>4 DEF StoreCheck, CommitAlign, CommitChoice, Write
  <2>7. (p.paused => params'.paused) /\ ~(params'.choice < p.choice)
    BY <2>5, <2>6 DEF ParamsRec
  <2>8. p # params
    BY <2>7
  <2>9. ~sess[s].fresh /\ s \in DOMAIN sess
    BY <2>3, <2>4, <2>8 DEF Sound, CashInv
  <2> QED BY <2>3, <2>9
<1> QED BY <1>1, CashStart, CashStep, PTL DEF CashSpec, NothingUndone

-----------------------------------------------------------------------------
(* Rows in an order. *)

\* B[t]: the members of T before t.
Ranked(T, B) ==
    /\ IsFiniteSet(T)
    /\ \A t \in T : B[t] \subseteq T /\ t \notin B[t]
    /\ \A t, u \in T : t # u => t \in B[u] \/ u \in B[t]
    /\ \A t, u \in T : t \in B[u] => B[t] \subseteq B[u]

\* The later of two has more before it.
LEMMA PlaceGrows ==
    ASSUME NEW T, NEW B, Ranked(T, B), NEW t \in T, NEW u \in T
    PROVE  /\ Cardinality(B[t]) \in Nat /\ Cardinality(B[t]) < Cardinality(T) /\ Cardinality(T) \in Nat
           /\ t \in B[u] <=> Cardinality(B[t]) < Cardinality(B[u])
           /\ Cardinality(B[t]) = Cardinality(B[u]) => t = u
<1>1. \A v \in T : IsFiniteSet(B[v]) /\ Cardinality(B[v]) \in Nat
  BY FS_Subset, FS_CardinalityType DEF Ranked
<1>2. ASSUME NEW v \in T, NEW w \in T, v \in B[w] PROVE Cardinality(B[v]) < Cardinality(B[w])
  <2>1. B[v] \subseteq B[w] /\ v \notin B[v]
    BY <1>2 DEF Ranked
  <2>2. B[v] # B[w]
    BY <1>2, <2>1
  <2>3. /\ Cardinality(B[v]) <= Cardinality(B[w])
        /\ (Cardinality(B[w]) = Cardinality(B[v]) => B[w] = B[v])
    BY <1>1, <2>1, FS_Subset
  <2> QED BY <1>1, <2>2, <2>3
<1>3. Cardinality(B[t]) < Cardinality(T) /\ Cardinality(T) \in Nat
  <2>1. B[t] \in SUBSET T /\ t \notin B[t]
    BY DEF Ranked
  <2>2. B[t] # T
    BY <2>1
  <2>3. Cardinality(B[t]) <= Cardinality(T) /\ (Cardinality(T) = Cardinality(B[t]) => T = B[t])
    BY <2>1, FS_Subset DEF Ranked
  <2>4. Cardinality(T) \in Nat
    BY FS_CardinalityType DEF Ranked
  <2> QED BY <1>1, <2>2, <2>3, <2>4
<1>4. t = u \/ t \in B[u] \/ u \in B[t]
  BY DEF Ranked
<1> QED BY <1>1, <1>2, <1>3, <1>4 DEF Ranked

\* Every place is taken.
LEMMA PlaceTaken ==
    ASSUME NEW T, NEW B, Ranked(T, B), NEW n \in 1..Cardinality(T)
    PROVE  \E t \in T : Cardinality(B[t]) = n - 1
<1>1. Cardinality(T) \in Nat /\ IsFiniteSet(T)
  BY FS_CardinalityType DEF Ranked
<1> DEFINE f == [t \in T |-> Cardinality(B[t])]
           R == 0..(Cardinality(T) - 1)
<1>2. f \in Injection(T, R)
  <2>1. \A t \in T : Cardinality(B[t]) \in R
    BY <1>1, PlaceGrows
  <2>2. \A t, u \in T : Cardinality(B[t]) = Cardinality(B[u]) => t = u
    BY PlaceGrows
  <2> QED BY <2>1, <2>2 DEF Injection, IsInjective
<1>3. IsFiniteSet(R) /\ Cardinality(R) = Cardinality(T)
  <2>1. PICK b \in Int : b = Cardinality(T) - 1
    BY <1>1
  <2>2. IsFiniteSet(0..b) /\ Cardinality(0..b) = IF 0 > b THEN 0 ELSE b - 0 + 1
    BY FS_Interval
  <2> QED BY <1>1, <2>1, <2>2
<1>4. f \in Surjection(T, R)
  <2> HIDE DEF f, R
  <2> QED BY <1>2, <1>3, FS_Injection
<1>5. n - 1 \in R
  BY <1>1
<1>6. PICK t \in T : f[t] = n - 1
  <2> HIDE DEF f, R
  <2> QED BY <1>4, <1>5 DEF Surjection
<1> QED BY <1>6

-----------------------------------------------------------------------------
(* Entries and lots. *)

RefSet == {"none", "fill", "bal"} \X Nat
EntryRec == [id : Nat, side : Sides, date : Nat, qty : Nat \ {0}, sym : Symbols, code : BOOLEAN, ref : RefSet]
LotRec == [id : Nat, date : Nat, qty : Nat \ {0}]
Apart(S) == \A x, y \in S : x.id = y.id => x = y
Entered(E) == E \subseteq EntryRec /\ IsFiniteSet(E) /\ Apart(E)
Lotted(L) == L \subseteq LotRec /\ IsFiniteSet(L) /\ Apart(L)

Before(E, e) == {x \in E : Earlier(x, e)}
Nth(E, n) == CHOOSE e \in E : Cardinality(Before(E, e)) = n - 1
FirstOf(E, n) == {e \in E : Cardinality(Before(E, e)) < n}

\* Rows have an order.
LEMMA RowsRanked ==
    ASSUME NEW E, IsFiniteSet(E), Apart(E), \A e \in E : e.id \in Int /\ e.date \in Int
    PROVE  /\ Ranked(E, [e \in E |-> Before(E, e)])
           /\ \A x, y \in E : x # y => Earlier(x, y) \/ Earlier(y, x)
           /\ \A x, y \in E : ~(Earlier(x, y) /\ Earlier(y, x))
           /\ \A x, y, z \in E : Earlier(x, y) /\ Earlier(y, z) => Earlier(x, z)
<1>1. \A x, y \in E : x # y => Earlier(x, y) \/ Earlier(y, x)
  BY DEF Earlier, Apart
<1>2. \A x, y \in E : ~(Earlier(x, y) /\ Earlier(y, x))
  BY DEF Earlier
<1>3. \A x, y, z \in E : Earlier(x, y) /\ Earlier(y, z) => Earlier(x, z)
  BY DEF Earlier
<1> DEFINE B == [e \in E |-> Before(E, e)]
<1>4. \A e \in E : B[e] = {x \in E : Earlier(x, e)}
  BY DEF Before
<1> HIDE DEF B
<1>5. Ranked(E, B)
  BY <1>1, <1>2, <1>3, <1>4 DEF Ranked
<1> QED BY <1>1, <1>2, <1>3, <1>5 DEF B

\* One after the other.
LEMMA FirstGrows ==
    ASSUME NEW E, Entered(E)
    PROVE  /\ FirstOf(E, 0) = {} /\ FirstOf(E, Cardinality(E)) = E
           /\ \A n \in 1..Cardinality(E) :
                 /\ FirstOf(E, n) = FirstOf(E, n - 1) \cup {Nth(E, n)}
                 /\ Nth(E, n) \in E \ FirstOf(E, n - 1)
                 /\ FirstOf(E, n - 1) = Before(E, Nth(E, n))
<1> DEFINE B == [e \in E |-> Before(E, e)]
<1>0. Ranked(E, B) /\ Cardinality(E) \in Nat
  <2>1. \A e \in E : e.id \in Int /\ e.date \in Int
    BY DEF Entered, EntryRec
  <2> QED BY <2>1, RowsRanked, FS_CardinalityType DEF Entered
<1>a. \A e \in E : B[e] = Before(E, e)
  OBVIOUS
<1> HIDE DEF B
<1>1. \A t \in E : Cardinality(Before(E, t)) \in Nat /\ Cardinality(Before(E, t)) < Cardinality(E)
  BY <1>0, <1>a, PlaceGrows
<1>2. FirstOf(E, 0) = {} /\ FirstOf(E, Cardinality(E)) = E
  BY <1>1 DEF FirstOf
<1>3. ASSUME NEW n \in 1..Cardinality(E)
      PROVE  /\ FirstOf(E, n) = FirstOf(E, n - 1) \cup {Nth(E, n)}
             /\ Nth(E, n) \in E \ FirstOf(E, n - 1)
             /\ FirstOf(E, n - 1) = Before(E, Nth(E, n))
  <2>0. \E t \in E : Cardinality(Before(E, t)) = n - 1
    BY <1>0, <1>a, PlaceTaken
  <2>1. Nth(E, n) \in E /\ Cardinality(Before(E, Nth(E, n))) = n - 1 /\ n \in Int
    BY <2>0 DEF Nth
  <2>2. \A t \in E : Cardinality(Before(E, t)) = n - 1 => t = Nth(E, n)
    BY <1>0, <1>a, <2>1, PlaceGrows
  <2>3. \A t \in E : Cardinality(Before(E, t)) < n <=> (Cardinality(Before(E, t)) < n - 1 \/ Cardinality(Before(E, t)) = n - 1)
    BY <1>1
  <2>4. \A t \in E : Earlier(t, Nth(E, n)) <=> Cardinality(Before(E, t)) < n - 1
    <3>1. \A t \in E : t \in B[Nth(E, n)] <=> Earlier(t, Nth(E, n))
      BY <1>a, <2>1 DEF Before
    <3> QED BY <1>0, <1>a, <2>1, <3>1, PlaceGrows
  <2>5. Nth(E, n) \notin FirstOf(E, n - 1)
    BY <2>1 DEF FirstOf
  <2>6. FirstOf(E, n - 1) = Before(E, Nth(E, n))
    BY <2>4 DEF FirstOf, Before
  <2>7. FirstOf(E, n) = FirstOf(E, n - 1) \cup {Nth(E, n)}
    BY <2>1, <2>2, <2>3 DEF FirstOf
  <2> QED BY <2>1, <2>5, <2>6, <2>7
<1> QED BY <1>2, <1>3

(* Sums over entries and lots. *)

\* The net of rows as a sum.
LEMMA NetIsSum == ASSUME NEW S PROVE NetOf(S) = SumOver([x \in S |-> Signed(x)], S)
<1> DEFINE F == [x \in S |-> Signed(x)]
           P(g) == g = [s \in SUBSET S |-> IF s = {} THEN 0 ELSE LET x == CHOOSE x \in s : TRUE
                            IN Signed(x) + g[s \ {x}]]
<1>1. NetOf(S) = (CHOOSE g : P(g))[S]
  BY DEF NetOf, MapThenSumSet, MapThenFoldSet
<1>2. ASSUME NEW g PROVE P(g) <=> Iterates(g, F, S)
  <2>1. ASSUME NEW s \in SUBSET S, s # {}
        PROVE LET x == CHOOSE x \in s : TRUE IN F[x] = Signed(x)
    BY <2>1
  <2> QED BY <2>1 DEF Iterates, SumFrom
<1>3. (CHOOSE g : P(g)) = (CHOOSE g : Iterates(g, F, S))
  <2> HIDE DEF P, F
  <2> QED BY <1>2, Zenon
<1> QED BY <1>1, <1>3, SumIsIterated

\* The shares of rows as a sum.
LEMMA QtyIsSum == ASSUME NEW S PROVE QtyOf(S) = SumOver([x \in S |-> x.qty], S)
<1> DEFINE F == [x \in S |-> x.qty]
           P(g) == g = [s \in SUBSET S |-> IF s = {} THEN 0 ELSE LET x == CHOOSE x \in s : TRUE
                            IN x.qty + g[s \ {x}]]
<1>1. QtyOf(S) = (CHOOSE g : P(g))[S]
  BY DEF QtyOf, MapThenSumSet, MapThenFoldSet
<1>2. ASSUME NEW g PROVE P(g) <=> Iterates(g, F, S)
  <2>1. ASSUME NEW s \in SUBSET S, s # {}
        PROVE LET x == CHOOSE x \in s : TRUE IN F[x] = x.qty
    BY <2>1
  <2> QED BY <2>1 DEF Iterates, SumFrom
<1>3. (CHOOSE g : P(g)) = (CHOOSE g : Iterates(g, F, S))
  <2> HIDE DEF P, F
  <2> QED BY <1>2, Zenon
<1> QED BY <1>1, <1>3, SumIsIterated

\* What they cost as a sum.
LEMMA CostIsSum == ASSUME NEW S PROVE CostOf(S) = SumOver([x \in S |-> x.qty * Price(x.date)], S)
<1> DEFINE F == [x \in S |-> x.qty * Price(x.date)]
           P(g) == g = [s \in SUBSET S |-> IF s = {} THEN 0 ELSE LET x == CHOOSE x \in s : TRUE
                            IN x.qty * Price(x.date) + g[s \ {x}]]
<1>1. CostOf(S) = (CHOOSE g : P(g))[S]
  BY DEF CostOf, MapThenSumSet, MapThenFoldSet
<1>2. ASSUME NEW g PROVE P(g) <=> Iterates(g, F, S)
  <2>1. ASSUME NEW s \in SUBSET S, s # {}
        PROVE LET x == CHOOSE x \in s : TRUE IN F[x] = x.qty * Price(x.date)
    BY <2>1
  <2> QED BY <2>1 DEF Iterates, SumFrom
<1>3. (CHOOSE g : P(g)) = (CHOOSE g : Iterates(g, F, S))
  <2> HIDE DEF P, F
  <2> QED BY <1>2, Zenon
<1> QED BY <1>1, <1>3, SumIsIterated

\* What the shares taken from lots had cost, as a sum.
LEMMA TakenIsSum == ASSUME NEW S, NEW n PROVE CostTaken(S, n) = SumOver([x \in S |-> TakenOf(S, n, x) * Price(x.date)], S)
<1> DEFINE F == [x \in S |-> TakenOf(S, n, x) * Price(x.date)]
           P(g) == g = [s \in SUBSET S |-> IF s = {} THEN 0 ELSE LET x == CHOOSE x \in s : TRUE
                            IN TakenOf(S, n, x) * Price(x.date) + g[s \ {x}]]
<1>1. CostTaken(S, n) = (CHOOSE g : P(g))[S]
  BY DEF CostTaken, MapThenSumSet, MapThenFoldSet
<1>2. ASSUME NEW g PROVE P(g) <=> Iterates(g, F, S)
  <2>1. ASSUME NEW s \in SUBSET S, s # {}
        PROVE LET x == CHOOSE x \in s : TRUE IN F[x] = TakenOf(S, n, x) * Price(x.date)
    BY <2>1
  <2> QED BY <2>1 DEF Iterates, SumFrom
<1>3. (CHOOSE g : P(g)) = (CHOOSE g : Iterates(g, F, S))
  <2> HIDE DEF P, F
  <2> QED BY <1>2, Zenon
<1> QED BY <1>1, <1>3, SumIsIterated

\* Rows that have been left some shares or none.
LeftRec == [id : Nat, date : Nat, qty : Nat]
LotQty == [l \in LeftRec |-> l.qty]
LotCost == [l \in LeftRec |-> l.qty * l.date]

\* The shares and the cost of lots, as sums of these functions.
LEMMA LotSums ==
    ASSUME NEW L, L \subseteq LeftRec, IsFiniteSet(L)
    PROVE  /\ \A l \in L : LotQty[l] \in Nat /\ LotCost[l] \in Nat
           /\ Integral(LotQty, L) /\ Integral(LotCost, L)
           /\ QtyOf(L) = SumOver(LotQty, L) /\ CostOf(L) = SumOver(LotCost, L)
           /\ QtyOf(L) \in Nat /\ CostOf(L) \in Nat
<1> DEFINE f == [x \in L |-> x.qty]
           g == [x \in L |-> x.qty * Price(x.date)]
<1>1. \A l \in L : LotQty[l] \in Nat /\ LotCost[l] \in Nat /\ f[l] = LotQty[l] /\ g[l] = LotCost[l]
  BY DEF LeftRec, LotQty, LotCost, Price
<1>2. Integral(LotQty, L) /\ Integral(LotCost, L) /\ Integral(f, L) /\ Integral(g, L)
  BY <1>1 DEF Integral
<1>3. QtyOf(L) = SumOver(f, L) /\ CostOf(L) = SumOver(g, L)
  BY QtyIsSum, CostIsSum
<1> HIDE DEF f, g
<1>4. SumOver(f, L) = SumOver(LotQty, L) /\ SumOver(g, L) = SumOver(LotCost, L)
  BY <1>1, <1>2, SumSame
<1>5. SumOver(LotQty, L) \in Nat /\ SumOver(LotCost, L) \in Nat
  BY <1>1, SumNatural
<1> QED BY <1>1, <1>2, <1>3, <1>4, <1>5

\* Of lots, one is the last.
LEMMA LastLot ==
    ASSUME NEW L, Lotted(L), NEW S \in SUBSET L, S # {}
    PROVE  \E x \in S : \A y \in S \ {x} : Earlier(y, x)
<1> DEFINE Last1(T, x) == \A y \in T \ {x} : Earlier(y, x)
           Bad == {T \in SUBSET S : T # {} /\ ~\E x \in T : Last1(T, x)}
<1> SUFFICES ASSUME Bad # {} PROVE FALSE
  OBVIOUS
<1>0. /\ \A x, y \in L : x # y => Earlier(x, y) \/ Earlier(y, x)
      /\ \A x, y, z \in L : Earlier(x, y) /\ Earlier(y, z) => Earlier(x, z)
  <2>1. \A e \in L : e.id \in Int /\ e.date \in Int
    BY DEF Lotted, LotRec
  <2> QED BY <2>1, RowsRanked DEF Lotted
<1>1. PICK T \in Bad : \A x \in T : T \ {x} \notin Bad
  <2>1. \A T \in Bad : IsFiniteSet(T)
    BY FS_Subset DEF Lotted
  <2> HIDE DEF Bad
  <2> QED BY <2>1, SmallestSet
<1>2. PICK x \in T : TRUE
  OBVIOUS
<1>3. T \ {x} # {}
  OBVIOUS
<1>4. PICK z \in T \ {x} : Last1(T \ {x}, z)
  BY <1>1, <1>2, <1>3
<1>5. CASE Earlier(x, z)
  <2>1. Last1(T, z)
    BY <1>4, <1>5
  <2> QED BY <1>4, <2>1
<1>6. CASE Earlier(z, x)
  <2>1. Last1(T, x)
    BY <1>0, <1>4, <1>6
  <2> QED BY <1>2, <2>1
<1> QED BY <1>0, <1>2, <1>4, <1>5, <1>6

-----------------------------------------------------------------------------
(* Selling, first in first out. *)

\* How many shares are taken of a lot.
LEMMA TakenIs ==
    ASSUME NEW L, Lotted(L), NEW n \in Nat, NEW l \in L
    PROVE  LET before == QtyOf(Before(L, l))
           IN  /\ before \in Nat
               /\ TakenOf(L, n, l) = IF n <= before THEN 0 ELSE IF l.qty <= n - before THEN l.qty ELSE n - before
               /\ TakenOf(L, n, l) \in 0..l.qty
<1> DEFINE before == QtyOf(Before(L, l))
<1>1. l.qty \in Nat
  BY DEF Lotted, LotRec
<1>2. before \in Nat
  <2>1. Before(L, l) \subseteq LeftRec /\ IsFiniteSet(Before(L, l))
    BY FS_Subset DEF Before, Lotted, LotRec, LeftRec
  <2> QED BY <2>1, LotSums
<1>3. TakenOf(L, n, l) = Most(0, Least(l.qty, n - before))
  BY DEF TakenOf, Before
<1> HIDE DEF before
<1>4. TakenOf(L, n, l) = IF n <= before THEN 0 ELSE IF l.qty <= n - before THEN l.qty ELSE n - before
  BY <1>1, <1>2, <1>3 DEF Most, Least
<1>5. TakenOf(L, n, l) \in 0..l.qty
  BY <1>1, <1>2, <1>4
<1> QED BY <1>2, <1>4, <1>5 DEF before

\* As many shares are taken as are sold, or all there are.
LEMMA AllTaken ==
    ASSUME NEW L, Lotted(L), NEW n \in Nat
    PROVE  SumOver([l \in L |-> TakenOf(L, n, l)], L) = IF n <= QtyOf(L) THEN n ELSE QtyOf(L)
<1> DEFINE taken == [l \in L |-> TakenOf(L, n, l)]
           whole(S) == \A l \in S, m \in L : Earlier(m, l) => m \in S
           Bad == {S \in SUBSET L : whole(S) /\ SumOver(taken, S) # IF n <= QtyOf(S) THEN n ELSE QtyOf(S)}
<1> SUFFICES ASSUME Bad # {} PROVE FALSE
  OBVIOUS
<1>0. /\ \A x, y \in L : ~(Earlier(x, y) /\ Earlier(y, x))
      /\ \A x \in L : x \in LotRec /\ x \in LeftRec
  <2>1. \A e \in L : e.id \in Int /\ e.date \in Int
    BY DEF Lotted, LotRec
  <2> QED BY <2>1, RowsRanked DEF Lotted, LotRec, LeftRec
<1>a. \A T \in SUBSET L : IsFiniteSet(T) /\ T \subseteq LeftRec
  BY <1>0, FS_Subset DEF Lotted
<1>1. PICK T \in Bad : \A x \in T : T \ {x} \notin Bad
  <2>1. \A T \in Bad : IsFiniteSet(T)
    BY <1>a
  <2> HIDE DEF Bad
  <2> QED BY <2>1, SmallestSet
<1>2. T # {}
  <2>1. QtyOf({}) = 0
    BY QtyIsSum, SumEmpty
  <2> QED BY <1>1, <2>1, SumEmpty
<1>3. PICK x \in T : \A y \in T \ {x} : Earlier(y, x)
  BY <1>1, <1>2, LastLot
<1>4. T \ {x} = Before(L, x)
  <2>1. \A m \in L : Earlier(m, x) => m \in T
    BY <1>1
  <2>2. ~Earlier(x, x)
    BY <1>0, <1>1
  <2> QED BY <1>1, <1>3, <2>1, <2>2 DEF Before
<1>5. whole(T \ {x})
  <2> SUFFICES ASSUME NEW l \in T \ {x}, NEW m \in L, Earlier(m, l) PROVE m \in T \ {x}
    OBVIOUS
  <2>1. m \in T
    BY <1>1
  <2>2. m # x
    BY <1>0, <1>1, <1>3
  <2> QED BY <2>1, <2>2
<1>6. SumOver(taken, T \ {x}) = IF n <= QtyOf(T \ {x}) THEN n ELSE QtyOf(T \ {x})
  BY <1>1, <1>5
<1>7. Integral(taken, T) /\ x \in L /\ x.qty \in Nat /\ x \in LeftRec
  <2>1. \A l \in L : taken[l] \in 0..l.qty /\ l.qty \in Nat
    BY <1>0, TakenIs DEF LotRec
  <2> HIDE DEF taken
  <2> QED BY <1>0, <1>1, <2>1 DEF Integral
<1>8. SumOver(taken, T) = taken[x] + SumOver(taken, T \ {x})
  BY <1>7, <1>1, <1>a, SumTaken
<1>9. QtyOf(T) = x.qty + QtyOf(T \ {x})
  <2>1. IsFiniteSet(T \ {x}) /\ T \ {x} \subseteq LeftRec
    BY <1>1, <1>a, FS_RemoveElement
  <2>2. SumOver(LotQty, T) = LotQty[x] + SumOver(LotQty, T \ {x})
    BY <1>1, <1>a, LotSums, SumTaken
  <2> QED BY <1>1, <1>7, <1>a, <2>1, <2>2, LotSums DEF LotQty
<1>10. taken[x] = LET before == QtyOf(T \ {x})
                  IN  IF n <= before THEN 0 ELSE IF x.qty <= n - before THEN x.qty ELSE n - before
  BY <1>4, <1>7, TakenIs
<1>11. QtyOf(T \ {x}) \in Nat
  BY <1>1, <1>a, LotSums, FS_RemoveElement
<1>12. SumOver(taken, T) # IF n <= QtyOf(T) THEN n ELSE QtyOf(T)
  BY <1>1
<1> HIDE DEF taken, Bad
<1> QED BY <1>6, <1>7, <1>8, <1>9, <1>10, <1>11, <1>12

\* What is left of a lot.
LeftOf(L, n) == [l \in L |-> [l EXCEPT !.qty = @ - TakenOf(L, n, l)]]

\* It is the same lot with fewer shares.
LEMMA LeftIs ==
    ASSUME NEW L, Lotted(L), NEW n \in Nat, NEW l \in L
    PROVE  LET m == LeftOf(L, n)[l]
           IN  /\ l \in LotRec /\ l.qty \in Nat /\ l.date \in Nat /\ TakenOf(L, n, l) \in 0..l.qty
               /\ m \in LeftRec /\ m.qty = l.qty - TakenOf(L, n, l) /\ m.id = l.id /\ m.date = l.date
<1>1. l \in LotRec /\ l.qty \in Nat /\ l.date \in Nat /\ TakenOf(L, n, l) \in 0..l.qty
  BY TakenIs DEF Lotted, LotRec
<1>2. PICK t \in 0..l.qty : t = TakenOf(L, n, l)
  BY <1>1
<1>3. LeftOf(L, n)[l] = [l EXCEPT !.qty = @ - t]
  BY <1>2 DEF LeftOf
<1>4. l.qty - t \in Nat
  BY <1>1, <1>2
<1>5. /\ [l EXCEPT !.qty = @ - t] \in LeftRec /\ [l EXCEPT !.qty = @ - t].qty = l.qty - t
      /\ [l EXCEPT !.qty = @ - t].id = l.id /\ [l EXCEPT !.qty = @ - t].date = l.date
  BY <1>1, <1>4 DEF LotRec, LeftRec
<1> QED BY <1>1, <1>2, <1>3, <1>5

\* What a sale leaves: lots of the same purchases, with as many shares and as much cost
\* less as it took.
LEMMA ConsumedIs ==
    ASSUME NEW L, Lotted(L), NEW n \in Nat
    PROVE  /\ Lotted(Consumed(L, n))
           /\ \A l \in Consumed(L, n) : \E m \in L : m.id = l.id
           /\ CostTaken(L, n) \in Nat
           /\ QtyOf(Consumed(L, n)) = QtyOf(L) - (IF n <= QtyOf(L) THEN n ELSE QtyOf(L))
           /\ CostOf(L) = CostTaken(L, n) + CostOf(Consumed(L, n))
<1> DEFINE m == LeftOf(L, n)
           taken == [l \in L |-> TakenOf(L, n, l)]
           paid == [l \in L |-> TakenOf(L, n, l) * Price(l.date)]
           R == Consumed(L, n)
           I == {m[l] : l \in L}
           hq == [l \in L |-> LotQty[m[l]]]
           hc == [l \in L |-> LotCost[m[l]]]
<1>0. IsFiniteSet(L) /\ L \subseteq LotRec /\ L \subseteq LeftRec
  BY DEF Lotted, LotRec, LeftRec
<1>1. \A l \in L : /\ taken[l] \in 0..l.qty /\ l.qty \in Nat /\ l.date \in Nat /\ l \in LeftRec
                   /\ m[l] \in LeftRec /\ m[l].qty = l.qty - taken[l]
                   /\ m[l].id = l.id /\ m[l].date = l.date /\ paid[l] = taken[l] * l.date
  BY <1>0, LeftIs DEF Price
<1>a. R = {l \in I : l.qty > 0}
  BY DEF Consumed, LeftOf
<1> HIDE DEF m, taken, paid
<1>2. \A k, l \in L : m[k] = m[l] => k = l
  BY <1>1 DEF Lotted, Apart
<1>3. I \subseteq LeftRec /\ IsFiniteSet(I) /\ R \subseteq I /\ Apart(I)
  <2>1. IsFiniteSet(I)
    BY <1>0, ImageFinite
  <2>2. Apart(I)
    BY <1>1 DEF Lotted, Apart
  <2> QED BY <1>1, <1>a, <2>1, <2>2
<1>4. Lotted(R) /\ \A l \in R : \E k \in L : k.id = l.id
  <2>1. IsFiniteSet(R)
    BY <1>3, FS_Subset
  <2>2. \A l \in R : l.qty > 0 /\ l \in I /\ \E k \in L : l = m[k]
    BY <1>a
  <2>3. \A l \in R : l \in LotRec
    BY <1>3, <2>2 DEF LeftRec, LotRec
  <2> QED BY <1>1, <1>3, <2>1, <2>2, <2>3 DEF Lotted, Apart
<1>5. /\ Integral(taken, L) /\ Integral(paid, L) /\ Integral(hq, L) /\ Integral(hc, L)
      /\ \A l \in L : paid[l] \in Nat
  <2>1. \A l \in L : taken[l] * l.date \in Nat
    BY <1>1
  <2>2. \A l \in L : LotQty[m[l]] \in Nat /\ LotCost[m[l]] \in Nat
    BY <1>1, <1>3, LotSums
  <2> QED BY <1>1, <2>1, <2>2 DEF Integral
<1>6. SumOver(paid, L) \in Nat /\ SumOver(taken, L) \in Int
  BY <1>0, <1>5, SumNatural, SumInteger
<1>7. SumOver(LotQty, R) = SumOver(LotQty, I) /\ SumOver(LotCost, R) = SumOver(LotCost, I)
  <2>1. \A l \in I \ R : LotQty[l] = 0 /\ LotCost[l] = 0
    <3>1. \A l \in I \ R : l \in LeftRec /\ l.qty = 0 /\ l.date \in Nat
      BY <1>3, <1>a DEF LeftRec
    <3>2. \A l \in I \ R : l.qty * l.date = 0
      BY <3>1
    <3> QED BY <3>1, <3>2 DEF LotQty, LotCost
  <2>2. Integral(LotQty, R) /\ Integral(LotCost, R)
    BY <1>3, LotSums, FS_Subset
  <2> HIDE DEF I, R
  <2> QED BY <1>3, <2>1, <2>2, SumSupport
<1>8. SumOver(LotQty, I) = SumOver(hq, L) /\ SumOver(LotCost, I) = SumOver(hc, L)
  <2>1. \A l \in L : LotQty[m[l]] \in Int /\ LotCost[m[l]] \in Int
    BY <1>5 DEF Integral
  <2> QED BY <1>0, <1>2, <2>1, SumImage
<1>9. SumOver(LotQty, L) = SumOver(hq, L) + SumOver(taken, L)
  <2>1. \A l \in L : LotQty[l] = hq[l] + taken[l]
    BY <1>1 DEF LotQty
  <2> HIDE DEF hq
  <2> QED BY <1>0, <1>5, <2>1, SumPlus
<1>10. SumOver(LotCost, L) = SumOver(hc, L) + SumOver(paid, L)
  <2>1. \A l \in L : LotCost[l] = hc[l] + paid[l]
    <3>1. \A l \in L : hc[l] = (l.qty - taken[l]) * l.date /\ paid[l] = taken[l] * l.date /\ LotCost[l] = l.qty * l.date
      BY <1>1 DEF LotCost
    <3>2. \A a, b, c \in Int : a * c = (a - b) * c + b * c
      OBVIOUS
    <3>3. \A l \in L : l.qty \in Int /\ taken[l] \in Int /\ l.date \in Int
      BY <1>1
    <3> HIDE DEF hc
    <3> QED BY <3>1, <3>2, <3>3
  <2> HIDE DEF hc
  <2> QED BY <1>0, <1>5, <2>1, SumPlus
<1>11. SumOver(hq, L) \in Int /\ SumOver(hc, L) \in Int
  BY <1>0, <1>5, SumInteger
<1>12. /\ QtyOf(R) = SumOver(LotQty, R) /\ QtyOf(L) = SumOver(LotQty, L)
       /\ CostOf(R) = SumOver(LotCost, R) /\ CostOf(L) = SumOver(LotCost, L)
  <2>1. IsFiniteSet(R) /\ R \subseteq LeftRec
    BY <1>3, FS_Subset
  <2> QED BY <1>0, <2>1, LotSums
<1>13. CostTaken(L, n) = SumOver(paid, L) /\ SumOver(taken, L) = IF n <= QtyOf(L) THEN n ELSE QtyOf(L)
  BY TakenIsSum, AllTaken DEF paid, taken
<1> HIDE DEF R, I, hq, hc
<1>14. QtyOf(R) = QtyOf(L) - SumOver(taken, L) /\ CostOf(L) = SumOver(paid, L) + CostOf(R)
  BY <1>6, <1>7, <1>8, <1>9, <1>10, <1>11, <1>12
<1> QED BY <1>4, <1>6, <1>13, <1>14 DEF R

\* A lot added to others.
LEMMA LotAdds ==
    ASSUME NEW L, Lotted(L), NEW l \in LotRec, \A m \in L : m.id # l.id
    PROVE  /\ Lotted(L \cup {l}) /\ QtyOf(L \cup {l}) = l.qty + QtyOf(L)
           /\ CostOf(L \cup {l}) = l.qty * l.date + CostOf(L)
<1>1. IsFiniteSet(L) /\ IsFiniteSet(L \cup {l}) /\ l \notin L
  BY FS_AddElement DEF Lotted
<1>2. L \subseteq LeftRec /\ L \cup {l} \subseteq LeftRec /\ l \in LeftRec
  BY DEF Lotted, LotRec, LeftRec
<1>3. Integral(LotQty, L \cup {l}) /\ Integral(LotCost, L \cup {l})
  BY <1>1, <1>2, LotSums
<1>4. /\ SumOver(LotQty, L \cup {l}) = LotQty[l] + SumOver(LotQty, L)
      /\ SumOver(LotCost, L \cup {l}) = LotCost[l] + SumOver(LotCost, L)
  BY <1>1, <1>3, SumAdded
<1>5. LotQty[l] = l.qty /\ LotCost[l] = l.qty * l.date
  BY <1>2 DEF LotQty, LotCost
<1>6. Lotted(L \cup {l})
  BY <1>1 DEF Lotted, Apart
<1> QED BY <1>1, <1>2, <1>4, <1>5, <1>6, LotSums

BuysOf(E) == {e \in E : e.side = "buy"}
SignedOf == [e \in EntryRec |-> Signed(e)]

\* The net of entries as a sum.
LEMMA NetSums ==
    ASSUME NEW E, E \subseteq EntryRec, IsFiniteSet(E)
    PROVE  /\ \A e \in E : SignedOf[e] = Signed(e) /\ Signed(e) \in Int
           /\ Integral(SignedOf, E) /\ NetOf(E) = SumOver(SignedOf, E) /\ NetOf(E) \in Int
<1> DEFINE f == [x \in E |-> Signed(x)]
<1>1. \A e \in E : SignedOf[e] = Signed(e) /\ Signed(e) \in Int /\ f[e] = SignedOf[e]
  BY DEF EntryRec, SignedOf, Signed
<1>2. Integral(SignedOf, E) /\ Integral(f, E)
  BY <1>1 DEF Integral
<1>3. NetOf(E) = SumOver(f, E)
  BY NetIsSum
<1> HIDE DEF f
<1>4. SumOver(f, E) = SumOver(SignedOf, E) /\ SumOver(SignedOf, E) \in Int
  BY <1>1, <1>2, SumSame, SumInteger
<1> QED BY <1>1, <1>2, <1>3, <1>4

\* An entry added to others.
LEMMA EntryAdds ==
    ASSUME NEW P, P \subseteq EntryRec, IsFiniteSet(P), NEW e \in EntryRec, e \notin P
    PROVE  /\ NetOf(P \cup {e}) = Signed(e) + NetOf(P) /\ NetOf(P) \in Int
           /\ CostOf(BuysOf(P)) \in Int
           /\ e.side = "buy" => CostOf(BuysOf(P \cup {e})) = e.qty * e.date + CostOf(BuysOf(P))
           /\ e.side = "sell" => CostOf(BuysOf(P \cup {e})) = CostOf(BuysOf(P))
<1>1. IsFiniteSet(P \cup {e}) /\ P \cup {e} \subseteq EntryRec
  BY FS_AddElement
<1>2. NetOf(P \cup {e}) = Signed(e) + NetOf(P) /\ NetOf(P) \in Int
  <2>1. SumOver(SignedOf, P \cup {e}) = SignedOf[e] + SumOver(SignedOf, P)
    BY <1>1, NetSums, SumAdded
  <2> QED BY <1>1, <2>1, NetSums
<1> DEFINE c == [x \in EntryRec |-> x.qty * Price(x.date)]
<1>3. ASSUME NEW S, S \subseteq EntryRec, IsFiniteSet(S)
      PROVE  Integral(c, S) /\ CostOf(S) = SumOver(c, S) /\ SumOver(c, S) \in Int
  <2> DEFINE g == [x \in S |-> x.qty * Price(x.date)]
  <2>1. \A x \in S : c[x] \in Nat /\ g[x] = c[x]
    BY <1>3 DEF EntryRec, Price
  <2>3. CostOf(S) = SumOver(g, S)
    BY CostIsSum
  <2> HIDE DEF g, c
  <2>2. Integral(c, S) /\ Integral(g, S)
    BY <2>1 DEF Integral
  <2> QED BY <1>3, <2>1, <2>2, <2>3, SumSame, SumInteger
<1>4. c[e] = e.qty * e.date
  BY DEF Price
<1> HIDE DEF c
<1>5. IsFiniteSet(BuysOf(P)) /\ BuysOf(P) \subseteq EntryRec /\ e \notin BuysOf(P)
  BY FS_Subset DEF BuysOf
<1>6. CostOf(BuysOf(P)) \in Int
  BY <1>3, <1>5
<1>7. ASSUME e.side = "buy" PROVE CostOf(BuysOf(P \cup {e})) = e.qty * e.date + CostOf(BuysOf(P))
  <2>1. BuysOf(P \cup {e}) = BuysOf(P) \cup {e}
    BY <1>7 DEF BuysOf
  <2>2. IsFiniteSet(BuysOf(P) \cup {e}) /\ BuysOf(P) \cup {e} \subseteq EntryRec
    BY <1>5, FS_AddElement
  <2>3. SumOver(c, BuysOf(P) \cup {e}) = c[e] + SumOver(c, BuysOf(P))
    BY <1>3, <1>5, <2>2, SumAdded
  <2> QED BY <1>3, <1>4, <1>5, <2>1, <2>2, <2>3
<1>8. ASSUME e.side = "sell" PROVE CostOf(BuysOf(P \cup {e})) = CostOf(BuysOf(P))
  <2>1. BuysOf(P \cup {e}) = BuysOf(P)
    BY <1>8 DEF BuysOf
  <2> QED BY <2>1
<1> QED BY <1>2, <1>6, <1>7, <1>8

(* The books: entries folded in their order. *)

Fold(how, r, e) == IF how = "book" THEN Booked(r, e) ELSE Applied(r, e)
RunOf(f, how, start, E) ==
    f = [n \in 0..Cardinality(E) |-> IF n = 0 THEN start ELSE Fold(how, f[n - 1], Nth(E, n))]
Chain(f, how, start, item, N) ==
    f = [n \in 0..N |-> IF n = 0 THEN start ELSE Fold(how, f[n - 1], item[n])]

\* A fold has a value.
LEMMA ChainExists ==
    ASSUME NEW N \in Nat, NEW how, NEW start, NEW item
    PROVE  \E f : Chain(f, how, start, item, N)
<1> DEFINE Upto1(f, m) == f[0] = start /\ \A n \in 1..m : f[n] = Fold(how, f[n - 1], item[n])
           Bad == {m \in Nat : ~\E f : Upto1(f, m)}
<1>1. Bad = {}
  <2> SUFFICES ASSUME Bad # {} PROVE FALSE
    OBVIOUS
  <2>1. PICK m \in Bad : \A k \in Bad : m <= k
    <3>1. Bad \subseteq Nat
      OBVIOUS
    <3> HIDE DEF Bad
    <3> QED BY <3>1, LeastNumber
  <2>2. CASE m = 0
    <3>1. Upto1([n \in {0} |-> start], 0)
      OBVIOUS
    <3> QED BY <2>1, <2>2, <3>1
  <2>3. CASE m # 0
    <3>1. m - 1 \in Nat /\ m - 1 \notin Bad /\ m \in Nat
      BY <2>1, <2>3
    <3>2. PICK h : Upto1(h, m - 1)
      BY <3>1
    <3> DEFINE g == [n \in 0..m |-> IF n = m THEN Fold(how, h[m - 1], item[m]) ELSE h[n]]
    <3>3. g[0] = start
      BY <2>3, <3>1, <3>2
    <3>4. ASSUME NEW n \in 1..m PROVE g[n] = Fold(how, g[n - 1], item[n])
      <4>1. n - 1 \in 0..m /\ n - 1 # m /\ n \in 0..m
        BY <3>1
      <4>2. g[n - 1] = h[n - 1]
        BY <4>1
      <4>3. CASE n = m
        BY <4>1, <4>2, <4>3
      <4>4. CASE n # m
        <5>1. n \in 1..(m - 1)
          BY <4>4, <3>1
        <5>2. h[n] = Fold(how, h[n - 1], item[n])
          BY <5>1, <3>2
        <5> QED BY <4>1, <4>2, <4>4, <5>2
      <4> QED BY <4>3, <4>4
    <3>5. Upto1(g, m)
      <4> HIDE DEF g
      <4> QED BY <3>3, <3>4
    <3> QED BY <2>1, <3>5
  <2> QED BY <2>2, <2>3
<1>2. PICK f : Upto1(f, N)
  BY <1>1
<1> DEFINE g == [n \in 0..N |-> f[n]]
<1>3. ASSUME NEW n \in 0..N
      PROVE  g[n] = IF n = 0 THEN start ELSE Fold(how, g[n - 1], item[n])
  <2>1. n # 0 => n \in 1..N /\ n - 1 \in 0..N
    OBVIOUS
  <2> QED BY <1>2, <2>1
<1>4. Chain(g, how, start, item, N)
  BY <1>3 DEF Chain
<1> QED BY <1>4

\* Whatever is folded over a finite set has a run: the states after each step.
LEMMA RunExists ==
    ASSUME NEW E, IsFiniteSet(E), NEW how, NEW start
    PROVE  \E f : RunOf(f, how, start, E)
<1> DEFINE N == Cardinality(E)
           item == [n \in 1..N |-> Nth(E, n)]
<1>1. N \in Nat
  BY FS_CardinalityType
<1> HIDE DEF N
<1>2. PICK f : Chain(f, how, start, item, N)
  BY <1>1, ChainExists
<1>3. \A n \in 0..N : n # 0 => item[n] = Nth(E, n)
  BY <1>1
<1> HIDE DEF item
<1>4. f = [n \in 0..N |-> IF n = 0 THEN start ELSE Fold(how, f[n - 1], Nth(E, n))]
  BY <1>2, <1>3 DEF Chain
<1> QED BY <1>4 DEF RunOf, N

\* The overview's book is such a fold, and so are the curve's lots.
LEMMA BookRuns ==
    ASSUME NEW E, NEW s, IsFiniteSet(Of(E, s))
    PROVE  \E f : RunOf(f, "book", EmptyBook, Of(E, s)) /\ Book(E, s) = f[Cardinality(Of(E, s))]
<1> DEFINE T == Of(E, s)
           P(f) == f = [n \in 0..Cardinality(T) |-> IF n = 0 THEN EmptyBook ELSE Booked(f[n - 1], Nth(T, n))]
           f == CHOOSE f : RunOf(f, "book", EmptyBook, T)
<1>1. Book(E, s) = (CHOOSE g : P(g))[Cardinality(T)]
  BY DEF Book, InOrder, Nth, Before
<1> HIDE DEF T
<1>2. \A g : P(g) <=> RunOf(g, "book", EmptyBook, T)
  BY DEF RunOf, Fold
<1>3. (CHOOSE g : P(g)) = f
  <2> HIDE DEF P
  <2> QED BY <1>2, Zenon
<1>4. RunOf(f, "book", EmptyBook, T)
  BY RunExists DEF T
<1> QED BY <1>1, <1>3, <1>4 DEF T

\* The curve's lots are a fold too.
LEMMA CurveRuns ==
    ASSUME NEW E, NEW s, IsFiniteSet(Of(E, s))
    PROVE  \E f : RunOf(f, "curve", {}, Of(E, s)) /\ CurveLots(E, s) = f[Cardinality(Of(E, s))]
<1> DEFINE T == Of(E, s)
           P(f) == f = [n \in 0..Cardinality(T) |-> IF n = 0 THEN {} ELSE Applied(f[n - 1], Nth(T, n))]
           f == CHOOSE f : RunOf(f, "curve", {}, T)
<1>1. CurveLots(E, s) = (CHOOSE g : P(g))[Cardinality(T)]
  BY DEF CurveLots, InOrder, Nth, Before
<1> HIDE DEF T
<1>2. \A g : P(g) <=> RunOf(g, "curve", {}, T)
  BY DEF RunOf, Fold
<1>3. (CHOOSE g : P(g)) = f
  <2> HIDE DEF P
  <2> QED BY <1>2, Zenon
<1>4. RunOf(f, "curve", {}, T)
  BY RunExists DEF T
<1> QED BY <1>1, <1>3, <1>4 DEF T

\* A run, step by step.
LEMMA RunSteps ==
    ASSUME NEW E, IsFiniteSet(E), NEW how, NEW start, NEW f, RunOf(f, how, start, E)
    PROVE  /\ f[0] = start
           /\ \A n \in 1..Cardinality(E) : f[n] = Fold(how, f[n - 1], Nth(E, n))
<1>0. Cardinality(E) \in Nat
  BY FS_CardinalityType
<1>1. \A n \in 0..Cardinality(E) : f[n] = IF n = 0 THEN start ELSE Fold(how, f[n - 1], Nth(E, n))
  BY DEF RunOf
<1> QED BY <1>0, <1>1

-----------------------------------------------------------------------------
(* What the books hold. *)

\* Every sale finds its shares when it is made.
Covered(E) == \A e \in E : e.side = "sell" => e.qty <= NetOf(Before(E, e))

\* b and c: book and curve of the entries P, the first of E.
Agrees(b, c, P, covered) ==
    /\ Lotted(b.lots) /\ b.matched \in Nat /\ b \in [lots : SUBSET LotRec, matched : Nat, flaws : SUBSET Nat]
    /\ \A l \in b.lots : \E e \in P : e.id = l.id
    /\ CostOf(BuysOf(P)) = b.matched + CostOf(b.lots)
    /\ b.flaws = {} => QtyOf(b.lots) = NetOf(P) /\ c = b.lots
    /\ covered => b.flaws = {}

\* One more entry.
LEMMA AgreesNext ==
    ASSUME NEW P, P \subseteq EntryRec, IsFiniteSet(P), NEW e \in EntryRec, \A x \in P : x.id # e.id,
           NEW covered \in BOOLEAN, covered => (e.side = "sell" => e.qty <= NetOf(P)),
           NEW b, NEW c, Agrees(b, c, P, covered)
    PROVE  Agrees(Booked(b, e), Applied(c, e), P \cup {e}, covered)
<1>0. e \notin P /\ e.qty \in Nat \ {0} /\ e.date \in Nat /\ e.id \in Nat /\ e.side \in {"buy", "sell"}
  BY DEF EntryRec, Sides
<1>1. /\ NetOf(P \cup {e}) = Signed(e) + NetOf(P) /\ NetOf(P) \in Int /\ CostOf(BuysOf(P)) \in Int
      /\ e.side = "buy" => CostOf(BuysOf(P \cup {e})) = e.qty * e.date + CostOf(BuysOf(P))
      /\ e.side = "sell" => CostOf(BuysOf(P \cup {e})) = CostOf(BuysOf(P))
  BY <1>0, EntryAdds
<1>2. PICK L : L = b.lots
  OBVIOUS
<1>3. Lotted(L) /\ b.matched \in Nat /\ b.flaws \in SUBSET Nat /\ L \in SUBSET LotRec
      /\ QtyOf(L) \in Nat /\ CostOf(L) \in Nat
  <2>1. Lotted(L) /\ b.matched \in Nat /\ b.flaws \in SUBSET Nat /\ L \in SUBSET LotRec
    BY <1>2 DEF Agrees
  <2>2. L \subseteq LeftRec /\ IsFiniteSet(L)
    BY <2>1 DEF Lotted, LotRec, LeftRec
  <2> QED BY <2>1, <2>2, LotSums
<1>4. CASE e.side = "buy"
  <2>1. PICK l : l = LotOf(e)
    OBVIOUS
  <2>2. l \in LotRec /\ l.id = e.id /\ l.qty = e.qty /\ l.date = e.date
    BY <1>0, <2>1 DEF LotOf, LotRec
  <2>3. \A m \in L : m.id # l.id
    BY <1>2, <2>2 DEF Agrees
  <2>4. /\ Lotted(L \cup {l}) /\ QtyOf(L \cup {l}) = l.qty + QtyOf(L)
        /\ CostOf(L \cup {l}) = l.qty * l.date + CostOf(L)
    BY <1>3, <2>2, <2>3, LotAdds
  <2>5. PICK n : n = Booked(b, e)
    OBVIOUS
  <2>6. n = [b EXCEPT !.lots = L \cup {l}]
    BY <1>2, <1>4, <2>1, <2>5 DEF Booked
  <2>7. n.lots = L \cup {l} /\ n.matched = b.matched /\ n.flaws = b.flaws
        /\ n \in [lots : SUBSET LotRec, matched : Nat, flaws : SUBSET Nat]
    BY <1>3, <2>2, <2>6 DEF Agrees
  <2>8. Applied(c, e) = c \cup {l}
    BY <1>4, <2>1 DEF Applied
  <2>9. e.qty * e.date \in Int /\ Signed(e) = e.qty
    BY <1>0, <1>4 DEF Signed
  <2>10. CostOf(BuysOf(P \cup {e})) = n.matched + CostOf(n.lots)
    <3>1. CostOf(BuysOf(P)) = b.matched + CostOf(L)
      BY <1>2 DEF Agrees
    <3>2. l.qty * l.date = e.qty * e.date
      BY <2>2
    <3>3. CostOf(L \cup {l}) = e.qty * e.date + CostOf(L)
      BY <2>4, <3>2
    <3>4. PICK a \in Int : a = e.qty * e.date
      BY <2>9
    <3> QED BY <1>1, <1>3, <1>4, <2>7, <3>1, <3>3, <3>4
  <2>11. n.flaws = {} => QtyOf(n.lots) = NetOf(P \cup {e}) /\ Applied(c, e) = n.lots
    BY <1>1, <1>2, <1>3, <2>2, <2>4, <2>7, <2>8, <2>9 DEF Agrees
  <2>12. \A x \in n.lots : \E y \in P \cup {e} : y.id = x.id
    BY <1>2, <2>2, <2>7 DEF Agrees
  <2>13. covered => n.flaws = {}
    BY <2>7 DEF Agrees
  <2>14. Lotted(n.lots) /\ n.matched \in Nat
    BY <1>3, <2>4, <2>7
  <2> QED BY <2>5, <2>7, <2>10, <2>11, <2>12, <2>13, <2>14 DEF Agrees
<1>5. CASE e.side = "sell" /\ e.qty > QtyOf(L)
  <2>1. PICK n : n = Booked(b, e)
    OBVIOUS
  <2>2. n = [b EXCEPT !.flaws = @ \cup {e.id}]
    BY <1>2, <1>5, <2>1 DEF Booked
  <2>3. n.lots = L /\ n.matched = b.matched /\ n.flaws = b.flaws \cup {e.id}
        /\ n \in [lots : SUBSET LotRec, matched : Nat, flaws : SUBSET Nat]
    BY <1>0, <1>2, <1>3, <2>2 DEF Agrees
  <2>4. covered => n.flaws = {}
    <3>1. ~covered
      BY <1>0, <1>1, <1>2, <1>3, <1>5 DEF Agrees
    <3> QED BY <3>1
  <2>5. n.flaws # {}
    BY <2>3
  <2>6. CostOf(BuysOf(P \cup {e})) = n.matched + CostOf(n.lots) /\ \A x \in n.lots : \E y \in P \cup {e} : y.id = x.id
    BY <1>1, <1>2, <1>5, <2>3 DEF Agrees
  <2> QED BY <1>3, <2>1, <2>3, <2>4, <2>5, <2>6 DEF Agrees
<1>6. CASE e.side = "sell" /\ ~(e.qty > QtyOf(L))
  <2>1. PICK R : R = Consumed(L, e.qty)
    OBVIOUS
  <2>2. PICK t : t = CostTaken(L, e.qty)
    OBVIOUS
  <2>3. /\ Lotted(R) /\ \A l \in R : \E m \in L : m.id = l.id
        /\ t \in Nat /\ QtyOf(R) = QtyOf(L) - e.qty /\ CostOf(L) = t + CostOf(R)
    <3>1. PICK n \in Nat \ {0} : n = e.qty
      BY <1>0
    <3>2. n <= QtyOf(L)
      BY <1>3, <1>6, <3>1
    <3>3. /\ Lotted(Consumed(L, n)) /\ \A l \in Consumed(L, n) : \E m \in L : m.id = l.id
          /\ CostTaken(L, n) \in Nat /\ QtyOf(Consumed(L, n)) = QtyOf(L) - n
          /\ CostOf(L) = CostTaken(L, n) + CostOf(Consumed(L, n))
      BY <1>3, <3>1, <3>2, ConsumedIs
    <3> QED BY <2>1, <2>2, <3>1, <3>3
  <2>4. PICK n : n = Booked(b, e)
    OBVIOUS
  <2>5. n = [b EXCEPT !.lots = R, !.matched = @ + t]
    BY <1>2, <1>6, <2>1, <2>2, <2>4 DEF Booked
  <2>6. n.lots = R /\ n.matched = b.matched + t /\ n.flaws = b.flaws
        /\ n \in [lots : SUBSET LotRec, matched : Nat, flaws : SUBSET Nat]
    <3>1. R \in SUBSET LotRec /\ b.matched + t \in Nat
      BY <1>3, <2>3 DEF Lotted
    <3>2. b \in [lots : SUBSET LotRec, matched : Nat, flaws : SUBSET Nat]
      BY DEF Agrees
    <3> QED BY <2>5, <3>1, <3>2
  <2>7. Signed(e) = -e.qty
    BY <1>6 DEF Signed
  <2>8. CostOf(R) \in Nat
    <3>1. R \subseteq LeftRec /\ IsFiniteSet(R)
      BY <2>3 DEF Lotted, LotRec, LeftRec
    <3> QED BY <3>1, LotSums
  <2>9. CostOf(BuysOf(P \cup {e})) = n.matched + CostOf(n.lots)
    BY <1>1, <1>2, <1>3, <1>6, <2>3, <2>6, <2>8 DEF Agrees
  <2>10. n.flaws = {} => QtyOf(n.lots) = NetOf(P \cup {e}) /\ Applied(c, e) = n.lots
    <3>1. ASSUME n.flaws = {} PROVE QtyOf(L) = NetOf(P) /\ c = L
      BY <1>2, <2>6, <3>1 DEF Agrees
    <3>2. c = L => Applied(c, e) = R
      BY <1>6, <2>1 DEF Applied
    <3> QED BY <1>0, <1>1, <1>3, <2>3, <2>6, <2>7, <3>1, <3>2
  <2>11. \A x \in n.lots : \E y \in P \cup {e} : y.id = x.id
    BY <1>2, <2>3, <2>6 DEF Agrees
  <2>12. covered => n.flaws = {}
    BY <2>6 DEF Agrees
  <2> QED BY <2>3, <2>4, <2>6, <2>9, <2>10, <2>11, <2>12 DEF Agrees
<1> QED BY <1>0, <1>4, <1>5, <1>6

\* The books of any entries: overview, curve and net agree unless a sale found too little.
LEMMA BooksHold ==
    ASSUME NEW E, NEW s, Entered(E)
    PROVE  Agrees(Book(E, s), CurveLots(E, s), Of(E, s), Covered(Of(E, s)))
<1> DEFINE T == Of(E, s)
           N == Cardinality(T)
<1>1. Entered(T) /\ N \in Nat
  BY FS_Subset, FS_CardinalityType DEF Of, Entered, Apart
<1>2. PICK f : RunOf(f, "book", EmptyBook, T) /\ Book(E, s) = f[N]
  BY <1>1, BookRuns DEF Entered
<1>3. PICK g : RunOf(g, "curve", {}, T) /\ CurveLots(E, s) = g[N]
  BY <1>1, CurveRuns DEF Entered
<1> HIDE DEF T, N
<1>4. N = Cardinality(T)
  BY DEF N
<1>5. /\ f[0] = EmptyBook /\ g[0] = {}
      /\ \A n \in 1..N : f[n] = Booked(f[n - 1], Nth(T, n)) /\ g[n] = Applied(g[n - 1], Nth(T, n))
  <2>1. IsFiniteSet(T)
    BY <1>1 DEF Entered
  <2> QED BY <1>2, <1>3, <1>4, <2>1, RunSteps DEF Fold
<1> DEFINE Good(n) == Agrees(f[n], g[n], FirstOf(T, n), Covered(T))
           Bad == {n \in 0..N : ~Good(n)}
<1>6. Bad = {}
  <2> SUFFICES ASSUME Bad # {} PROVE FALSE
    OBVIOUS
  <2>1. PICK m \in Bad : \A k \in Bad : m <= k
    <3>1. Bad \subseteq Nat
      BY <1>1
    <3> HIDE DEF Bad
    <3> QED BY <3>1, LeastNumber
  <2>2. Good(0)
    <3>1. FirstOf(T, 0) = {}
      BY <1>1, FirstGrows
    <3>2. /\ EmptyBook.lots = {} /\ EmptyBook.matched = 0 /\ EmptyBook.flaws = {}
          /\ EmptyBook \in [lots : SUBSET LotRec, matched : Nat, flaws : SUBSET Nat]
      BY DEF EmptyBook
    <3>3. Lotted({}) /\ BuysOf({}) = {}
      BY FS_EmptySet DEF Lotted, Apart, BuysOf
    <3>4. QtyOf({}) = 0 /\ CostOf({}) = 0 /\ NetOf({}) = 0
      BY QtyIsSum, CostIsSum, NetIsSum, SumEmpty
    <3>5. PICK b, c : b = EmptyBook /\ c = {}
      OBVIOUS
    <3>6. b.lots = {} /\ b.matched = 0 /\ b.flaws = {} /\ b \in [lots : SUBSET LotRec, matched : Nat, flaws : SUBSET Nat]
      BY <3>2, <3>5
    <3>7. Lotted(b.lots) /\ (\A l \in b.lots : \E e \in {} : e.id = l.id)
      BY <3>3, <3>6
    <3>8. CostOf(BuysOf({})) = b.matched + CostOf(b.lots) /\ QtyOf(b.lots) = NetOf({}) /\ c = b.lots
      <4>1. CostOf(BuysOf({})) = 0
        BY <3>3, <3>4
      <4>2. CostOf(b.lots) = 0 /\ QtyOf(b.lots) = 0
        BY <3>4, <3>6
      <4> QED BY <3>4, <3>5, <3>6, <4>1, <4>2
    <3>9. Agrees(b, c, {}, Covered(T))
      BY <3>6, <3>7, <3>8 DEF Agrees
    <3> QED BY <1>5, <3>1, <3>5, <3>9
  <2>3. m # 0 /\ m \in 1..N /\ m - 1 \in 0..N /\ Good(m - 1)
    <3>1. m # 0 /\ m \in 1..N /\ m - 1 \in 0..N /\ ~(m <= m - 1)
      BY <1>1, <2>1, <2>2
    <3> QED BY <2>1, <3>1
  <2>4. PICK e : e = Nth(T, m)
    OBVIOUS
  <2>5. PICK P : P = FirstOf(T, m - 1)
    OBVIOUS
  <2>6. FirstOf(T, m) = P \cup {e} /\ e \in T \ P /\ P = Before(T, e) /\ P \subseteq T
    <3>1. P \subseteq T
      BY <2>5 DEF FirstOf
    <3> QED BY <1>1, <1>4, <2>3, <2>4, <2>5, <3>1, FirstGrows
  <2>7. P \subseteq EntryRec /\ IsFiniteSet(P) /\ e \in EntryRec /\ \A x \in P : x.id # e.id
    BY <1>1, <2>6, FS_Subset DEF Entered, Apart
  <2>8. Covered(T) \in BOOLEAN /\ (Covered(T) => (e.side = "sell" => e.qty <= NetOf(P)))
    BY <2>6 DEF Covered
  <2>9. PICK b, c : b = f[m - 1] /\ c = g[m - 1]
    OBVIOUS
  <2>10. Agrees(b, c, P, Covered(T))
    BY <2>3, <2>5, <2>9
  <2>11. Agrees(Booked(b, e), Applied(c, e), P \cup {e}, Covered(T))
    BY <2>7, <2>8, <2>10, AgreesNext
  <2>12. Good(m)
    BY <1>5, <2>3, <2>4, <2>6, <2>9, <2>11
  <2> QED BY <2>1, <2>12
<1>7. Good(N)
  BY <1>1, <1>6
<1>8. FirstOf(T, N) = T
  BY <1>1, <1>4, FirstGrows
<1> QED BY <1>2, <1>3, <1>7, <1>8 DEF T

(* Which changes keep every sale covered. *)

\* A purchase can only help.
LEMMA BuyCovers ==
    ASSUME NEW T, Entered(T), NEW e \in EntryRec, e \notin T, e.side = "buy", Covered(T)
    PROVE  Covered(T \cup {e})
<1>1. ASSUME NEW x \in T, x.side = "sell" PROVE x.qty <= NetOf(Before(T \cup {e}, x))
  <2>1. PICK P : P = Before(T, x)
    OBVIOUS
  <2>2. P \subseteq EntryRec /\ IsFiniteSet(P) /\ e \notin P /\ x.qty \in Nat /\ e.qty \in Nat
    <3>1. P \subseteq T
      BY <2>1 DEF Before
    <3> QED BY <3>1, FS_Subset DEF Entered, EntryRec
  <2>3. NetOf(P \cup {e}) = Signed(e) + NetOf(P) /\ NetOf(P) \in Int /\ Signed(e) = e.qty
    BY <2>2, EntryAdds DEF Signed
  <2>4. x.qty <= NetOf(P)
    BY <1>1, <2>1 DEF Covered
  <2>5. Before(T \cup {e}, x) = P \/ Before(T \cup {e}, x) = P \cup {e}
    BY <2>1 DEF Before
  <2>6. NetOf(Before(T \cup {e}, x)) = NetOf(P) \/ NetOf(Before(T \cup {e}, x)) = NetOf(P \cup {e})
    BY <2>5
  <2> HIDE DEF Covered
  <2> QED BY <2>2, <2>3, <2>4, <2>6
<1>2. \A x \in T \cup {e} : x.side = "sell" => x \in T
  OBVIOUS
<1> QED BY <1>1, <1>2 DEF Covered

\* A sale that finds its shares, after all other sales.
LEMMA SaleCovers ==
    ASSUME NEW T, Entered(T), NEW e \in EntryRec, e \notin T, Covered(T),
           \A x \in T : x.side = "sell" => ~Earlier(e, x), ~Earlier(e, e),
           e.qty <= NetOf(Before(T, e))
    PROVE  Covered(T \cup {e})
<1>1. \A x \in T : x.side = "sell" => Before(T \cup {e}, x) = Before(T, x)
  BY DEF Before
<1>2. Before(T \cup {e}, e) = Before(T, e)
  BY DEF Before
<1> QED BY <1>1, <1>2 DEF Covered

\* A sale taken back.
LEMMA DropCovers ==
    ASSUME NEW T, Entered(T), NEW e \in T, e.side = "sell", Covered(T)
    PROVE  Covered(T \ {e})
<1>1. ASSUME NEW x \in T \ {e}, x.side = "sell" PROVE x.qty <= NetOf(Before(T \ {e}, x))
  <2>1. PICK P : P = Before(T \ {e}, x)
    OBVIOUS
  <2>2. P \subseteq EntryRec /\ IsFiniteSet(P) /\ e \notin P /\ x.qty \in Nat /\ e.qty \in Nat /\ e \in EntryRec
    <3>1. P \subseteq T
      BY <2>1 DEF Before
    <3> QED BY <2>1, <3>1, FS_Subset DEF Entered, EntryRec, Before
  <2>3. NetOf(P \cup {e}) = Signed(e) + NetOf(P) /\ NetOf(P) \in Int /\ Signed(e) = -e.qty
    BY <2>2, EntryAdds DEF Signed
  <2>4. x.qty <= NetOf(Before(T, x))
    BY <1>1 DEF Covered
  <2>5. Before(T, x) = P \/ Before(T, x) = P \cup {e}
    BY <2>1 DEF Before
  <2> QED BY <2>1, <2>2, <2>3, <2>4, <2>5
<1> QED BY <1>1 DEF Covered

-----------------------------------------------------------------------------
(* Rows inserted. *)

Row(rows, next, i) == [rows[i] EXCEPT !.id = next + i - 1]
RowsTo(rows, next, k) == {Row(rows, next, i) : i \in 1..k}

\* Rows of one instrument in the order of their dates.
Prepared(rows) ==
    /\ rows \in Seq(EntryRec)
    /\ \A i, j \in 1..Len(rows) : /\ rows[i].sym = rows[j].sym
                                  /\ i < j => rows[i].date <= rows[j].date

\* A row gets its id.
LEMMA RowIs ==
    ASSUME NEW rows \in Seq(EntryRec), NEW next \in Nat, next # 0, NEW i \in 1..Len(rows)
    PROVE  LET q == Row(rows, next, i)
           IN  /\ q \in EntryRec /\ rows[i] \in EntryRec /\ q.id = next + i - 1
               /\ q.side = rows[i].side /\ q.date = rows[i].date /\ q.qty = rows[i].qty
               /\ q.sym = rows[i].sym /\ q.ref = rows[i].ref /\ q.code = rows[i].code
               /\ Signed(q) = Signed(rows[i]) /\ Signed(q) \in Int /\ q.date \in Nat /\ q.qty \in Nat
<1>1. rows[i] \in EntryRec /\ i \in Nat /\ i >= 1
  OBVIOUS
<1>2. PICK n \in Nat : n = next + i - 1
  BY <1>1
<1>3. PICK q : q = Row(rows, next, i)
  OBVIOUS
<1>4. q = [rows[i] EXCEPT !.id = n]
  BY <1>2, <1>3 DEF Row
<1>5. /\ q \in EntryRec /\ q.id = n /\ q.side = rows[i].side /\ q.date = rows[i].date /\ q.qty = rows[i].qty
      /\ q.sym = rows[i].sym /\ q.ref = rows[i].ref /\ q.code = rows[i].code
  BY <1>1, <1>4 DEF EntryRec
<1>6. Signed(q) = Signed(rows[i]) /\ Signed(q) \in Int
  BY <1>5 DEF Signed, EntryRec
<1>7. q.date \in Nat /\ q.qty \in Nat
  BY <1>5 DEF EntryRec
<1> QED BY <1>1, <1>2, <1>3, <1>5, <1>6, <1>7

\* One row after the other.
LEMMA RowsGrow ==
    ASSUME NEW rows \in Seq(EntryRec), NEW next \in Nat, next # 0
    PROVE  /\ RowsTo(rows, next, 0) = {}
           /\ \A k \in 1..Len(rows) : RowsTo(rows, next, k) = RowsTo(rows, next, k - 1) \cup {Row(rows, next, k)}
<1>1. RowsTo(rows, next, 0) = {}
  BY DEF RowsTo
<1>2. ASSUME NEW k \in 1..Len(rows)
      PROVE RowsTo(rows, next, k) = RowsTo(rows, next, k - 1) \cup {Row(rows, next, k)}
  <2>1. 1..k = (1..(k - 1)) \cup {k}
    OBVIOUS
  <2> QED BY <2>1 DEF RowsTo
<1> QED BY <1>1, <1>2

\* The journal with the first rows.
LEMMA RowsEntered ==
    ASSUME NEW E, Entered(E), NEW next \in Nat, next # 0, \A e \in E : e.id < next,
           NEW rows \in Seq(EntryRec), NEW k \in 0..Len(rows)
    PROVE  /\ Entered(E \cup RowsTo(rows, next, k))
           /\ \A e \in E \cup RowsTo(rows, next, k) : e.id < next + k
           /\ E \cap RowsTo(rows, next, k) = {} /\ IsFiniteSet(RowsTo(rows, next, k))
<1>1. Len(rows) \in Nat /\ \A i \in 1..k : i \in 1..Len(rows)
  OBVIOUS
<1>2. \A i \in 1..k : Row(rows, next, i) \in EntryRec /\ Row(rows, next, i).id = next + i - 1
  BY <1>1, RowIs
<1>3. IsFiniteSet(RowsTo(rows, next, k))
  <2> DEFINE m == [i \in 1..k |-> Row(rows, next, i)]
  <2>1. IsFiniteSet(1..k)
    BY <1>1, FS_Interval
  <2>2. RowsTo(rows, next, k) = {m[i] : i \in 1..k}
    BY DEF RowsTo
  <2> HIDE DEF m
  <2> QED BY <2>1, <2>2, ImageFinite
<1>4. \A e \in RowsTo(rows, next, k) : e \in EntryRec /\ e.id >= next /\ e.id < next + k
  BY <1>1, <1>2 DEF RowsTo
<1>5. \A e \in E : e.id \in Nat /\ e.id < next
  BY DEF Entered, EntryRec
<1>6. \A x, y \in RowsTo(rows, next, k) : x.id = y.id => x = y
  <2> SUFFICES ASSUME NEW x \in RowsTo(rows, next, k), NEW y \in RowsTo(rows, next, k), x.id = y.id PROVE x = y
    OBVIOUS
  <2>1. PICK i \in 1..k, j \in 1..k : x = Row(rows, next, i) /\ y = Row(rows, next, j)
    BY DEF RowsTo
  <2>2. i = j
    BY <1>1, <1>2, <2>1
  <2> QED BY <2>1, <2>2
<1>7. Apart(E \cup RowsTo(rows, next, k))
  BY <1>4, <1>5, <1>6 DEF Apart, Entered
<1>8. IsFiniteSet(E \cup RowsTo(rows, next, k))
  BY <1>3, FS_Union DEF Entered
<1> QED BY <1>1, <1>3, <1>4, <1>5, <1>7, <1>8 DEF Entered

\* The shares of some rows, counted as the check of an import does.
RowSum(rows, K) == LET signed(k) == Signed(rows[k]) IN MapThenSumSet(signed, K)

\* What rows add to the holdings of their instrument, as the check of an import counts it.
LEMMA RowsNet ==
    ASSUME NEW E, E \subseteq EntryRec, IsFiniteSet(E), NEW next \in Nat, next # 0,
           NEW rows \in Seq(EntryRec), NEW k \in 0..Len(rows), E \cap RowsTo(rows, next, k) = {}
    PROVE  NetOf(E \cup RowsTo(rows, next, k)) = NetOf(E) + RowSum(rows, 1..k)
<1> DEFINE m == [i \in 1..k |-> Row(rows, next, i)]
           g == [i \in 1..k |-> SignedOf[m[i]]]
           h == [i \in 1..k |-> Signed(rows[i])]
<1>1. Len(rows) \in Nat /\ \A i \in 1..k : i \in 1..Len(rows)
  OBVIOUS
<1>2. \A i \in 1..k : /\ m[i] = Row(rows, next, i) /\ m[i] \in EntryRec /\ m[i].id = next + i - 1
                      /\ Signed(m[i]) = Signed(rows[i]) /\ Signed(m[i]) \in Int
  BY <1>1, RowIs
<1>3. \A i, j \in 1..k : m[i] = m[j] => i = j
  <2> SUFFICES ASSUME NEW i \in 1..k, NEW j \in 1..k, m[i] = m[j] PROVE i = j
    OBVIOUS
  <2>1. m[i].id = m[j].id
    OBVIOUS
  <2>2. m[i].id = next + i - 1 /\ m[j].id = next + j - 1
    BY <1>2
  <2> HIDE DEF m
  <2> QED BY <1>1, <2>1, <2>2
<1>4. RowsTo(rows, next, k) = {m[i] : i \in 1..k} /\ IsFiniteSet(1..k)
  BY <1>1, FS_Interval DEF RowsTo
<1>5. \A i \in 1..k : g[i] = SignedOf[m[i]] /\ h[i] = Signed(rows[i])
  OBVIOUS
<1>6. RowSum(rows, 1..k) = SumOver(h, 1..k)
  <2> DEFINE P(f) == f = [s \in SUBSET (1..k) |-> IF s = {} THEN 0 ELSE LET x == CHOOSE x \in s : TRUE
                            IN Signed(rows[x]) + f[s \ {x}]]
  <2>1. RowSum(rows, 1..k) = (CHOOSE f : P(f))[1..k]
    BY DEF RowSum, MapThenSumSet, MapThenFoldSet
  <2>2. ASSUME NEW f PROVE P(f) <=> Iterates(f, h, 1..k)
    <3>1. ASSUME NEW s \in SUBSET (1..k), s # {}
          PROVE LET x == CHOOSE x \in s : TRUE IN h[x] = Signed(rows[x])
      BY <3>1
    <3> QED BY <3>1 DEF Iterates, SumFrom
  <2>3. (CHOOSE f : P(f)) = (CHOOSE f : Iterates(f, h, 1..k))
    <3> HIDE DEF P, h
    <3> QED BY <2>2, Zenon
  <2> QED BY <2>1, <2>3, SumIsIterated
<1> HIDE DEF m, g, h
<1>7. IsFiniteSet(RowsTo(rows, next, k)) /\ RowsTo(rows, next, k) \subseteq EntryRec
  <2>1. IsFiniteSet({m[i] : i \in 1..k})
    BY <1>4, ImageFinite
  <2> QED BY <1>2, <1>4, <2>1
<1>8. /\ Integral(SignedOf, E) /\ NetOf(E) = SumOver(SignedOf, E)
      /\ Integral(SignedOf, RowsTo(rows, next, k))
      /\ \A e \in RowsTo(rows, next, k) : SignedOf[e] = Signed(e)
  BY <1>7, NetSums
<1>9. \A i \in 1..k : m[i] \in RowsTo(rows, next, k) /\ SignedOf[m[i]] = Signed(rows[i]) /\ SignedOf[m[i]] \in Int
  BY <1>2, <1>4, <1>8
<1>10. SumOver(SignedOf, {m[i] : i \in 1..k}) = SumOver([i \in 1..k |-> SignedOf[m[i]]], 1..k)
  <2>1. PICK S : S = 1..k
    OBVIOUS
  <2>2. IsFiniteSet(S) /\ (\A i, j \in S : m[i] = m[j] => i = j) /\ \A i \in S : SignedOf[m[i]] \in Int
    BY <1>3, <1>4, <1>9, <2>1
  <2>3. SumOver(SignedOf, {m[i] : i \in S}) = SumOver([i \in S |-> SignedOf[m[i]]], S)
    BY <2>2, SumImage
  <2> QED BY <2>1, <2>3
<1>11. SumOver(g, 1..k) = SumOver(h, 1..k)
  <2>1. Integral(g, 1..k)
    BY <1>5, <1>9 DEF Integral
  <2>2. \A i \in 1..k : g[i] = h[i]
    BY <1>5, <1>9
  <2> QED BY <1>4, <2>1, <2>2, SumSame
<1>12. SumOver(SignedOf, E \cup RowsTo(rows, next, k)) = SumOver(SignedOf, E) + SumOver(SignedOf, RowsTo(rows, next, k))
  BY <1>7, <1>8, SumUnion
<1>13. NetOf(E \cup RowsTo(rows, next, k)) = SumOver(SignedOf, E \cup RowsTo(rows, next, k))
  <2>1. IsFiniteSet(E \cup RowsTo(rows, next, k)) /\ E \cup RowsTo(rows, next, k) \subseteq EntryRec
    BY <1>7, FS_Union
  <2> QED BY <2>1, NetSums
<1> QED BY <1>4, <1>6, <1>8, <1>10, <1>11, <1>12, <1>13 DEF g

\* Rows inserted leave every sale covered, when the check found no row short and no sale
\* of a later date is there already.
LEMMA RowsCovered ==
    ASSUME NEW E, Entered(E), NEW next \in Nat, next # 0, \A e \in E : e.id < next,
           NEW rows, Prepared(rows), NEW s, Covered(Of(E, s)),
           \A i \in 1..Len(rows) : rows[i].side = "sell" =>
               Later(E, rows[i].sym, rows[i].date) = {} /\ ~Warned(E, rows, i)
    PROVE  Covered(Of(E \cup RowsTo(rows, next, Len(rows)), s))
<1> DEFINE H == Of(E, s)
<1>1. rows \in Seq(EntryRec) /\ Len(rows) \in Nat
  BY DEF Prepared
<1>2. Entered(H) /\ (\A e \in H : e.id < next /\ e \in E /\ e.sym = s) /\ H \subseteq E
  BY FS_Subset DEF Of, Entered, Apart
<1>3. CASE \E i \in 1..Len(rows) : rows[i].sym # s
  <2>1. \A i \in 1..Len(rows) : rows[i].sym # s
    BY <1>3 DEF Prepared
  <2>2. \A q \in RowsTo(rows, next, Len(rows)) : q.sym # s
    <3> SUFFICES ASSUME NEW i \in 1..Len(rows) PROVE Row(rows, next, i).sym # s
      BY DEF RowsTo
    <3> QED BY <1>1, <2>1, RowIs
  <2>3. Of(E \cup RowsTo(rows, next, Len(rows)), s) = Of(E, s)
    BY <2>2 DEF Of
  <2> QED BY <2>3
<1>4. CASE \A i \in 1..Len(rows) : rows[i].sym = s
  <2> DEFINE T(k) == H \cup RowsTo(rows, next, k)
             Bad == {k \in 0..Len(rows) : ~Covered(T(k))}
  <2>1. \A q \in RowsTo(rows, next, Len(rows)) : q.sym = s
    <3> SUFFICES ASSUME NEW i \in 1..Len(rows) PROVE Row(rows, next, i).sym = s
      BY DEF RowsTo
    <3> QED BY <1>1, <1>4, RowIs
  <2>2. Of(E \cup RowsTo(rows, next, Len(rows)), s) = T(Len(rows))
    BY <2>1 DEF Of
  <2>3. Bad = {}
    <3> SUFFICES ASSUME Bad # {} PROVE FALSE
      OBVIOUS
    <3>1. PICK k \in Bad : \A j \in Bad : k <= j
      <4>1. Bad \subseteq Nat
        BY <1>1
      <4> HIDE DEF Bad
      <4> QED BY <4>1, LeastNumber
    <3>2. T(0) = H
      BY <1>1, RowsGrow
    <3>3. k # 0
      BY <3>1, <3>2
    <3>4. k \in 1..Len(rows) /\ k - 1 \in 0..Len(rows) /\ ~(k <= k - 1) /\ k \in Nat
      BY <1>1, <3>1, <3>3
    <3>5. Covered(T(k - 1))
      BY <3>1, <3>4
    <3>6. PICK e : e = Row(rows, next, k)
      OBVIOUS
    <3>7. PICK S : S = T(k - 1)
      OBVIOUS
    <3>8. T(k) = S \cup {e}
      BY <1>1, <3>4, <3>6, <3>7, RowsGrow
    <3>9. Entered(S) /\ \A x \in S : x.id < next + (k - 1)
      BY <1>1, <1>2, <3>4, <3>7, RowsEntered
    <3>10. /\ e \in EntryRec /\ e.id = next + k - 1 /\ e.side = rows[k].side /\ e.date = rows[k].date
           /\ e.qty = rows[k].qty /\ e.date \in Nat /\ e.qty \in Nat /\ rows[k].sym = s
      BY <1>1, <1>4, <3>4, <3>6, RowIs
    <3>11. \A x \in S : x.id < e.id /\ x.id \in Nat /\ x.date \in Nat
      BY <3>4, <3>9, <3>10 DEF Entered, EntryRec
    <3>12. e \notin S
      BY <3>11
    <3> HIDE DEF Bad, T, H
    <3>13. CASE e.side = "buy"
      <4>1. Covered(S \cup {e})
        BY <3>5, <3>7, <3>9, <3>10, <3>12, <3>13, BuyCovers
      <4> QED BY <3>1, <3>8, <4>1 DEF Bad
    <3>14. CASE e.side = "sell"
      <4>1. Later(E, s, e.date) = {} /\ ~Warned(E, rows, k)
        BY <3>4, <3>10, <3>14
      <4>2. \A j \in 1..(k - 1) : rows[j].date <= rows[k].date
        BY <1>1, <3>4 DEF Prepared
      <4>3. \A x \in RowsTo(rows, next, k - 1) : x.date <= e.date
        <5> SUFFICES ASSUME NEW j \in 1..(k - 1) PROVE Row(rows, next, j).date <= e.date
          BY DEF RowsTo
        <5>1. j \in 1..Len(rows)
          BY <1>1, <3>4
        <5> QED BY <1>1, <3>10, <4>2, <5>1, RowIs
      <4>4. \A x \in S : x.side = "sell" => x.date <= e.date
        <5> SUFFICES ASSUME NEW x \in S, x.side = "sell" PROVE x.date <= e.date
          OBVIOUS
        <5>1. CASE x \in H
          <6>1. x \in E /\ x.sym = s /\ x.date \in Nat
            BY <1>2, <3>11, <5>1
          <6>2. ~(x.date > e.date)
            BY <4>1, <6>1 DEF Later
          <6> QED BY <3>10, <6>1, <6>2
        <5>2. CASE x \in RowsTo(rows, next, k - 1)
          BY <4>3, <5>2
        <5> QED BY <3>7, <5>1, <5>2 DEF T
      <4>5. (\A x \in S : x.side = "sell" => ~Earlier(e, x)) /\ ~Earlier(e, e)
        <5>1. ~Earlier(e, e)
          <6>1. e.id \in Nat
            BY <3>10 DEF EntryRec
          <6> QED BY <3>10, <6>1 DEF Earlier
        <5>2. e.id \in Nat
          BY <3>10 DEF EntryRec
        <5>3. ASSUME NEW x \in S, x.side = "sell" PROVE ~Earlier(e, x)
          <6>1. x.date <= e.date /\ x.id < e.id /\ x.date \in Nat /\ x.id \in Nat
            BY <3>11, <4>4, <5>3
          <6> QED BY <3>10, <5>2, <6>1 DEF Earlier
        <5> QED BY <5>1, <5>3
      <4>6. PICK D : D = {x \in E : x.sym = s /\ x.date <= e.date}
        OBVIOUS
      <4>7. Before(S, e) = D \cup RowsTo(rows, next, k - 1)
        <5>1. \A x \in S : Earlier(x, e) <=> x.date <= e.date
          <6>1. e.id \in Nat
            BY <3>10 DEF EntryRec
          <6> SUFFICES ASSUME NEW x \in S PROVE Earlier(x, e) <=> x.date <= e.date
            OBVIOUS
          <6>2. x.date \in Nat /\ x.id \in Nat /\ x.id < e.id
            BY <3>11
          <6> QED BY <3>10, <6>1, <6>2 DEF Earlier
        <5>2. \A x : x \in S <=> x \in H \/ x \in RowsTo(rows, next, k - 1)
          BY <3>7 DEF T
        <5>3. \A x : x \in H <=> x \in E /\ x.sym = s
          BY DEF H, Of
        <5>4. \A x : x \in D <=> x \in E /\ x.sym = s /\ x.date <= e.date
          BY <4>6
        <5>5. \A x : x \in Before(S, e) <=> x \in S /\ Earlier(x, e)
          BY DEF Before
        <5>6. \A x : x \in Before(S, e) <=> x \in D \/ x \in RowsTo(rows, next, k - 1)
          BY <4>3, <5>1, <5>2, <5>3, <5>4, <5>5
        <5> QED BY <5>6
      <4>8. D \subseteq EntryRec /\ IsFiniteSet(D) /\ D \cap RowsTo(rows, next, k - 1) = {}
        <5>1. D \subseteq E
          BY <4>6
        <5>2. E \cap RowsTo(rows, next, k - 1) = {}
          BY <1>1, <3>4, RowsEntered
        <5> QED BY <5>1, <5>2, FS_Subset DEF Entered
      <4>9. NetOf(Before(S, e)) = NetOf(D) + RowSum(rows, 1..(k - 1))
        BY <1>1, <3>4, <4>7, <4>8, RowsNet
      <4>10. HeldAt(E, s, e.date) = NetOf(D)
        BY <4>6 DEF HeldAt
      <4>11. {j \in 1..(k - 1) : rows[j].date <= rows[k].date} = 1..(k - 1)
        BY <4>2
      <4>12. ~(e.qty > NetOf(D) + RowSum(rows, 1..(k - 1)))
        <5>1. ~(rows[k].side = "sell" /\ rows[k].qty > HeldAt(E, rows[k].sym, rows[k].date)
                    + RowSum(rows, {j \in 1..(k - 1) : rows[j].date <= rows[k].date}))
          BY <4>1 DEF Warned, RowSum
        <5> QED BY <3>10, <3>14, <4>10, <4>11, <5>1
      <4>13. NetOf(Before(S, e)) \in Int
        <5>1. Before(S, e) \subseteq S
          BY DEF Before
        <5>2. Before(S, e) \subseteq EntryRec /\ IsFiniteSet(Before(S, e))
          BY <3>9, <5>1, FS_Subset DEF Entered
        <5> QED BY <5>2, NetSums
      <4>14. e.qty <= NetOf(Before(S, e))
        BY <3>10, <4>9, <4>12, <4>13
      <4>15. Covered(S \cup {e})
        BY <3>5, <3>7, <3>9, <3>10, <3>12, <4>5, <4>14, SaleCovers
      <4> QED BY <3>1, <3>8, <4>15 DEF Bad
    <3>15. e.side = "buy" \/ e.side = "sell"
      BY <3>10 DEF EntryRec, Sides
    <3> QED BY <3>13, <3>14, <3>15
  <2>4. Covered(T(Len(rows)))
    <3>1. \A k \in 0..Len(rows) : k \notin Bad
      BY <2>3
    <3>2. Len(rows) \in 0..Len(rows)
      BY <1>1
    <3> HIDE DEF T
    <3> QED BY <3>1, <3>2
  <2> QED BY <2>2, <2>4
<1> QED BY <1>3, <1>4

\* Executions still to import, in their order.
NewOf(es, xs) == {x \in xs : FillRef(x) \notin Known(es)}
Ahead(S, x) == {y \in S : y.date < x.date \/ (y.date = x.date /\ y.no < x.no)}
NthOf(S, n) == CHOOSE x \in S : Cardinality(Ahead(S, x)) = n - 1

\* Executions have an order: their dates, then their numbers.
LEMMA ExecsOrdered ==
    ASSUME NEW S, S \subseteq Execs, IsFiniteSet(S)
    PROVE  /\ Cardinality(S) \in Nat
           /\ \A n \in 1..Cardinality(S) : NthOf(S, n) \in S
           /\ \A m, n \in 1..Cardinality(S) :
                 /\ m < n => NthOf(S, m).date <= NthOf(S, n).date
                 /\ NthOf(S, m) = NthOf(S, n) => m = n
<1>1. \A x \in S : x.date \in Int /\ x.no \in Nat
  BY JournalAssumption
<1>2. \A x, y \in S : x.no = y.no => x = y
  BY JournalAssumption
<1> DEFINE B == [x \in S |-> Ahead(S, x)]
<1>3. \A x \in S : B[x] = {y \in S : y.date < x.date \/ (y.date = x.date /\ y.no < x.no)}
  BY DEF Ahead
<1>4. Ranked(S, B)
  <2> HIDE DEF B
  <2>1. \A x \in S : B[x] \subseteq S /\ x \notin B[x]
    BY <1>1, <1>3
  <2>2. \A x, y \in S : x # y => x \in B[y] \/ y \in B[x]
    BY <1>1, <1>2, <1>3
  <2>3. \A x, y \in S : x \in B[y] => B[x] \subseteq B[y]
    BY <1>1, <1>3
  <2> QED BY <2>1, <2>2, <2>3 DEF Ranked
<1>5. \A x \in S : B[x] = Ahead(S, x)
  OBVIOUS
<1> HIDE DEF B
<1>6. Cardinality(S) \in Nat
  BY FS_CardinalityType
<1>7. \A n \in 1..Cardinality(S) : NthOf(S, n) \in S /\ Cardinality(B[NthOf(S, n)]) = n - 1
  <2> SUFFICES ASSUME NEW n \in 1..Cardinality(S)
               PROVE  NthOf(S, n) \in S /\ Cardinality(B[NthOf(S, n)]) = n - 1
    OBVIOUS
  <2>1. \E x \in S : Cardinality(B[x]) = n - 1
    BY <1>4, PlaceTaken
  <2>2. \E x \in S : Cardinality(Ahead(S, x)) = n - 1
    BY <1>5, <2>1
  <2>3. NthOf(S, n) \in S /\ Cardinality(Ahead(S, NthOf(S, n))) = n - 1
    BY <2>2 DEF NthOf
  <2> QED BY <1>5, <2>3
<1>8. ASSUME NEW m \in 1..Cardinality(S), NEW n \in 1..Cardinality(S)
      PROVE  /\ m < n => NthOf(S, m).date <= NthOf(S, n).date
             /\ NthOf(S, m) = NthOf(S, n) => m = n
  <2>1. PICK x, y : x = NthOf(S, m) /\ y = NthOf(S, n)
    OBVIOUS
  <2>2. x \in S /\ y \in S /\ Cardinality(B[x]) = m - 1 /\ Cardinality(B[y]) = n - 1
    BY <1>7, <2>1
  <2>3. m < n => x \in B[y]
    BY <1>4, <1>6, <2>2, PlaceGrows
  <2>4. m < n => x.date <= y.date
    BY <1>1, <1>3, <2>2, <2>3
  <2>5. x = y => m = n
    BY <1>6, <2>2
  <2> QED BY <2>1, <2>4, <2>5
<1> QED BY <1>6, <1>7, <1>8

\* The rows of an import: one per execution, in their order.
LEMMA NewRowsAre ==
    ASSUME NEW es, NEW xs, xs \subseteq Execs, IsFiniteSet(xs), NEW s \in Symbols
    PROVE  LET rows == NewRows(es, xs, s)
               new == NewOf(es, xs)
           IN  /\ Prepared(rows) /\ Len(rows) = Cardinality(new) /\ Len(rows) \in Nat
               /\ \A i \in 1..Len(rows) :
                     /\ NthOf(new, i) \in new
                     /\ rows[i] = Entry(NthOf(new, i).side, NthOf(new, i).date, NthOf(new, i).qty,
                                        [sym |-> s, code |-> TRUE], FillRef(NthOf(new, i)))
               /\ \A i, j \in 1..Len(rows) : rows[i].ref = rows[j].ref => i = j
<1>1. PICK new : new = NewOf(es, xs)
  OBVIOUS
<1>2. new \subseteq Execs /\ IsFiniteSet(new)
  BY <1>1, FS_Subset DEF NewOf
<1>3. PICK rows : rows = NewRows(es, xs, s)
  OBVIOUS
<1>4. PICK N : N = Cardinality(new)
  OBVIOUS
<1> DEFINE row(i) == Entry(NthOf(new, i).side, NthOf(new, i).date, NthOf(new, i).qty,
                           [sym |-> s, code |-> TRUE], FillRef(NthOf(new, i)))
<1>5. rows = [i \in 1..N |-> row(i)]
  BY <1>1, <1>3, <1>4 DEF NewRows, NewOf, NthOf, Ahead
<1>6. N \in Nat /\ \A i \in 1..N : NthOf(new, i) \in new
  BY <1>2, <1>4, ExecsOrdered
<1>7. ASSUME NEW i \in 1..N
      PROVE  /\ row(i) \in EntryRec /\ row(i).sym = s /\ row(i).date = NthOf(new, i).date
             /\ row(i).ref = FillRef(NthOf(new, i)) /\ NthOf(new, i).date \in Nat
  <2>1. PICK x \in new : x = NthOf(new, i)
    BY <1>6
  <2>2. x \in Execs /\ x.side \in Sides /\ x.date \in Nat /\ x.qty \in Nat \ {0} /\ x.no \in Nat
    BY <1>2, JournalAssumption DEF Sides
  <2>3. FillRef(x) \in RefSet
    BY <2>2 DEF FillRef, RefSet
  <2>4. PICK q : q = Entry(x.side, x.date, x.qty, [sym |-> s, code |-> TRUE], FillRef(x))
    OBVIOUS
  <2>5. q \in EntryRec /\ q.sym = s /\ q.date = x.date /\ q.ref = FillRef(x)
    BY <2>2, <2>3, <2>4 DEF Entry, EntryRec
  <2> QED BY <2>1, <2>2, <2>4, <2>5
<1>8. rows \in Seq(EntryRec) /\ Len(rows) = N /\ \A i \in 1..N : rows[i] = row(i)
  <2> HIDE DEF row
  <2> QED BY <1>5, <1>6, <1>7
<1>9. Prepared(rows)
  <2>1. ASSUME NEW i \in 1..N, NEW j \in 1..N
        PROVE  rows[i].sym = rows[j].sym /\ (i < j => rows[i].date <= rows[j].date)
    <3>1. i < j => NthOf(new, i).date <= NthOf(new, j).date
      BY <1>2, <1>4, ExecsOrdered
    <3>2. /\ rows[i].sym = s /\ rows[j].sym = s
          /\ rows[i].date = NthOf(new, i).date /\ rows[j].date = NthOf(new, j).date
      <4> HIDE DEF row
      <4> QED BY <1>7, <1>8
    <3> QED BY <3>1, <3>2
  <2> HIDE DEF row
  <2> QED BY <1>8, <2>1 DEF Prepared
<1>10. ASSUME NEW i \in 1..N, NEW j \in 1..N, rows[i].ref = rows[j].ref
       PROVE  i = j
  <2>1. PICK x \in new, y \in new : x = NthOf(new, i) /\ y = NthOf(new, j)
    BY <1>6
  <2>2. FillRef(x) = FillRef(y)
    <3> HIDE DEF row
    <3> QED BY <1>7, <1>8, <1>10, <2>1
  <2>3. x.no = y.no
    BY <2>2 DEF FillRef
  <2>4. x = y
    BY <1>2, <2>3, JournalAssumption
  <2> QED BY <1>2, <1>4, <2>1, <2>4, ExecsOrdered
<1> QED BY <1>1, <1>3, <1>4, <1>6, <1>8, <1>9, <1>10

WorkRec == [op : {"idle", "sell", "import"}, rows : Seq(EntryRec), warned : BOOLEAN, fresh : BOOLEAN]
JournalTypes ==
    /\ day \in Nat /\ executed \subseteq Execs /\ IsFiniteSet(executed) /\ opening \in Nat
    /\ Entered(entries) /\ nextEntry \in Nat \ {0} /\ \A e \in entries : e.id < nextEntry
    /\ shown \in [qty : Nat, complete : BOOLEAN]
    /\ work \in [Keepers -> WorkRec]
\* What a request computed is what the checks of now would find, unless something was written since.
Worked(es, w) ==
    /\ Prepared(w.rows)
    /\ w.op = "idle" => w.rows = <<>>
    /\ w.op = "sell" => Len(w.rows) = 1 /\ w.rows[1].side = "sell" /\ ~w.warned
    /\ w.fresh /\ ~w.warned => \A i \in 1..Len(w.rows) : ~Warned(es, w.rows, i)
WorkHolds == \A r \in Keepers : Worked(entries, work[r])
SalesCovered == causes = {} => \A s \in Symbols : Covered(Of(entries, s))
JournalInv == JournalTypes /\ WorkHolds /\ SalesCovered

\* A request at rest has computed nothing.
LEMMA RestIs ==
    ASSUME NEW es
    PROVE  /\ AtRest \in WorkRec /\ AtRest.rows = <<>> /\ AtRest.op = "idle" /\ Worked(es, AtRest)
           /\ AtRest.warned = FALSE /\ AtRest.fresh = TRUE
<1>1. PICK e : e = <<>>
  OBVIOUS
<1>2. e \in Seq(EntryRec) /\ Len(e) = 0
  BY <1>1
<1>3. PICK w : w = AtRest
  OBVIOUS
<1>4. w \in WorkRec /\ w.rows = e /\ w.op = "idle" /\ w.warned = FALSE /\ w.fresh = TRUE
  BY <1>1, <1>2, <1>3 DEF AtRest, WorkRec
<1>5. Prepared(w.rows)
  BY <1>2, <1>4 DEF Prepared
<1>6. Worked(es, w)
  BY <1>1, <1>2, <1>4, <1>5 DEF Worked
<1> QED BY <1>1, <1>3, <1>4, <1>6

\* What was computed before others wrote.
LEMMA OutdatedIs ==
    ASSUME NEW w \in WorkRec, NEW es, NEW fs, Worked(es, w)
    PROVE  LET v == IF w.op = "idle" THEN w ELSE [w EXCEPT !.fresh = FALSE]
           IN  v \in WorkRec /\ Worked(fs, v)
<1>1. CASE w.op = "idle"
  <2>1. w.rows = <<>> /\ Prepared(w.rows) /\ Len(w.rows) = 0
    BY <1>1 DEF Worked
  <2> QED BY <1>1, <2>1 DEF Worked
<1>2. CASE w.op # "idle"
  <2>1. PICK v : v = [w EXCEPT !.fresh = FALSE]
    OBVIOUS
  <2>2. v \in WorkRec /\ v.rows = w.rows /\ v.op = w.op /\ v.warned = w.warned /\ v.fresh = FALSE
    BY <2>1 DEF WorkRec
  <2>3. Worked(fs, v)
    BY <1>2, <2>2 DEF Worked
  <2> QED BY <1>2, <2>1, <2>2, <2>3
<1> QED BY <1>1, <1>2

\* The requests after something was written.
LEMMA AllOutdated ==
    ASSUME NEW r, NEW es, NEW fs, work \in [Keepers -> WorkRec], \A q \in Keepers : Worked(es, work[q])
    PROVE  Outdated(r) \in [Keepers -> WorkRec] /\ \A q \in Keepers : Worked(fs, Outdated(r)[q])
<1>1. PICK o : o = Outdated(r)
  OBVIOUS
<1>2. ASSUME NEW q \in Keepers PROVE o[q] \in WorkRec /\ Worked(fs, o[q])
  <2>1. PICK w \in WorkRec : w = work[q]
    OBVIOUS
  <2>2. Worked(es, w)
    BY <2>1
  <2>3. o[q] = AtRest \/ o[q] = IF w.op = "idle" THEN w ELSE [w EXCEPT !.fresh = FALSE]
    BY <1>1, <2>1 DEF Outdated
  <2> QED BY <2>2, <2>3, OutdatedIs, RestIs
<1>3. o = [q \in Keepers |-> o[q]]
  BY <1>1 DEF Outdated
<1> QED BY <1>1, <1>2, <1>3

\* A row is inserted.
LEMMA RowsKeep ==
    ASSUME JournalInv, NEW r, NEW rows, Prepared(rows), Insert(r, rows), UNCHANGED <<day, executed, opening>>,
           causes' = {} => /\ causes = {}
                           /\ \A i \in 1..Len(rows) : rows[i].side = "sell" =>
                                 Later(entries, rows[i].sym, rows[i].date) = {} /\ ~Warned(entries, rows, i)
    PROVE  JournalInv'
<1>1. /\ nextEntry \in Nat /\ nextEntry # 0 /\ Entered(entries) /\ \A e \in entries : e.id < nextEntry
  BY DEF JournalInv, JournalTypes
<1>2. rows \in Seq(EntryRec) /\ Len(rows) \in Nat
  BY DEF Prepared
<1>3. entries' = entries \cup RowsTo(rows, nextEntry, Len(rows)) /\ nextEntry' = nextEntry + Len(rows)
  BY DEF Insert, RowsTo, Row
<1>4. Entered(entries') /\ (\A e \in entries' : e.id < nextEntry') /\ nextEntry' \in Nat \ {0}
  <2>1. PICK k \in 0..Len(rows) : k = Len(rows)
    BY <1>2
  <2>2. /\ Entered(entries \cup RowsTo(rows, nextEntry, k))
        /\ \A e \in entries \cup RowsTo(rows, nextEntry, k) : e.id < nextEntry + k
    BY <1>1, <1>2, RowsEntered
  <2> QED BY <1>1, <1>2, <1>3, <2>1, <2>2
<1>5. shown' \in [qty : Nat, complete : BOOLEAN]
  BY DEF Insert, JournalInv, JournalTypes
<1>6. work' \in [Keepers -> WorkRec] /\ WorkHolds'
  BY AllOutdated DEF Insert, JournalInv, JournalTypes, WorkHolds
<1>7. SalesCovered'
  <2> SUFFICES ASSUME causes' = {}, NEW s \in Symbols PROVE Covered(Of(entries', s))
    BY DEF SalesCovered
  <2>1. Covered(Of(entries, s))
    BY DEF JournalInv, SalesCovered
  <2> QED BY <1>1, <1>3, <2>1, RowsCovered
<1> QED BY <1>4, <1>5, <1>6, <1>7 DEF JournalInv, JournalTypes

\* The same when nothing is written.
LEMMA UnwrittenKeeps ==
    ASSUME JournalInv, UNCHANGED <<entries, nextEntry, causes>>, day' \in Nat, opening' \in Nat,
           executed' \subseteq Execs, IsFiniteSet(executed'), shown' \in [qty : Nat, complete : BOOLEAN],
           work' \in [Keepers -> WorkRec], \A q \in Keepers : work'[q] = work[q] \/ Worked(entries, work'[q])
    PROVE  JournalInv'
<1>1. WorkHolds'
  <2> SUFFICES ASSUME NEW q \in Keepers PROVE Worked(entries', work'[q])
    BY DEF WorkHolds
  <2>1. Worked(entries, work[q])
    BY DEF JournalInv, WorkHolds
  <2> QED BY <2>1
<1>2. SalesCovered' /\ JournalTypes'
  BY DEF JournalInv, SalesCovered, JournalTypes
<1> QED BY <1>1, <1>2 DEF JournalInv

\* One row is in order.
LEMMA OneRow ==
    ASSUME NEW e \in EntryRec
    PROVE  /\ Prepared(<<e>>) /\ Len(<<e>>) = 1 /\ <<e>>[1] = e /\ <<e>> \in Seq(EntryRec)
           /\ \A i \in 1..Len(<<e>>) : <<e>>[i] = e
<1>1. PICK q : q = <<e>>
  OBVIOUS
<1>2. q \in Seq(EntryRec) /\ Len(q) = 1 /\ q[1] = e /\ \A i \in 1..1 : q[i] = e
  BY <1>1
<1>3. Prepared(q)
  BY <1>2 DEF Prepared
<1> QED BY <1>1, <1>2, <1>3

\* The entries the user writes.
LEMMA EntryIs ==
    ASSUME NEW side \in Sides, NEW d \in Nat, NEW n \in Nat \ {0}, NEW f, f.sym \in Symbols, f.code \in BOOLEAN,
           NEW ref \in RefSet
    PROVE  LET e == Entry(side, d, n, f, ref)
           IN  e \in EntryRec /\ e.side = side /\ e.date = d /\ e.qty = n /\ e.sym = f.sym /\ e.ref = ref
  BY DEF Entry, EntryRec

-----------------------------------------------------------------------------

\* An empty journal.
LEMMA JournalStarts == JournalInit => JournalInv
<1> SUFFICES ASSUME JournalInit PROVE JournalInv
  OBVIOUS
<1>1. opening \in Nat /\ day \in Nat
  BY JournalAssumption DEF JournalInit
<1>2. entries = {} /\ executed = {} /\ Entered({})
  BY FS_EmptySet DEF JournalInit, Entered, Apart
<1>3. work \in [Keepers -> WorkRec] /\ WorkHolds
  <2>1. \A r \in Keepers : work[r] = AtRest
    BY DEF JournalInit
  <2>2. work = [r \in Keepers |-> AtRest]
    BY DEF JournalInit
  <2> QED BY <2>1, <2>2, RestIs DEF WorkHolds
<1>4. shown \in [qty : Nat, complete : BOOLEAN]
  BY DEF JournalInit, NoOffer
<1>5. SalesCovered
  <2>1. ASSUME NEW s PROVE Covered(Of({}, s))
    BY DEF Covered, Of
  <2> QED BY <1>2, <2>1 DEF SalesCovered
<1>6. JournalTypes
  BY <1>1, <1>2, <1>3, <1>4, FS_EmptySet DEF JournalTypes, JournalInit
<1> QED BY <1>3, <1>5, <1>6 DEF JournalInv

\* A purchase by hand.
LEMMA AddBuyKeeps == ASSUME JournalInv, NEW r \in Keepers, AddBuy(r) PROVE JournalInv'
<1>1. PICK f \in Forms, d \in 1..day, n \in 1..2 : Insert(r, <<Entry("buy", d, n, f, NoRef)>>)
  BY DEF AddBuy
<1>2. f.sym \in Symbols /\ f.code \in BOOLEAN /\ d \in Nat /\ n \in Nat \ {0} /\ NoRef \in RefSet /\ "buy" \in Sides
  BY JournalAssumption DEF Symbols, JournalInv, JournalTypes, NoRef, RefSet, Sides
<1>3. PICK e \in EntryRec : e = Entry("buy", d, n, f, NoRef) /\ e.side = "buy"
  <2>1. PICK e : e = Entry("buy", d, n, f, NoRef)
    OBVIOUS
  <2>2. e \in EntryRec /\ e.side = "buy"
    BY <1>2, <2>1, EntryIs
  <2> QED BY <2>1, <2>2
<1>4. Insert(r, <<e>>) /\ Prepared(<<e>>) /\ \A i \in 1..Len(<<e>>) : <<e>>[i].side = "buy"
  BY <1>1, <1>3, OneRow
<1>5. UNCHANGED <<day, executed, opening, causes>>
  BY DEF AddBuy
<1>6. PICK rows : rows = <<e>>
  OBVIOUS
<1> QED BY <1>4, <1>5, <1>6, RowsKeep

\* The check of a sale finds its shares.
LEMMA BeginSellKeeps == ASSUME JournalInv, NEW r \in Keepers, BeginSell(r) PROVE JournalInv'
<1>1. PICK f \in Forms, d \in 1..day, n \in 1..2 :
        /\ n <= HeldAt(entries, f.sym, d)
        /\ work' = [work EXCEPT ![r] = [AtRest EXCEPT !.op = "sell", !.rows = <<Entry("sell", d, n, f, NoRef)>>]]
  BY DEF BeginSell, Sellable
<1>2. f.sym \in Symbols /\ f.code \in BOOLEAN /\ d \in Nat /\ n \in Nat \ {0} /\ NoRef \in RefSet /\ "sell" \in Sides
  BY JournalAssumption DEF Symbols, JournalInv, JournalTypes, NoRef, RefSet, Sides
<1>3. PICK e \in EntryRec : /\ e = Entry("sell", d, n, f, NoRef) /\ e.side = "sell" /\ e.sym = f.sym
                            /\ e.date = d /\ e.qty = n
  BY <1>2, EntryIs
<1>4. PICK rows : rows = <<e>>
  OBVIOUS
<1>5. /\ rows \in Seq(EntryRec) /\ Prepared(rows) /\ Len(rows) = 1 /\ rows[1] = e
      /\ \A i \in 1..Len(rows) : i = 1
  BY <1>4, OneRow
<1>6. PICK v : v = [AtRest EXCEPT !.op = "sell", !.rows = rows]
  OBVIOUS
<1>7. v \in WorkRec /\ v.rows = rows /\ v.op = "sell" /\ v.warned = FALSE
  BY <1>5, <1>6, RestIs DEF WorkRec
<1>8. ~Warned(entries, rows, 1)
  <2>1. PICK K : K = {k \in 1..(1 - 1) : rows[k].date <= rows[1].date}
    OBVIOUS
  <2>2. K = {}
    BY <2>1
  <2>3. RowSum(rows, K) = 0
    <3> DEFINE P(g) == g = [t \in SUBSET {} |-> IF t = {} THEN 0 ELSE LET x == CHOOSE x \in t : TRUE
                            IN Signed(rows[x]) + g[t \ {x}]]
               h == [x \in {} |-> Signed(rows[x])]
    <3>1. RowSum(rows, {}) = (CHOOSE g : P(g))[{}]
      BY DEF RowSum, MapThenSumSet, MapThenFoldSet
    <3>2. ASSUME NEW g PROVE P(g) <=> Iterates(g, h, {})
      BY DEF Iterates, SumFrom
    <3>3. (CHOOSE g : P(g)) = (CHOOSE g : Iterates(g, h, {}))
      <4> HIDE DEF P, h
      <4> QED BY <3>2, Zenon
    <3> QED BY <2>2, <3>1, <3>3, SumIsIterated, SumEmpty
  <2>4. HeldAt(entries, e.sym, e.date) \in Int
    <3>1. {x \in entries : x.sym = e.sym /\ x.date <= e.date} \subseteq EntryRec
          /\ IsFiniteSet({x \in entries : x.sym = e.sym /\ x.date <= e.date})
      BY FS_Subset DEF JournalInv, JournalTypes, Entered
    <3> QED BY <3>1, NetSums DEF HeldAt
  <2>5. ~(e.qty > HeldAt(entries, e.sym, e.date) + RowSum(rows, K))
    BY <1>1, <1>3, <2>3, <2>4
  <2> QED BY <1>5, <2>1, <2>5 DEF Warned, RowSum
<1>9. Worked(entries, v)
  BY <1>3, <1>5, <1>7, <1>8 DEF Worked
<1>10. work' = [work EXCEPT ![r] = v]
  BY <1>1, <1>3, <1>4, <1>6
<1>11. work' \in [Keepers -> WorkRec] /\ \A q \in Keepers : work'[q] = work[q] \/ Worked(entries, work'[q])
  BY <1>7, <1>9, <1>10 DEF JournalInv, JournalTypes
<1>12. UNCHANGED <<day, executed, opening, entries, nextEntry, shown, causes>>
  BY DEF BeginSell
<1> QED BY <1>11, <1>12, UnwrittenKeeps DEF JournalInv, JournalTypes

\* The sale is written: unless nothing was written since the check, it counts as a race.
LEMMA CommitSellKeeps == ASSUME JournalInv, NEW r \in Keepers, CommitSell(r) PROVE JournalInv'
<1>1. PICK w \in WorkRec : w = work[r]
  BY DEF JournalInv, JournalTypes
<1>2. Worked(entries, w) /\ w.op = "sell"
  BY <1>1 DEF JournalInv, WorkHolds, CommitSell
<1>3. PICK rows : rows = w.rows
  OBVIOUS
<1>4. Prepared(rows) /\ Len(rows) = 1 /\ ~w.warned /\ (w.fresh => ~Warned(entries, rows, 1))
  BY <1>2, <1>3 DEF Worked
<1>5. /\ Insert(r, rows)
      /\ causes' = causes \cup (IF ~w.fresh THEN {"race"} ELSE {})
                          \cup (IF Later(entries, rows[1].sym, rows[1].date) # {} THEN {"backdated"} ELSE {})
      /\ UNCHANGED <<day, executed, opening>>
  BY <1>1, <1>3 DEF CommitSell
<1>6. ASSUME causes' = {}
      PROVE  causes = {} /\ w.fresh /\ Later(entries, rows[1].sym, rows[1].date) = {}
  BY <1>5, <1>6
<1>7. \A i \in 1..Len(rows) : i = 1
  BY <1>4
<1> QED BY <1>4, <1>5, <1>6, <1>7, RowsKeep

\* A row deleted.
LEMMA DeleteKeeps == ASSUME JournalInv, NEW r \in Keepers, DeleteEntry(r) PROVE JournalInv'
<1>1. PICK e \in entries : /\ entries' = entries \ {e}
                           /\ causes' = causes \cup (IF e.side = "buy" THEN {"deleted"} ELSE {})
  BY DEF DeleteEntry
<1>2. Entered(entries') /\ (\A x \in entries' : x.id < nextEntry') /\ nextEntry' \in Nat \ {0}
  <2>1. Entered(entries) /\ nextEntry' = nextEntry /\ nextEntry \in Nat \ {0} /\ \A x \in entries : x.id < nextEntry
    BY DEF JournalInv, JournalTypes, DeleteEntry
  <2> QED BY <1>1, <2>1, FS_RemoveElement DEF Entered, Apart
<1>3. work' \in [Keepers -> WorkRec] /\ WorkHolds'
  BY AllOutdated DEF DeleteEntry, JournalInv, JournalTypes, WorkHolds
<1>4. shown' \in [qty : Nat, complete : BOOLEAN]
  BY DEF DeleteEntry, JournalInv, JournalTypes
<1>5. SalesCovered'
  <2> SUFFICES ASSUME causes' = {}, NEW s \in Symbols PROVE Covered(Of(entries', s))
    BY DEF SalesCovered
  <2>1. causes = {} /\ e.side = "sell"
    <3>1. e.side \in Sides
      BY DEF JournalInv, JournalTypes, Entered, EntryRec
    <3> QED BY <1>1, <3>1 DEF Sides
  <2>2. PICK T : T = Of(entries, s)
    OBVIOUS
  <2>3. Covered(T) /\ Entered(T)
    <3>1. T \subseteq entries
      BY <2>2 DEF Of
    <3> QED BY <2>1, <2>2, <3>1, FS_Subset DEF JournalInv, SalesCovered, JournalTypes, Entered, Apart
  <2>4. CASE e \in T
    <3>1. Of(entries', s) = T \ {e}
      BY <1>1, <2>2 DEF Of
    <3> QED BY <2>1, <2>3, <2>4, <3>1, DropCovers
  <2>5. CASE e \notin T
    <3>1. Of(entries', s) = T
      BY <1>1, <2>2, <2>5 DEF Of
    <3> QED BY <2>3, <3>1
  <2> QED BY <2>4, <2>5
<1>6. UNCHANGED <<day, executed, opening>>
  BY DEF DeleteEntry
<1> QED BY <1>2, <1>3, <1>4, <1>5, <1>6 DEF JournalInv, JournalTypes

\* Where an instrument is booked.
LEMMA MatchIs == ASSUME JournalInv, NEW s \in Matches(entries) PROVE s \in Symbols
  BY DEF Matches, Symbols, JournalInv, JournalTypes, Entered, EntryRec

\* An import computes its rows and warns of sales that find too little.
LEMMA BeginImportKeeps == ASSUME JournalInv, NEW r \in Keepers, BeginImport(r) PROVE JournalInv'
<1>1. PICK s \in Matches(entries) :
        work' = [work EXCEPT ![r] = [AtRest EXCEPT !.op = "import", !.rows = NewRows(entries, Fetched(r), s),
                       !.warned = \E i \in 1..Len(NewRows(entries, Fetched(r), s)) :
                                      Warned(entries, NewRows(entries, Fetched(r), s), i)]]
  BY DEF BeginImport
<1>2. s \in Symbols
  BY MatchIs
<1>3. PICK rows : rows = NewRows(entries, Fetched(r), s)
  OBVIOUS
<1>4. Prepared(rows)
  <2>1. Fetched(r) \subseteq Execs /\ IsFiniteSet(Fetched(r))
    <3>1. Fetched(r) \subseteq executed
      BY DEF Fetched
    <3> QED BY <3>1, FS_Subset DEF JournalInv, JournalTypes
  <2> QED BY <1>2, <1>3, <2>1, NewRowsAre
<1>5. PICK b \in BOOLEAN : b = \E i \in 1..Len(rows) : Warned(entries, rows, i)
  OBVIOUS
<1>6. PICK v : v = [AtRest EXCEPT !.op = "import", !.rows = rows, !.warned = b]
  OBVIOUS
<1>7. v \in WorkRec /\ v.rows = rows /\ v.op = "import" /\ v.warned = b
  <2>1. rows \in Seq(EntryRec)
    BY <1>4 DEF Prepared
  <2> QED BY <1>6, <2>1, RestIs DEF WorkRec
<1>8. Worked(entries, v)
  BY <1>4, <1>5, <1>7 DEF Worked
<1>9. work' = [work EXCEPT ![r] = v]
  BY <1>1, <1>3, <1>5, <1>6
<1>10. work' \in [Keepers -> WorkRec] /\ \A q \in Keepers : work'[q] = work[q] \/ Worked(entries, work'[q])
  BY <1>7, <1>8, <1>9 DEF JournalInv, JournalTypes
<1>11. UNCHANGED <<day, executed, opening, entries, nextEntry, shown, causes>>
  BY DEF BeginImport
<1> QED BY <1>10, <1>11, UnwrittenKeeps DEF JournalInv, JournalTypes

\* The rows of an import are written, all or none.
LEMMA CommitImportKeeps == ASSUME JournalInv, NEW r \in Keepers, CommitImport(r) PROVE JournalInv'
<1>1. PICK w \in WorkRec : w = work[r]
  BY DEF JournalInv, JournalTypes
<1>2. PICK rows : rows = w.rows
  OBVIOUS
<1>3. Worked(entries, w) /\ Prepared(rows)
  BY <1>1, <1>2 DEF JournalInv, WorkHolds, Worked
<1>4. UNCHANGED <<day, executed, opening>>
  BY DEF CommitImport
<1>5. CASE Clash(rows) \/ rows = <<>>
  <2>1. work' = [work EXCEPT ![r] = AtRest] /\ UNCHANGED <<entries, nextEntry, causes, shown>>
    BY <1>1, <1>2, <1>5 DEF CommitImport
  <2>2. work' \in [Keepers -> WorkRec] /\ \A q \in Keepers : work'[q] = work[q] \/ Worked(entries, work'[q])
    BY <2>1, RestIs DEF JournalInv, JournalTypes
  <2> QED BY <1>4, <2>1, <2>2, UnwrittenKeeps DEF JournalInv, JournalTypes
<1>6. CASE ~(Clash(rows) \/ rows = <<>>)
  <2> DEFINE sales == {i \in 1..Len(rows) : rows[i].side = "sell"}
  <2>1. /\ Insert(r, rows)
        /\ causes' = causes \cup (IF w.warned THEN {"warned"} ELSE {})
             \cup (IF \E i \in sales : Later(entries, rows[i].sym, rows[i].date) # {} THEN {"backdated"} ELSE {})
             \cup (IF sales # {} /\ ~w.fresh THEN {"race"} ELSE {})
    BY <1>1, <1>2, <1>6 DEF CommitImport
  <2>2. ASSUME causes' = {}
        PROVE  /\ causes = {}
               /\ \A i \in 1..Len(rows) : rows[i].side = "sell" =>
                    Later(entries, rows[i].sym, rows[i].date) = {} /\ ~Warned(entries, rows, i)
    <3>1. causes = {} /\ ~w.warned /\ (sales = {} \/ w.fresh)
          /\ \A i \in sales : Later(entries, rows[i].sym, rows[i].date) = {}
      <4> HIDE DEF sales
      <4> QED BY <2>1, <2>2
    <3>2. w.fresh => \A i \in 1..Len(rows) : ~Warned(entries, rows, i)
      BY <1>2, <1>3, <3>1 DEF Worked
    <3> QED BY <3>1, <3>2
  <2> QED BY <1>3, <1>4, <2>1, <2>2, RowsKeep
<1> QED BY <1>5, <1>6

\* What the broker holds, and what the balance dialog offers, are amounts.
LEMMA OfferIs == ASSUME JournalInv, NEW s PROVE Offer(s) \in Nat /\ AtBroker \in Int /\ Position(entries, s) \in Int
<1>1. NetOf(executed) \in Int
  <2> DEFINE h == [x \in executed |-> Signed(x)]
  <2>1. \A x \in executed : h[x] \in Int
    <3> SUFFICES ASSUME NEW x \in executed PROVE Signed(x) \in Int
      OBVIOUS
    <3>1. x.qty \in Nat
      BY JournalAssumption DEF JournalInv, JournalTypes
    <3> QED BY <3>1 DEF Signed
  <2>2. NetOf(executed) = SumOver(h, executed)
    BY NetIsSum
  <2> HIDE DEF h
  <2>3. Integral(h, executed) /\ IsFiniteSet(executed)
    BY <2>1 DEF Integral, JournalInv, JournalTypes
  <2> QED BY <2>2, <2>3, SumInteger
<1>2. Position(entries, s) \in Int
  <2>1. Of(entries, s) \subseteq EntryRec /\ IsFiniteSet(Of(entries, s))
    BY FS_Subset DEF JournalInv, JournalTypes, Entered, Of
  <2> QED BY <2>1, NetSums DEF Position
<1>3. AtBroker \in Int
  BY <1>1 DEF AtBroker, JournalInv, JournalTypes
<1> QED BY <1>2, <1>3 DEF Offer, Most

\* The balance is looked at.
LEMMA ShowKeeps == ASSUME JournalInv, ShowHoldings PROVE JournalInv'
<1>1. PICK s : shown' = [qty |-> Offer(s), complete |-> Complete]
  BY DEF ShowHoldings
<1>2. shown' \in [qty : Nat, complete : BOOLEAN]
  <2>1. PICK b \in BOOLEAN : b = Complete
    BY DEF Complete
  <2> QED BY <1>1, <2>1, OfferIs
<1>3. UNCHANGED <<day, executed, opening, entries, nextEntry, work, causes>>
  BY DEF ShowHoldings
<1> QED BY <1>2, <1>3, UnwrittenKeeps DEF JournalInv, JournalTypes

\* An opening row is written.
LEMMA ImportHoldingsKeeps == ASSUME JournalInv, ImportHoldings PROVE JournalInv'
<1>1. UNCHANGED <<day, executed, opening, causes>> /\ shown.qty > 0
  BY DEF ImportHoldings
<1>2. CASE BalanceRef(day) \in Known(entries)
  <2>1. UNCHANGED <<entries, nextEntry, work, shown>>
    BY <1>2 DEF ImportHoldings
  <2> QED BY <1>1, <2>1, UnwrittenKeeps DEF JournalInv, JournalTypes
<1>3. CASE BalanceRef(day) \notin Known(entries)
  <2>1. PICK s \in Matches(entries) :
          Insert("user", <<Entry("buy", day, shown.qty, [sym |-> s, code |-> TRUE], BalanceRef(day))>>)
    BY <1>3 DEF ImportHoldings
  <2>2. PICK f : f = [sym |-> s, code |-> TRUE]
    OBVIOUS
  <2>3. PICK n \in Nat : n = shown.qty
    BY DEF JournalInv, JournalTypes
  <2>4. f.sym \in Symbols /\ f.code \in BOOLEAN /\ n \in Nat \ {0} /\ day \in Nat /\ BalanceRef(day) \in RefSet /\ "buy" \in Sides
    BY <1>1, <2>2, <2>3, MatchIs DEF JournalInv, JournalTypes, BalanceRef, RefSet, Sides
  <2>5. PICK e \in EntryRec : e = Entry("buy", day, n, f, BalanceRef(day)) /\ e.side = "buy"
    BY <2>4, EntryIs
  <2>6. PICK rows : rows = <<e>>
    OBVIOUS
  <2>7. Insert("user", rows) /\ Prepared(rows) /\ \A i \in 1..Len(rows) : rows[i].side = "buy"
    BY <2>1, <2>2, <2>3, <2>5, <2>6, OneRow
  <2> QED BY <1>1, <2>7, RowsKeep
<1> QED BY <1>2, <1>3

\* The broker, the days and the switches of the journal.
LEMMA ElseKeeps == ASSUME JournalInv, CloseOrReopen \/ Link \/ ExecuteShare \/ NextDay PROVE JournalInv'
<1>1. UNCHANGED <<entries, nextEntry, causes, opening, shown, work>> /\ day' \in Nat
  BY DEF CloseOrReopen, Link, ExecuteShare, NextDay, JournalInv, JournalTypes
<1>2. executed' \subseteq Execs /\ IsFiniteSet(executed')
  <2>1. executed' = executed \/ \E x \in Execs : executed' = executed \cup {x}
    BY DEF CloseOrReopen, Link, ExecuteShare, NextDay
  <2> QED BY <2>1, FS_AddElement DEF JournalInv, JournalTypes
<1> QED BY <1>1, <1>2, UnwrittenKeeps DEF JournalInv, JournalTypes

\* Every step.
LEMMA JournalStep == ASSUME JournalInv, [JournalNext]_journalVars PROVE JournalInv'
<1>1. CASE UNCHANGED journalVars
  <2>1. UNCHANGED <<entries, nextEntry, causes, opening, shown, work, day, executed>>
    BY <1>1 DEF journalVars
  <2> QED BY <2>1, UnwrittenKeeps DEF JournalInv, JournalTypes
<1>2. CASE JournalNext
  BY <1>2, AddBuyKeeps, BeginSellKeeps, CommitSellKeeps, DeleteKeeps, BeginImportKeeps, CommitImportKeeps,
     ShowKeeps, ImportHoldingsKeeps, ElseKeeps DEF JournalNext
<1> QED BY <1>1, <1>2

\* Always.
LEMMA JournalHolds == JournalSpec => []JournalInv
<1>1. JournalInit => JournalInv
  BY JournalStarts
<1>2. JournalInv /\ [JournalNext]_journalVars => JournalInv'
  BY JournalStep
<1> QED BY <1>1, <1>2, PTL DEF JournalSpec

\* The books agree wherever the sales are covered.
LEMMA BooksFollow == JournalInv => BooksAgree
<1> SUFFICES ASSUME JournalInv PROVE BooksAgree
  OBVIOUS
<1>1. \A s : Agrees(Book(entries, s), CurveLots(entries, s), Of(entries, s), Covered(Of(entries, s)))
  BY BooksHold DEF JournalInv, JournalTypes
<1>2. ASSUME causes = {} PROVE Flaws = {}
  <2>1. \A s \in Symbols : Book(entries, s).flaws = {}
    BY <1>1, <1>2 DEF JournalInv, SalesCovered, Agrees
  <2> QED BY <2>1 DEF Flaws
<1>3. ASSUME NEW s \in Symbols
      PROVE  LET book == Book(entries, s)
                 bought == {e \in Of(entries, s) : e.side = "buy"}
             IN  /\ CostOf(bought) = book.matched + CostOf(book.lots)
                 /\ book.flaws = {} => /\ QtyOf(book.lots) = Position(entries, s)
                                       /\ CurveLots(entries, s) = book.lots
  BY <1>1 DEF Agrees, BuysOf, Position
<1> QED BY <1>2, <1>3 DEF BooksAgree

\* Every purchase is matched or still a lot, share for share and won for won; as long as no
\* row is marked the overview, the curve and the sum of the checks hold the same; and a row
\* is marked only after one of the named causes (mjournal.py:103, 329, 473, 703, 1077).
THEOREM BooksMatch == JournalSpec => []BooksAgree
<1>1. JournalInv => BooksAgree
  BY BooksFollow
<1> QED BY <1>1, JournalHolds, PTL

RefOnce(es) == \A e, f \in es : e.ref = f.ref /\ e.ref # NoRef => e = f
\* e is the row of one of the executions.
RowOf(e, x) == e.ref = FillRef(x) /\ e.side = x.side /\ e.qty = x.qty
FillIn(e, xs) == \E x \in xs : RowOf(e, x)
BalancesOf(es) == {e \in es : e.ref[1] = "bal"}
KnownExecs(es, xs) == {x \in xs : FillRef(x) \in Known(es)}
\* Nothing but imports and opening rows, all under the broker's name.
Plain(es, xs) == \A e \in es : e.sym = Name /\ e.code /\ (FillIn(e, xs) \/ (e.ref[1] = "bal" /\ e.side = "buy"))
RowsOf(w, xs, pure) ==
    /\ w.op = "sell" => w.rows[1].ref = NoRef
    /\ w.op = "import" => /\ \A i \in 1..Len(w.rows) : /\ FillIn(w.rows[i], xs)
                                                       /\ pure => w.rows[i].sym = Name /\ w.rows[i].code
                          /\ \A i, j \in 1..Len(w.rows) : w.rows[i].ref = w.rows[j].ref => i = j
GapInv ==
    /\ JournalInv /\ RefOnce(entries) /\ clean \in BOOLEAN
    /\ \A r \in Keepers : RowsOf(work[r], executed, clean)
    /\ clean => /\ Plain(entries, executed)
                /\ BalancesOf(entries) # {} => NetOf(BalancesOf(entries)) = opening
                /\ shown.complete /\ shown.qty > 0 => NetOf(BalancesOf(entries)) + shown.qty = opening

\* Each imported row stands for one execution, so the two sums are the same.
LEMMA FillsMatch ==
    ASSUME JournalInv, RefOnce(entries), Plain(entries, executed)
    PROVE  /\ NetOf(entries) = NetOf(BalancesOf(entries)) + NetOf(KnownExecs(entries, executed))
           /\ NetOf(BalancesOf(entries)) \in Int /\ NetOf(KnownExecs(entries, executed)) \in Int
           /\ NetOf(entries) \in Int
<1> DEFINE F == entries \ BalancesOf(entries)
           m == [e \in F |-> CHOOSE x \in executed : RowOf(e, x)]
           K == KnownExecs(entries, executed)
           g == [x \in Execs |-> Signed(x)]
           h == [e \in F |-> g[m[e]]]
<1>1. /\ entries \subseteq EntryRec /\ IsFiniteSet(entries) /\ executed \subseteq Execs /\ IsFiniteSet(executed)
  BY DEF JournalInv, JournalTypes, Entered
<1>2. /\ F \subseteq EntryRec /\ IsFiniteSet(F) /\ BalancesOf(entries) \subseteq EntryRec /\ IsFiniteSet(BalancesOf(entries))
      /\ F \cap BalancesOf(entries) = {} /\ entries = BalancesOf(entries) \cup F /\ F \subseteq entries
  <2>1. F \subseteq entries /\ BalancesOf(entries) \subseteq entries
    BY DEF BalancesOf
  <2> QED BY <1>1, <2>1, FS_Subset
<1>3. ASSUME NEW e \in F
      PROVE  /\ m[e] \in executed /\ RowOf(e, m[e]) /\ m[e] \in K
             /\ g[m[e]] = Signed(e) /\ g[m[e]] \in Int
  <2>1. \E x \in executed : RowOf(e, x)
    <3>1. e \in entries /\ ~(e.ref[1] = "bal")
      BY DEF BalancesOf
    <3> QED BY <3>1 DEF Plain, FillIn
  <2>2. m[e] \in executed /\ RowOf(e, m[e])
    BY <2>1
  <2>3. PICK x \in executed : x = m[e]
    BY <2>2
  <2>4. x \in Execs /\ x.qty \in Nat
    BY <1>1, JournalAssumption
  <2>5. Signed(x) = Signed(e) /\ Signed(x) \in Int /\ g[x] = Signed(x)
    BY <2>2, <2>3, <2>4 DEF RowOf, Signed
  <2>6. x \in K
    <3>1. e \in entries /\ e.ref = FillRef(x) /\ FillRef(x) # NoRef
      BY <1>2, <2>2, <2>3 DEF RowOf, FillRef, NoRef
    <3> QED BY <3>1 DEF KnownExecs, Known
  <2> HIDE DEF m, g, K
  <2> QED BY <2>2, <2>3, <2>5, <2>6
<1>4. \A x \in K : \E e \in F : m[e] = x
  <2> SUFFICES ASSUME NEW x \in K PROVE \E e \in F : m[e] = x
    OBVIOUS
  <2>1. PICK e \in entries : e.ref = FillRef(x) /\ x \in executed
    BY DEF KnownExecs, Known
  <2>2. e \in F
    BY <2>1 DEF BalancesOf, FillRef
  <2>3. FillRef(m[e]) = FillRef(x) /\ m[e] \in executed
    BY <1>3, <2>1, <2>2 DEF RowOf
  <2>4. PICK y \in executed : y = m[e]
    BY <2>3
  <2>5. y.no = x.no /\ y \in Execs /\ x \in Execs
    BY <1>1, <2>1, <2>3, <2>4 DEF FillRef
  <2>6. y = x
    BY <2>5, JournalAssumption
  <2> QED BY <2>2, <2>4, <2>6
<1>5. \A d, e \in F : m[d] = m[e] => d = e
  <2> SUFFICES ASSUME NEW d \in F, NEW e \in F, m[d] = m[e] PROVE d = e
    OBVIOUS
  <2>1. d.ref = e.ref /\ d.ref # NoRef
    <3>1. RowOf(d, m[d]) /\ RowOf(e, m[e])
      BY <1>3
    <3>2. RowOf(d, m[d]) /\ RowOf(e, m[d])
      BY <3>1
    <3> HIDE DEF m
    <3> QED BY <3>2 DEF RowOf, FillRef, NoRef
  <2> QED BY <1>2, <2>1 DEF RefOnce
<1> HIDE DEF m, K
<1>6. K = {m[e] : e \in F}
  BY <1>3, <1>4
<1>7. \A e \in F : h[e] = g[m[e]]
  OBVIOUS
<1>8. \A e \in F : g[m[e]] \in Int
  BY <1>3
<1>9. IsFiniteSet(K) /\ K \subseteq Execs
  BY <1>1, FS_Subset DEF K, KnownExecs
<1>10. NetOf(K) = SumOver(g, K)
  <2> DEFINE k == [x \in K |-> Signed(x)]
  <2>1. NetOf(K) = SumOver(k, K)
    BY NetIsSum
  <2>2. \A x \in K : k[x] = g[x] /\ k[x] \in Int
    <3> SUFFICES ASSUME NEW x \in K PROVE k[x] = g[x] /\ Signed(x) \in Int
      OBVIOUS
    <3>1. x.qty \in Nat
      BY <1>9, JournalAssumption
    <3> QED BY <1>9, <3>1 DEF Signed
  <2> HIDE DEF k, g
  <2>3. Integral(k, K)
    BY <2>2 DEF Integral
  <2> QED BY <1>9, <2>1, <2>2, <2>3, SumSame
<1> HIDE DEF g, F
<1>11. SumOver(g, {m[e] : e \in F}) = SumOver([e \in F |-> g[m[e]]], F)
  <2>1. IsFiniteSet(F) /\ (\A d, e \in F : m[d] = m[e] => d = e) /\ \A e \in F : g[m[e]] \in Int
    BY <1>2, <1>5, <1>8
  <2> QED BY <2>1, SumImage
<1>12. NetOf(F) = SumOver(SignedOf, F) /\ Integral(SignedOf, F) /\ NetOf(F) \in Int
       /\ \A e \in F : SignedOf[e] = Signed(e)
  BY <1>2, NetSums
<1>13. SumOver(h, F) = SumOver(SignedOf, F)
  <2>1. \A e \in F : SignedOf[e] = h[e]
    BY <1>3, <1>7, <1>12
  <2> HIDE DEF h
  <2> QED BY <1>2, <1>12, <2>1, SumSame
<1>14. NetOf(F) = NetOf(K)
  BY <1>6, <1>10, <1>11, <1>12, <1>13
<1>15. NetOf(entries) = NetOf(BalancesOf(entries)) + NetOf(F) /\ NetOf(BalancesOf(entries)) \in Int
  <2>1. /\ NetOf(BalancesOf(entries)) = SumOver(SignedOf, BalancesOf(entries)) /\ Integral(SignedOf, BalancesOf(entries))
        /\ NetOf(BalancesOf(entries)) \in Int /\ NetOf(entries) = SumOver(SignedOf, entries)
    BY <1>1, <1>2, NetSums
  <2>2. SumOver(SignedOf, BalancesOf(entries) \cup F) = SumOver(SignedOf, BalancesOf(entries)) + SumOver(SignedOf, F)
    BY <1>2, <1>12, <2>1, SumUnion
  <2> QED BY <1>2, <1>12, <2>1, <2>2
<1> QED BY <1>12, <1>14, <1>15 DEF K

\* The gap is filled wherever the opening rows make up the opening shares.
LEMMA GapFollows == GapInv => GapFilledOnce
<1> SUFFICES ASSUME GapInv PROVE GapFilledOnce
  OBVIOUS
<1>1. \A e, f \in entries : e.ref = f.ref /\ e.ref # NoRef => e = f
  BY DEF GapInv, RefOnce
<1>2. ASSUME clean, \E e \in entries : e.ref[1] = "bal"
      PROVE  NetOf(entries) = opening + NetOf({x \in executed : FillRef(x) \in Known(entries)})
  <2>1. BalancesOf(entries) # {}
    BY <1>2 DEF BalancesOf
  <2>2. NetOf(BalancesOf(entries)) = opening /\ Plain(entries, executed) /\ RefOnce(entries) /\ JournalInv
    BY <1>2, <2>1 DEF GapInv
  <2>3. NetOf(entries) = NetOf(BalancesOf(entries)) + NetOf(KnownExecs(entries, executed))
        /\ NetOf(KnownExecs(entries, executed)) \in Int
    BY <2>2, FillsMatch
  <2>4. opening \in Nat
    BY DEF GapInv, JournalInv, JournalTypes
  <2> QED BY <2>2, <2>3, <2>4 DEF KnownExecs
<1> QED BY <1>1, <1>2 DEF GapFilledOnce

\* Requests keep their rows when shares are executed or the journal is no longer pure.
LEMMA RowsStay ==
    ASSUME NEW w, NEW xs, NEW ys, xs \subseteq ys, NEW p \in BOOLEAN, NEW q \in BOOLEAN, q => p,
           RowsOf(w, xs, p)
    PROVE  RowsOf(w, ys, q)
<1>1. \A i : FillIn(w.rows[i], xs) => FillIn(w.rows[i], ys)
  BY DEF FillIn
<1> QED BY <1>1 DEF RowsOf

\* The same of the requests after something was written.
LEMMA RowsOutdated ==
    ASSUME NEW r, NEW w \in WorkRec, NEW xs, NEW p, RowsOf(w, xs, p)
    PROVE  RowsOf(AtRest, xs, p) /\ RowsOf(IF w.op = "idle" THEN w ELSE [w EXCEPT !.fresh = FALSE], xs, p)
<1>1. RowsOf(AtRest, xs, p)
  BY RestIs DEF RowsOf
<1>2. PICK v : v = [w EXCEPT !.fresh = FALSE]
  OBVIOUS
<1>3. v.rows = w.rows /\ v.op = w.op
  BY <1>2 DEF WorkRec
<1>4. RowsOf(v, xs, p)
  BY <1>3 DEF RowsOf
<1> QED BY <1>1, <1>2, <1>4

\* All requests after something was written.
LEMMA OutdatedRows ==
    ASSUME GapInv, NEW r, work' = Outdated(r), executed' = executed, clean' \in BOOLEAN, clean' => clean
    PROVE  \A q \in Keepers : RowsOf(work'[q], executed', clean')
<1> SUFFICES ASSUME NEW q \in Keepers PROVE RowsOf(work'[q], executed', clean')
  OBVIOUS
<1>1. PICK w \in WorkRec : w = work[q]
  BY DEF GapInv, JournalInv, JournalTypes
<1>2. RowsOf(w, executed, clean)
  BY <1>1 DEF GapInv
<1>3. RowsOf(w, executed', clean')
  BY <1>2, RowsStay DEF GapInv
<1>4. work'[q] = AtRest \/ work'[q] = IF w.op = "idle" THEN w ELSE [w EXCEPT !.fresh = FALSE]
  BY <1>1 DEF Outdated
<1> QED BY <1>3, <1>4, RowsOutdated

\* Rows inserted keep the references apart.
LEMMA InsertRefs ==
    ASSUME GapInv, NEW r, NEW rows \in Seq(EntryRec), Insert(r, rows),
           \A i, j \in 1..Len(rows) : rows[i].ref = rows[j].ref /\ rows[i].ref # NoRef => i = j,
           \A i \in 1..Len(rows) : rows[i].ref \notin Known(entries)
    PROVE  /\ RefOnce(entries')
           /\ \A q \in entries' : q \in entries \/ \E i \in 1..Len(rows) :
                 /\ q.ref = rows[i].ref /\ q.side = rows[i].side /\ q.qty = rows[i].qty
                 /\ q.sym = rows[i].sym /\ q.code = rows[i].code
           /\ entries \subseteq entries'
<1>0. nextEntry \in Nat /\ nextEntry # 0
  BY DEF GapInv, JournalInv, JournalTypes
<1>1. entries' = entries \cup {Row(rows, nextEntry, i) : i \in 1..Len(rows)}
  BY DEF Insert, Row
<1>2. \A i \in 1..Len(rows) : LET q == Row(rows, nextEntry, i)
                              IN  /\ q.ref = rows[i].ref /\ q.side = rows[i].side /\ q.qty = rows[i].qty
                                  /\ q.sym = rows[i].sym /\ q.code = rows[i].code
  BY <1>0, RowIs
<1>3. RefOnce(entries')
  <2> SUFFICES ASSUME NEW e \in entries', NEW f \in entries', e.ref = f.ref, e.ref # NoRef PROVE e = f
    BY DEF RefOnce
  <2>1. CASE e \in entries /\ f \in entries
    BY <2>1 DEF GapInv, RefOnce
  <2>2. ASSUME NEW x \in entries, NEW i \in 1..Len(rows), x.ref = rows[i].ref, x.ref # NoRef PROVE FALSE
    BY <2>2 DEF Known
  <2>3. CASE e \in entries /\ f \notin entries
    <3>1. PICK i \in 1..Len(rows) : f = Row(rows, nextEntry, i)
      BY <1>1, <2>3
    <3> QED BY <1>2, <2>2, <2>3, <3>1
  <2>4. CASE e \notin entries /\ f \in entries
    <3>1. PICK i \in 1..Len(rows) : e = Row(rows, nextEntry, i)
      BY <1>1, <2>4
    <3> QED BY <1>2, <2>2, <2>4, <3>1
  <2>5. CASE e \notin entries /\ f \notin entries
    <3>1. PICK i \in 1..Len(rows), j \in 1..Len(rows) : e = Row(rows, nextEntry, i) /\ f = Row(rows, nextEntry, j)
      BY <1>1, <2>5
    <3>2. i = j
      BY <1>2, <3>1
    <3> QED BY <3>1, <3>2
  <2> QED BY <2>1, <2>3, <2>4, <2>5
<1>4. \A q \in entries' : q \in entries \/ \E i \in 1..Len(rows) : q = Row(rows, nextEntry, i)
  BY <1>1
<1> QED BY <1>1, <1>2, <1>3, <1>4

\* An empty journal has no gap to fill.
LEMMA GapStarts == JournalInit => GapInv
<1> SUFFICES ASSUME JournalInit PROVE GapInv
  OBVIOUS
<1>1. JournalInv
  BY JournalStarts
<1>2. entries = {} /\ clean = TRUE /\ shown.complete = FALSE
  BY DEF JournalInit, NoOffer
<1>3. \A r \in Keepers : RowsOf(work[r], executed, clean)
  <2>1. \A r \in Keepers : work[r] = AtRest
    BY DEF JournalInit
  <2> QED BY <2>1, RestIs DEF RowsOf
<1>4. RefOnce(entries) /\ Plain(entries, executed) /\ BalancesOf(entries) = {}
  BY <1>2 DEF RefOnce, Plain, BalancesOf
<1> QED BY <1>1, <1>2, <1>3, <1>4 DEF GapInv

\* Written by hand: the journal is no longer pure.
LEMMA GapAddBuy == ASSUME GapInv, JournalInv', NEW r \in Keepers, AddBuy(r) PROVE GapInv'
<1>1. PICK f \in Forms, d \in 1..day, n \in 1..2 : Insert(r, <<Entry("buy", d, n, f, NoRef)>>)
  BY DEF AddBuy
<1>2. f.sym \in Symbols /\ f.code \in BOOLEAN /\ d \in Nat /\ n \in Nat \ {0} /\ NoRef \in RefSet /\ "buy" \in Sides
  BY JournalAssumption DEF Symbols, GapInv, JournalInv, JournalTypes, NoRef, RefSet, Sides
<1>3. PICK e \in EntryRec : e = Entry("buy", d, n, f, NoRef) /\ e.ref = NoRef
  BY <1>2, EntryIs
<1>4. PICK rows : rows = <<e>>
  OBVIOUS
<1>5. Insert(r, rows) /\ rows \in Seq(EntryRec) /\ \A i \in 1..Len(rows) : rows[i].ref = NoRef
  BY <1>1, <1>3, <1>4, OneRow
<1>6. RefOnce(entries')
  <2>1. NoRef \notin Known(entries)
    BY DEF Known
  <2> QED BY <1>5, <2>1, InsertRefs
<1>7. clean' = FALSE /\ executed' = executed /\ work' = Outdated(r)
  BY <1>5 DEF AddBuy, Insert
<1>8. \A q \in Keepers : RowsOf(work'[q], executed', clean')
  BY <1>7, OutdatedRows
<1> QED BY <1>6, <1>7, <1>8 DEF GapInv

\* A sale by hand.
LEMMA GapCommitSell == ASSUME GapInv, JournalInv', NEW r \in Keepers, CommitSell(r) PROVE GapInv'
<1>1. PICK w \in WorkRec : w = work[r]
  BY DEF GapInv, JournalInv, JournalTypes
<1>2. PICK rows : rows = w.rows
  OBVIOUS
<1>3. Worked(entries, w) /\ w.op = "sell" /\ RowsOf(w, executed, clean)
  BY <1>1 DEF GapInv, JournalInv, WorkHolds, CommitSell
<1>4. Insert(r, rows) /\ rows \in Seq(EntryRec) /\ Len(rows) = 1 /\ rows[1].ref = NoRef
  BY <1>1, <1>2, <1>3 DEF CommitSell, Worked, Prepared, RowsOf
<1>5. RefOnce(entries')
  <2>1. NoRef \notin Known(entries) /\ \A i \in 1..Len(rows) : i = 1
    BY <1>4 DEF Known
  <2> QED BY <1>4, <2>1, InsertRefs
<1>6. clean' = FALSE /\ executed' = executed /\ work' = Outdated(r)
  BY <1>4 DEF CommitSell, Insert
<1>7. \A q \in Keepers : RowsOf(work'[q], executed', clean')
  BY <1>6, OutdatedRows
<1> QED BY <1>5, <1>6, <1>7 DEF GapInv

\* A row deleted.
LEMMA GapDelete == ASSUME GapInv, JournalInv', NEW r \in Keepers, DeleteEntry(r) PROVE GapInv'
<1>1. RefOnce(entries')
  BY DEF DeleteEntry, GapInv, RefOnce
<1>2. clean' = FALSE /\ executed' = executed /\ work' = Outdated(r)
  BY DEF DeleteEntry
<1>3. \A q \in Keepers : RowsOf(work'[q], executed', clean')
  BY <1>2, OutdatedRows
<1> QED BY <1>1, <1>2, <1>3 DEF GapInv

\* Nothing written: only what one request computed, or the executions, may change.
LEMMA GapUnwritten ==
    ASSUME GapInv, JournalInv', UNCHANGED <<entries, opening, clean, shown>>, executed \subseteq executed',
           \A q \in Keepers : work'[q] = work[q] \/ RowsOf(work'[q], executed', clean)
    PROVE  GapInv'
<1>1. \A q \in Keepers : RowsOf(work'[q], executed', clean')
  <2> SUFFICES ASSUME NEW q \in Keepers PROVE RowsOf(work'[q], executed', clean')
    OBVIOUS
  <2>1. RowsOf(work[q], executed', clean)
    BY RowsStay DEF GapInv
  <2> QED BY <2>1
<1>2. clean => Plain(entries, executed')
  BY DEF GapInv, Plain, FillIn
<1> QED BY <1>1, <1>2 DEF GapInv

\* A sale computed.
LEMMA GapBeginSell == ASSUME GapInv, JournalInv', NEW r \in Keepers, BeginSell(r) PROVE GapInv'
<1>1. PICK f \in Forms, d \in 1..day, n \in 1..2 :
        work' = [work EXCEPT ![r] = [AtRest EXCEPT !.op = "sell", !.rows = <<Entry("sell", d, n, f, NoRef)>>]]
  BY DEF BeginSell
<1>2. PICK rows : rows = <<Entry("sell", d, n, f, NoRef)>>
  OBVIOUS
<1>3. rows[1].ref = NoRef
  BY <1>2 DEF Entry
<1>4. PICK v : v = [AtRest EXCEPT !.op = "sell", !.rows = rows]
  OBVIOUS
<1>5. v.rows = rows /\ v.op = "sell"
  BY <1>4 DEF AtRest
<1>6. work' = [work EXCEPT ![r] = v] /\ RowsOf(v, executed, clean)
  BY <1>1, <1>2, <1>3, <1>4, <1>5 DEF RowsOf
<1>7. UNCHANGED <<entries, opening, clean, shown, executed>>
  BY DEF BeginSell
<1>8. \A q \in Keepers : work'[q] = work[q] \/ RowsOf(work'[q], executed', clean)
  BY <1>6, <1>7 DEF GapInv, JournalInv, JournalTypes
<1> QED BY <1>7, <1>8, GapUnwritten

\* An import computed: one row for each execution that is not known yet.
LEMMA GapBeginImport == ASSUME GapInv, JournalInv', NEW r \in Keepers, BeginImport(r) PROVE GapInv'
<1>1. PICK s \in Matches(entries) :
        work' = [work EXCEPT ![r] = [AtRest EXCEPT !.op = "import", !.rows = NewRows(entries, Fetched(r), s),
                       !.warned = \E i \in 1..Len(NewRows(entries, Fetched(r), s)) :
                                      Warned(entries, NewRows(entries, Fetched(r), s), i)]]
  BY DEF BeginImport
<1>2. JournalInv
  BY DEF GapInv
<1>3. s \in Symbols /\ (clean => s = Name)
  <2>1. clean => Plain(entries, executed)
    BY DEF GapInv
  <2> QED BY <1>2, <2>1, MatchIs DEF Matches, Plain
<1>4. PICK rows : rows = NewRows(entries, Fetched(r), s)
  OBVIOUS
<1>5. PICK new : new = NewOf(entries, Fetched(r))
  OBVIOUS
<1>6. /\ Len(rows) \in Nat
      /\ \A i \in 1..Len(rows) :
            /\ NthOf(new, i) \in new
            /\ rows[i] = Entry(NthOf(new, i).side, NthOf(new, i).date, NthOf(new, i).qty,
                               [sym |-> s, code |-> TRUE], FillRef(NthOf(new, i)))
      /\ \A i, j \in 1..Len(rows) : rows[i].ref = rows[j].ref => i = j
  <2>1. Fetched(r) \subseteq Execs /\ IsFiniteSet(Fetched(r))
    <3>1. Fetched(r) \subseteq executed
      BY DEF Fetched
    <3> QED BY <1>2, <3>1, FS_Subset DEF JournalInv, JournalTypes
  <2> QED BY <1>3, <1>4, <1>5, <2>1, NewRowsAre
<1>7. ASSUME NEW i \in 1..Len(rows)
      PROVE  FillIn(rows[i], executed) /\ rows[i].sym = s /\ rows[i].code = TRUE
  <2>1. PICK x \in new : x = NthOf(new, i)
    BY <1>6
  <2>2. x \in executed
    BY <1>5 DEF NewOf, Fetched
  <2>3. PICK e : e = Entry(x.side, x.date, x.qty, [sym |-> s, code |-> TRUE], FillRef(x))
    OBVIOUS
  <2>4. e.ref = FillRef(x) /\ e.side = x.side /\ e.qty = x.qty /\ e.sym = s /\ e.code = TRUE
    BY <2>3 DEF Entry
  <2>5. rows[i] = e
    BY <1>6, <2>1, <2>3
  <2> QED BY <2>2, <2>4, <2>5 DEF FillIn, RowOf
<1>8. PICK v : v = [AtRest EXCEPT !.op = "import", !.rows = rows, !.warned = \E i \in 1..Len(rows) : Warned(entries, rows, i)]
  OBVIOUS
<1>9. v.rows = rows /\ v.op = "import"
  BY <1>8 DEF AtRest
<1>10. RowsOf(v, executed, clean)
  BY <1>3, <1>6, <1>7, <1>9 DEF RowsOf
<1>11. work' = [work EXCEPT ![r] = v]
  BY <1>1, <1>4, <1>8
<1>12. UNCHANGED <<entries, opening, clean, shown, executed>>
  BY DEF BeginImport
<1>13. \A q \in Keepers : work'[q] = work[q] \/ RowsOf(work'[q], executed', clean)
  BY <1>2, <1>10, <1>11, <1>12 DEF JournalInv, JournalTypes
<1> QED BY <1>12, <1>13, GapUnwritten

\* An import written: its rows are executions, none of them known.
LEMMA GapCommitImport == ASSUME GapInv, JournalInv', NEW r \in Keepers, CommitImport(r) PROVE GapInv'
<1>1. PICK w \in WorkRec : w = work[r]
  BY DEF GapInv, JournalInv, JournalTypes
<1>2. PICK rows : rows = w.rows
  OBVIOUS
<1>3. Worked(entries, w) /\ Prepared(rows) /\ w.op = "import" /\ RowsOf(w, executed, clean)
  BY <1>1, <1>2 DEF GapInv, JournalInv, WorkHolds, Worked, CommitImport
<1>4. UNCHANGED <<opening, clean, executed>> /\ JournalInv
  BY DEF CommitImport, GapInv
<1>5. CASE Clash(rows) \/ rows = <<>>
  <2>1. work' = [work EXCEPT ![r] = AtRest] /\ UNCHANGED <<entries, shown>>
    BY <1>1, <1>2, <1>5 DEF CommitImport
  <2>2. RowsOf(AtRest, executed, clean)
    BY RestIs DEF RowsOf
  <2>3. \A q \in Keepers : work'[q] = work[q] \/ RowsOf(work'[q], executed', clean)
    BY <1>4, <2>1, <2>2 DEF JournalInv, JournalTypes
  <2> QED BY <1>4, <2>1, <2>3, GapUnwritten
<1>6. CASE ~(Clash(rows) \/ rows = <<>>)
  <2>1. Insert(r, rows) /\ rows \in Seq(EntryRec)
    BY <1>1, <1>2, <1>3, <1>6 DEF CommitImport, Prepared
  <2>2. \A i \in 1..Len(rows) : rows[i].ref \notin Known(entries)
    BY <1>6 DEF Clash
  <2>3. /\ \A i \in 1..Len(rows) : FillIn(rows[i], executed) /\ (clean => rows[i].sym = Name /\ rows[i].code)
        /\ \A i, j \in 1..Len(rows) : rows[i].ref = rows[j].ref => i = j
    BY <1>2, <1>3 DEF RowsOf
  <2>4. /\ RefOnce(entries')
        /\ \A q \in entries' : q \in entries \/ \E i \in 1..Len(rows) :
              /\ q.ref = rows[i].ref /\ q.side = rows[i].side /\ q.qty = rows[i].qty
              /\ q.sym = rows[i].sym /\ q.code = rows[i].code
        /\ entries \subseteq entries'
    BY <2>1, <2>2, <2>3, InsertRefs
  <2>5. \A q \in entries' : q \in entries \/ (FillIn(q, executed) /\ (clean => q.sym = Name /\ q.code))
    BY <2>3, <2>4 DEF FillIn, RowOf
  <2>6. clean => Plain(entries', executed')
    BY <1>4, <2>5 DEF GapInv, Plain
  <2>7. BalancesOf(entries') = BalancesOf(entries)
    <3>1. \A q \in entries' : q \in entries \/ q.ref[1] = "fill"
      BY <2>5 DEF FillIn, RowOf, FillRef
    <3> QED BY <2>4, <3>1 DEF BalancesOf
  <2>8. work' = Outdated(r) /\ shown'.complete = FALSE
    BY <1>4, <2>1 DEF Insert, JournalInv, JournalTypes
  <2>9. \A q \in Keepers : RowsOf(work'[q], executed', clean')
    BY <1>4, <2>8, OutdatedRows DEF GapInv
  <2> QED BY <1>4, <2>4, <2>6, <2>7, <2>8, <2>9 DEF GapInv
<1> QED BY <1>5, <1>6

\* The balance of a journal that has every execution lacks what the opening rows lack.
LEMMA GapShow == ASSUME GapInv, JournalInv', ShowHoldings PROVE GapInv'
<1>1. PICK s \in Matches(entries) : shown' = [qty |-> Offer(s), complete |-> Complete]
  BY DEF ShowHoldings
<1>2. UNCHANGED <<entries, opening, clean, work, executed>>
  BY DEF ShowHoldings
<1>3. JournalInv
  BY DEF GapInv
<1>4. ASSUME clean, shown'.complete, shown'.qty > 0
      PROVE  NetOf(BalancesOf(entries)) + shown'.qty = opening
  <2>1. Plain(entries, executed) /\ RefOnce(entries)
    BY <1>4 DEF GapInv
  <2>2. s = Name
    BY <2>1 DEF Matches, Plain
  <2>3. Of(entries, s) = entries
    BY <2>1, <2>2 DEF Of, Plain
  <2>4. Complete /\ shown'.qty = Offer(s)
    BY <1>1, <1>4
  <2>5. KnownExecs(entries, executed) = executed
    BY <2>4 DEF KnownExecs, Complete
  <2>6. /\ NetOf(entries) = NetOf(BalancesOf(entries)) + NetOf(executed) /\ NetOf(executed) \in Int
        /\ NetOf(BalancesOf(entries)) \in Int /\ NetOf(entries) \in Int
    BY <1>3, <2>1, <2>5, FillsMatch
  <2>7. Offer(s) = Most(AtBroker - Position(entries, s), 0)
    BY DEF Offer
  <2>9. AtBroker - Position(entries, s) = NetOf(executed) + opening - NetOf(entries)
    <3>1. Position(entries, s) = NetOf(entries)
      BY <2>3 DEF Position
    <3>2. AtBroker = opening + NetOf(executed)
      BY DEF AtBroker
    <3> QED BY <1>3, <2>6, <3>1, <3>2 DEF JournalInv, JournalTypes
  <2>8. opening \in Nat
    BY <1>3 DEF JournalInv, JournalTypes
  <2> QED BY <1>4, <2>4, <2>6, <2>7, <2>8, <2>9 DEF Most
<1> QED BY <1>2, <1>4 DEF GapInv

\* The opening row adds what was shown, and nothing was written since.
LEMMA GapImportHoldings == ASSUME GapInv, JournalInv', ImportHoldings PROVE GapInv'
<1>1. UNCHANGED <<opening, executed>> /\ shown.qty > 0 /\ JournalInv
  BY DEF ImportHoldings, GapInv
<1>2. CASE BalanceRef(day) \in Known(entries)
  <2>1. UNCHANGED <<entries, work, shown, clean>>
    BY <1>2 DEF ImportHoldings
  <2> QED BY <1>1, <2>1, GapUnwritten
<1>3. CASE BalanceRef(day) \notin Known(entries)
  <2>1. PICK s \in Matches(entries) :
          /\ Insert("user", <<Entry("buy", day, shown.qty, [sym |-> s, code |-> TRUE], BalanceRef(day))>>)
          /\ clean' = (clean /\ shown.complete)
    BY <1>3 DEF ImportHoldings
  <2>2. PICK f : f = [sym |-> s, code |-> TRUE]
    OBVIOUS
  <2>3. PICK n \in Nat : n = shown.qty
    BY <1>1 DEF JournalInv, JournalTypes
  <2>4. f.sym \in Symbols /\ f.code \in BOOLEAN /\ n \in Nat \ {0} /\ day \in Nat /\ BalanceRef(day) \in RefSet /\ "buy" \in Sides
    BY <1>1, <2>2, <2>3, MatchIs DEF JournalInv, JournalTypes, BalanceRef, RefSet, Sides
  <2>5. PICK e \in EntryRec : /\ e = Entry("buy", day, n, f, BalanceRef(day)) /\ e.side = "buy" /\ e.qty = n
                              /\ e.sym = s /\ e.ref = BalanceRef(day)
    <3>1. PICK ref \in RefSet : ref = BalanceRef(day)
      BY <2>4
    <3>2. PICK e : e = Entry("buy", day, n, f, ref)
      OBVIOUS
    <3>3. e \in EntryRec /\ e.side = "buy" /\ e.qty = n /\ e.sym = f.sym /\ e.ref = ref
      BY <2>4, <3>2, EntryIs
    <3>4. f.sym = s
      BY <2>2
    <3> QED BY <3>1, <3>2, <3>3, <3>4
  <2>6. e.code = TRUE
    BY <2>2, <2>5 DEF Entry
  <2>7. PICK rows : rows = <<e>>
    OBVIOUS
  <2>8. /\ Insert("user", rows) /\ rows \in Seq(EntryRec) /\ Len(rows) = 1 /\ rows[1] = e
        /\ \A i \in 1..Len(rows) : rows[i] = e /\ i = 1
    <3>1. Insert("user", rows)
      BY <2>1, <2>2, <2>3, <2>5, <2>7
    <3>2. /\ rows \in Seq(EntryRec) /\ Len(rows) = 1 /\ rows[1] = e
          /\ \A i \in 1..Len(rows) : rows[i] = e
      BY <2>7, OneRow
    <3> QED BY <3>1, <3>2
  <2>9. RefOnce(entries')
    BY <1>3, <2>5, <2>8, InsertRefs
  <2>10. nextEntry \in Nat /\ nextEntry # 0 /\ opening \in Nat
    BY <1>1 DEF JournalInv, JournalTypes
  <2>11. PICK q : q = Row(rows, nextEntry, 1)
    OBVIOUS
  <2>12. /\ entries' = entries \cup {q} /\ q \in EntryRec /\ q.id = nextEntry /\ q.side = "buy" /\ q.qty = n
         /\ q.sym = s /\ q.ref = BalanceRef(day) /\ q.code = TRUE /\ Signed(q) = n
    <3>1. {Row(rows, nextEntry, i) : i \in 1..Len(rows)} = {q}
      BY <2>8, <2>11
    <3>2. entries' = entries \cup {q}
      BY <2>8, <3>1 DEF Insert, Row
    <3>3. /\ q \in EntryRec /\ q.id = nextEntry /\ q.side = "buy" /\ q.qty = n
          /\ q.sym = s /\ q.ref = BalanceRef(day) /\ q.code = TRUE
      <4>1. PICK i \in 1..Len(rows) : i = 1
        BY <2>8
      <4>2. q = Row(rows, nextEntry, i) /\ rows[i] = e /\ nextEntry + i - 1 = nextEntry
        BY <2>8, <2>10, <2>11, <4>1
      <4>3. /\ q \in EntryRec /\ q.id = nextEntry + i - 1 /\ q.side = rows[i].side /\ q.qty = rows[i].qty
            /\ q.sym = rows[i].sym /\ q.ref = rows[i].ref /\ q.code = rows[i].code
        BY <2>8, <2>10, <4>2, RowIs
      <4> QED BY <2>5, <2>6, <4>2, <4>3
    <3> QED BY <3>2, <3>3 DEF Signed
  <2>13. clean' \in BOOLEAN /\ (clean' => clean /\ shown.complete)
    BY <2>1 DEF GapInv
  <2>14. work' = Outdated("user") /\ shown'.complete = FALSE
    BY <1>1, <2>8 DEF Insert, JournalInv, JournalTypes
  <2>15. \A k \in Keepers : RowsOf(work'[k], executed', clean')
    BY <1>1, <2>13, <2>14, OutdatedRows
  <2>16. ASSUME clean' PROVE Plain(entries', executed') /\ NetOf(BalancesOf(entries')) = opening
    <3>1. Plain(entries, executed) /\ NetOf(BalancesOf(entries)) + n = opening
      BY <1>1, <2>3, <2>13, <2>16 DEF GapInv
    <3>2. s = Name
      BY <3>1 DEF Matches, Plain
    <3>3. q.ref[1] = "bal"
      BY <2>12 DEF BalanceRef
    <3>4. Plain(entries', executed')
      BY <1>1, <2>12, <3>1, <3>2, <3>3 DEF Plain
    <3>5. BalancesOf(entries') = BalancesOf(entries) \cup {q}
      BY <2>12, <3>3 DEF BalancesOf
    <3>6. PICK B : B = BalancesOf(entries)
      OBVIOUS
    <3>7. B \subseteq EntryRec /\ IsFiniteSet(B) /\ q \notin B
      <4>1. B \subseteq entries /\ entries \subseteq EntryRec /\ IsFiniteSet(entries) /\ \A x \in entries : x.id < nextEntry
        BY <1>1, <3>6 DEF BalancesOf, JournalInv, JournalTypes, Entered
      <4> QED BY <2>10, <2>12, <4>1, FS_Subset
    <3>8. NetOf(B \cup {q}) = n + NetOf(B) /\ NetOf(B) \in Int
      BY <2>12, <3>7, EntryAdds
    <3> QED BY <2>3, <3>1, <3>4, <3>5, <3>6, <3>8
  <2> QED BY <1>1, <2>9, <2>13, <2>14, <2>15, <2>16 DEF GapInv
<1> QED BY <1>2, <1>3

\* The broker, the days and the switches of the journal.
LEMMA GapElse == ASSUME GapInv, JournalInv', CloseOrReopen \/ Link \/ ExecuteShare \/ NextDay PROVE GapInv'
<1>1. UNCHANGED <<entries, opening, clean, shown, work>> /\ executed \subseteq executed'
  BY DEF CloseOrReopen, Link, ExecuteShare, NextDay
<1> QED BY <1>1, GapUnwritten

\* Every step.
LEMMA GapStep == ASSUME GapInv, [JournalNext]_journalVars PROVE GapInv'
<1>0. JournalInv'
  BY JournalStep DEF GapInv
<1>1. CASE UNCHANGED journalVars
  <2>1. UNCHANGED <<entries, opening, clean, shown, work, executed>>
    BY <1>1 DEF journalVars
  <2> QED BY <1>0, <2>1, GapUnwritten
<1>2. CASE JournalNext
  BY <1>0, <1>2, GapAddBuy, GapBeginSell, GapCommitSell, GapDelete, GapBeginImport, GapCommitImport,
     GapShow, GapImportHoldings, GapElse DEF JournalNext
<1> QED BY <1>1, <1>2

\* An execution is in the journal at most once, and an opening row made from the balance of
\* a journal that had all executions fills exactly the gap (mjournal.py:473, 536).
THEOREM ImportsFillGap == JournalSpec => []GapFilledOnce
<1>1. JournalInit => GapInv
  BY GapStarts
<1>2. GapInv /\ [JournalNext]_journalVars => GapInv'
  BY GapStep
<1>3. GapInv => GapFilledOnce
  BY GapFollows
<1> QED BY <1>1, <1>2, <1>3, PTL DEF JournalSpec
=============================================================================
