------------------------------- MODULE TokenDay -------------------------------
(***************************************************************************)
(* The access tokens of the app keys over several days (autoexec.py         *)
(* warm_tokens, the 07:00 task of worker.py, kis_auth.py). Each key's token *)
(* lives for a day and is kept in Redis under the key's hash; the task has  *)
(* one issued for every key in use that needs it, so that the day's calls   *)
(* find one, and any call that finds none has one issued itself.            *)
(*                                                                         *)
(* Time in equal parts of a day; how two calls of one minute share a token  *)
(* is in Access.                                                            *)
(***************************************************************************)
EXTENDS Integers

CONSTANTS
    Account,     \* rows of broker_credentials
    AppKey, EnvKey, NoKey,   \* keys; the one of the environment; none registered
    DayLength,   \* parts of a day, and of a token's life
    WarmAt,      \* the task's time of day
    Delay,       \* bound: parts the task may be late (the scheduler catches up for an hour)
    Closes,      \* end of the evening session
    GoneBefore,  \* parts before its end a token counts as gone
    LastTime     \* bound

ASSUME TokenDayAssumption ==
    /\ EnvKey \in AppKey /\ NoKey \notin AppKey
    /\ {DayLength, WarmAt, Delay, Closes, GoneBefore, LastTime} \subseteq Nat
    /\ GoneBefore < WarmAt /\ WarmAt + Delay < Closes /\ Closes + GoneBefore < DayLength

VARIABLES
    time,      \* parts since the first midnight
    keyOf,     \* the key of each account
    born,      \* when the key's last token was issued; before the first day: a day ago
    kept,      \* keys whose token Redis holds
    served,    \* keys today's task was to serve and reported as served
    wiped      \* Redis lost its contents since

tokenVars == <<time, keyOf, born, kept, served, wiped>>

Clock(t) == t % DayLength
InUse == {EnvKey} \union ({keyOf[a] : a \in Account} \ {NoKey})

TokenInit ==
    /\ time = 0 /\ keyOf \in [Account -> AppKey \union {NoKey}]
    /\ born = [k \in AppKey |-> -DayLength] /\ kept = {} /\ served = {} /\ wiped = FALSE

\* Mutant: a token is used to its end.
GoodToTheEnd(k) == k \in kept /\ time - born[k] < DayLength
Good(k) == k \in kept /\ time - born[k] < DayLength - GoneBefore

Issued(ks) == /\ born' = [k \in AppKey |-> IF k \in ks THEN time ELSE born[k]]
              /\ kept' = kept \union ks

PartPasses ==
    /\ time < LastTime /\ time' = time + 1
    /\ served' = IF Clock(time') = 0 THEN {} ELSE served
    /\ UNCHANGED <<keyOf, born, kept, wiped>>

\* Mutant: only the accounts' keys.
AccountsOnly == {keyOf[a] : a \in Account} \ {NoKey}
\* Each key once: those of all accounts and the one of the environment.
Targets == InUse

\* kis_token_warm: a key that has a token keeps it; an issue may fail, then the day's
\* first call tries again.
Warm ==
    /\ served = {} /\ Clock(time) \in WarmAt .. WarmAt + Delay
    /\ \E failed \in SUBSET {k \in Targets : ~Good(k)} :
          /\ Issued({k \in Targets : ~Good(k)} \ failed)
          /\ served' = InUse \ failed
    /\ wiped' = FALSE
    /\ UNCHANGED <<time, keyOf>>

\* A screen, a poll or a batch that needs a token and finds none; also the check of a key
\* that is not registered (probe_account).
CallIssues(k) ==
    /\ ~Good(k) /\ Issued({k})
    /\ UNCHANGED <<time, keyOf, served, wiped>>

(* The accounts of the settings; a changed key has another place in Redis. *)
SetKey(a, k) == keyOf' = [keyOf EXCEPT ![a] = k] /\ UNCHANGED <<time, born, kept, served, wiped>>
CreateAccount(a) == keyOf[a] = NoKey /\ \E k \in AppKey : SetKey(a, k)
UpdateAccount(a) == keyOf[a] # NoKey /\ \E k \in AppKey \ {keyOf[a]} : SetKey(a, k)
DeleteAccount(a) == keyOf[a] # NoKey /\ SetKey(a, NoKey)

Wipe == /\ kept # {} /\ kept' = {} /\ wiped' = TRUE
        /\ UNCHANGED <<time, keyOf, born, served>>

TokenNext == \/ PartPasses \/ Warm \/ Wipe
             \/ \E k \in AppKey : CallIssues(k)
             \/ \E a \in Account : CreateAccount(a) \/ UpdateAccount(a) \/ DeleteAccount(a)

TokenSpec == TokenInit /\ [][TokenNext]_tokenVars

-----------------------------------------------------------------------------
(* Properties. *)

\* What the task served needs no issue until the evening session is over, unless Redis
\* lost it or the task had found a token that was issued, by a call or by a late task,
\* too long after the task's time of day to be renewed by it: that one ends within the
\* day (autoexec.py:731, worker.py:79).
IssuedOnce ==
    [][\A k \in served :
          born'[k] # born[k] /\ Clock(time) <= Closes
             => wiped \/ Clock(born[k]) > WarmAt + GoneBefore]_tokenVars
=============================================================================
