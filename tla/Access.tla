-------------------------------- MODULE Access --------------------------------
(* Calls to the broker's API with one app key and account (kis_auth.py, kis_client.py):
   every attempt waits for its place in the second's counters, which Redis shares between
   the processes, then takes a token (its own, the one in Redis, or a new one, which the
   broker issues once a minute), and is sent; what the broker refuses for its rate is
   sent again after a pause. Each request has a client of its own.

   Time is kept as what is left of each interval, and scaled: IssueGap stands for a
   minute, NapTime for the 65 s of a batch. *)
EXTENDS Integers

CONSTANTS
    Reader,    \* calls that read (GET)
    Writer,    \* calls that order or cancel (POST)
    Batchwise, \* those that may wait for a token (wait_on_rate_limit)
    LimitKey, LimitLedger,   \* calls a second: of the key, of the account
    WaitMax,   \* a call that has waited so long goes on whatever the counter says
    Retries,   \* further attempts after a refusal for the rate
    IssueGap, NapTime, Life, Margin

ASSUME AccessAssumption ==
    /\ Reader \intersect Writer = {} /\ Batchwise \subseteq Reader \union Writer
    /\ LimitKey \in Nat \ {0} /\ LimitLedger \in Nat \ {0}
    /\ WaitMax \in Nat /\ Retries \in Nat
    /\ IssueGap \in Nat /\ NapTime \in Nat /\ Life \in Nat /\ Margin \in Nat \ {0}
    /\ IssueGap < NapTime /\ NapTime + Margin < Life

VARIABLES
    redis,     \* TRUE while Redis answers
    used,      \* calls counted in this second: of the key, of the account
    closed,    \* time until the broker issues a token again
    shared,    \* Redis: time left of the stored token, 0 for none
    mem,       \* time left of the token each client holds
    stage,      \* where each call is
    left,      \* time left to the deadline at a counter, or of a nap or a pause
    tried,     \* refusals for the rate so far
    taken      \* history: how often the broker carried the call out

accessVars == <<redis, used, closed, shared, mem, stage, left, tried, taken>>
tokens == <<closed, shared, mem>>

Call == Reader \union Writer
Unused == [key |-> 0, ledger |-> 0]

AccessInit ==
    /\ redis \in BOOLEAN /\ used = Unused /\ closed = 0
    /\ shared \in (IF redis THEN {0, Margin, Margin + 1} ELSE {0})
    /\ mem = [c \in Call |-> 0] /\ stage = [c \in Call |-> "begin"] /\ left = [c \in Call |-> 0]
    /\ tried = [c \in Call |-> 0] /\ taken = [c \in Call |-> 0]

Goto(c, next) == stage' = [stage EXCEPT ![c] = next]
Wait(c, time) == left' = [left EXCEPT ![c] = time]
Less(n) == IF n = 0 THEN 0 ELSE n - 1

\* A call that slept through the rest of its second counts again in the next. Counting,
\* reading the token and composing the request take no time, the broker's answers may.
Second ==
    /\ \A c \in Call : stage[c] \notin {"key", "ledger", "token"}
    /\ \A c \in Call : stage[c] \in {"nap", "pause"} => left[c] > 0
    /\ used' = Unused /\ closed' = Less(closed) /\ shared' = Less(shared)
    /\ mem' = [c \in Call |-> Less(mem[c])] /\ left' = [c \in Call |-> Less(left[c])]
    /\ stage' = [c \in Call |-> CASE stage[c] = "key late" -> "key"
                               [] stage[c] = "ledger late" -> "ledger"
                               [] OTHER -> stage[c]]
    /\ UNCHANGED <<redis, tried, taken>>

RedisFails ==
    /\ redis /\ redis' = FALSE
    /\ UNCHANGED <<used, tokens, stage, left, tried, taken>>

-----------------------------------------------------------------------------
(* _throttle: the counter of the key, then the one of the account. *)

\* Every attempt starts at the counters, with a new deadline.
Begin(c) ==
    /\ stage[c] \in {"begin", "pause"} /\ left[c] = 0
    /\ Goto(c, "key") /\ Wait(c, WaitMax)
    /\ UNCHANGED <<redis, used, tokens, tried, taken>>

GoesOn(c, place, limit) == place <= limit \/ left[c] = 0

\* INCR returns the place in this second; without Redis there is no limit.
Count(c, bucket, limit, late, next) ==
    /\ stage[c] = bucket
    /\ used' = IF redis THEN [used EXCEPT ![bucket] = @ + 1] ELSE used
    /\ IF ~redis \/ GoesOn(c, used[bucket] + 1, limit)
       THEN Goto(c, next) /\ Wait(c, IF next = "ledger" THEN WaitMax ELSE 0)
       ELSE Goto(c, late) /\ UNCHANGED left
    /\ UNCHANGED <<redis, tokens, tried, taken>>

Throttle(c) == \/ Count(c, "key", LimitKey, "key late", "ledger")
               \/ Count(c, "ledger", LimitLedger, "ledger late", "token")

-----------------------------------------------------------------------------
(* access_token *)

\* Margin before its expiry a token counts as gone.
Valid(rest) == rest > Margin
Stored == IF redis THEN shared ELSE 0

\* Its own token, the shared one, or a new one.
Token(c) ==
    /\ stage[c] = "token"
    /\ IF Valid(mem[c])     THEN Goto(c, "send") /\ UNCHANGED mem
       ELSE IF Valid(Stored) THEN Goto(c, "send") /\ mem' = [mem EXCEPT ![c] = Stored]
       ELSE Goto(c, "issue") /\ UNCHANGED mem
    /\ UNCHANGED <<redis, used, closed, shared, left, tried, taken>>

\* The broker issues one token a minute; a batch whose first request is refused naps.
Issue(c) ==
    /\ stage[c] \in {"issue", "last issue"}
    /\ IF closed = 0
       THEN /\ closed' = IssueGap /\ mem' = [mem EXCEPT ![c] = Life]
            /\ Goto(c, "store") /\ UNCHANGED left
       ELSE /\ UNCHANGED <<closed, mem>>
            /\ IF c \in Batchwise /\ stage[c] = "issue"
               THEN Goto(c, "nap") /\ Wait(c, NapTime)
               ELSE Goto(c, "failed") /\ UNCHANGED left
    /\ UNCHANGED <<redis, used, shared, tried, taken>>

Store(c) ==
    /\ stage[c] = "store"
    /\ shared' = IF redis THEN mem[c] ELSE shared
    /\ Goto(c, "send")
    /\ UNCHANGED <<redis, used, closed, mem, left, tried, taken>>

\* What another process may have stored meanwhile.
Found == Stored

WakeUp(c) ==
    /\ stage[c] = "nap" /\ left[c] = 0
    /\ IF Valid(Found) THEN Goto(c, "send") /\ mem' = [mem EXCEPT ![c] = Found]
                        ELSE Goto(c, "last issue") /\ UNCHANGED mem
    /\ UNCHANGED <<redis, used, closed, shared, left, tried, taken>>

-----------------------------------------------------------------------------
(* _get and _post *)

\* Mutant: an order is repeated when its answer does not come.
RepeatsSilent(c, answer) == answer \in {"rate", "error", "lost"}
\* A refusal for the rate, or for a read a plain server error, is tried again.
Repeats(c, answer) == answer = "rate" \/ (answer = "error" /\ c \in Reader)

Pause(n) == 2 ^ n

\* Mutant: each attempt counts from the start.
CountedAfresh(c) == 1
Counted(c) == tried[c] + 1

Send(c) ==
    /\ stage[c] = "send"
    /\ \E answer \in {"ok", "rate", "error", "lost"} :
          /\ taken' = IF c \in Writer /\ answer \in {"ok", "lost"} THEN [taken EXCEPT ![c] = @ + 1] ELSE taken
          /\ IF answer = "ok" THEN Goto(c, "ok") /\ UNCHANGED <<left, tried>>
             ELSE IF Repeats(c, answer) /\ tried[c] < Retries
             THEN /\ tried' = [tried EXCEPT ![c] = Counted(c)]
                  /\ Goto(c, "pause") /\ Wait(c, Pause(tried[c]))
             ELSE Goto(c, "failed") /\ UNCHANGED <<left, tried>>
          /\ mem' = IF stage'[c] = "pause" THEN mem ELSE [mem EXCEPT ![c] = 0]
    /\ UNCHANGED <<redis, used, closed, shared>>

Steps(c) == Begin(c) \/ Throttle(c) \/ Token(c) \/ Issue(c) \/ Store(c) \/ WakeUp(c) \/ Send(c)

AccessNext == Second \/ RedisFails \/ \E c \in Call : Steps(c)

AccessSpec == AccessInit /\ [][AccessNext]_accessVars

-----------------------------------------------------------------------------
(* Properties *)

\* An order or a cancel reaches the broker's book once at most, through refusals, pauses
\* and lost answers: only what was refused is sent again.
TakenOnce == \A c \in Writer : taken[c] <= 1

\* Every call comes to an end: neither a full counter nor a refused token holds it for good.
CallEnds == \A c \in Call : <>(stage[c] \in {"ok", "failed"})
=============================================================================
