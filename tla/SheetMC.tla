------------------------------- MODULE SheetMC -------------------------------
(* Parts that screens and workers share, in one run: a behaviour is one of the day's
   sheet, one of calls to the broker with one key, or one of the keys' tokens over days,
   the other parts being at rest. *)
EXTENDS Sheet, Access, TokenDay

CONSTANTS s1, s2, x, r1, w1, a1, ka, ke

AccessRests == /\ redis = TRUE /\ used = Unused /\ closed = 0 /\ shared = 0
               /\ mem = [c \in Call |-> 0] /\ stage = [c \in Call |-> "ok"] /\ left = [c \in Call |-> 0]
               /\ tried = [c \in Call |-> 0] /\ taken = [c \in Call |-> 0]
SheetRests == SheetInit /\ market = "US"
TokenRests == TokenInit /\ \A a \in Account : keyOf[a] = NoKey

VARIABLE part
Init == \/ part = "sheet" /\ SheetInit /\ AccessRests /\ TokenRests
        \/ part = "access" /\ SheetRests /\ AccessInit /\ TokenRests
        \/ part = "token" /\ SheetRests /\ AccessRests /\ TokenInit

Next == \/ part = "sheet" /\ SheetNext /\ UNCHANGED <<part, accessVars, tokenVars>>
        \/ part = "access" /\ AccessNext /\ UNCHANGED <<part, sheetVars, tokenVars>>
        \/ part = "token" /\ TokenNext /\ UNCHANGED <<part, sheetVars, accessVars>>

Spec == Init /\ [][Next]_<<part, sheetVars, accessVars, tokenVars>>
             /\ \A c \in Call : WF_accessVars(part = "access" /\ Steps(c))
             /\ WF_accessVars(part = "access" /\ Second)
=============================================================================
