--------------------------- MODULE SessionFamily ---------------------------
(***************************************************************************)
(* What a device login promises.  Each session is one capability, held at  *)
(* any time by one refresh token: presenting it passes the capability to a *)
(* token that was never issued before, and once the session is dead no     *)
(* token brings it back.  Every login of a membership can die in one step, *)
(* and a tenant switch replaces one login by another.                      *)
(***************************************************************************)
CONSTANTS Sessions, Tokens, Unborn, Dead

VARIABLES
    holder,     \* the token that may be exchanged for each session
    issued      \* every token ever issued

vars == <<holder, issued>>

Live(s) == holder[s] \in Tokens

Init == holder = [s \in Sessions |-> Unborn] /\ issued = {}

Issue(t) == t \in Tokens \ issued /\ issued' = issued \cup {t}

Birth(s, t) ==
    /\ holder[s] = Unborn
    /\ Issue(t)
    /\ holder' = [holder EXCEPT ![s] = t]

Pass(s, t) ==
    /\ Live(s)
    /\ Issue(t)
    /\ holder' = [holder EXCEPT ![s] = t]

Death(S) ==
    /\ \A s \in S : holder[s] # Unborn
    /\ holder' = [s \in Sessions |-> IF s \in S THEN Dead ELSE holder[s]]
    /\ UNCHANGED issued

Switch(s, s2, t) ==
    /\ Live(s)
    /\ holder[s2] = Unborn
    /\ Issue(t)
    /\ holder' = [holder EXCEPT ![s] = Dead, ![s2] = t]

Next ==
    \/ \E s \in Sessions, t \in Tokens : Birth(s, t) \/ Pass(s, t)
    \/ \E S \in SUBSET Sessions : Death(S)
    \/ \E s, s2 \in Sessions, t \in Tokens : Switch(s, s2, t)

Spec == Init /\ [][Next]_vars
=============================================================================
