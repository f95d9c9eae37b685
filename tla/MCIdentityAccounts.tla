------------------------- MODULE MCIdentityAccounts -------------------------
(* A small instance of IdentityAccounts for TLC: a key that is rotated twice. *)
EXTENDS IdentityAccounts

CONSTANTS n1, r1, r2, w1, l1, l2

MCConfig ==
    {[ring |-> {1, 2}, active |-> 1],
     [ring |-> {1, 2}, active |-> 2],
     [ring |-> {1, 2, 3}, active |-> 3]}

\* Requests of a kind are alike, so their processes may be put in an order.
Rank(r) == Cardinality(config[r].ring) + config[r].active
MCInit == Init /\ Rank(r1) <= Rank(r2) /\ Rank(l1) <= Rank(l2)
MCSpec == MCInit /\ [][Next]_vars /\ Fairness
=============================================================================
