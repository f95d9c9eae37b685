----------------------------- MODULE MCSessions -----------------------------
(* Small instances of Sessions for TLC. *)
EXTENDS Sessions, TLC

CONSTANTS s1, s2, t1, t2, t3, m1, r1, r2, v1

TwoSessions == {s1, s2}
TwoTokens == {t1, t2}
ThreeTokens == {t1, t2, t3}
OneMember == {m1}
OneRefresh == {r1}
TwoRefreshes == {r1, r2}
OneValidation == {v1}
NoValidations == {}

\* Identifiers are random UUIDs, and requests of one kind are alike.
RotationSymmetry ==
    Permutations(TwoSessions) \cup Permutations(ThreeTokens) \cup Permutations(TwoRefreshes)
ValidationSymmetry == Permutations(TwoSessions) \cup Permutations(TwoTokens)
=============================================================================
