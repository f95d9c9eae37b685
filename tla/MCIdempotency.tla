--------------------------- MODULE MCIdempotency ---------------------------
(* Small instances of Idempotency for TLC. *)
EXTENDS Idempotency, TLC

CONSTANTS k1, k2, f1, f2, a1, a2, a3

MCKeys == {k1, k2}
MCReadsFirst == {k2}
MCFingerprints == {f1, f2}
MCAttempts == {a1, a2, a3}

\* Attempts are interchangeable, and so are fingerprints; the two keys are not:
\* only one of them belongs to an operation that reads first.
MCSymmetry == Permutations(MCAttempts) \cup Permutations(MCFingerprints)
=============================================================================
