------------------------ MODULE MCContractReviewRuns ------------------------
(***************************************************************************)
(* Instances of ContractReviewRuns for TLC.                                *)
(***************************************************************************)
EXTENDS ContractReviewRuns, TLC

\* The upload requests bring different files.
MCInit == Init /\ \A u, v \in Upload : u # v => upload[u].pdf # upload[v].pdf

MCSpec == MCInit /\ [][Next]_vars /\ Fairness
=============================================================================
