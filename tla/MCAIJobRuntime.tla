--------------------------- MODULE MCAIJobRuntime ---------------------------
(* Small instances of AIJobRuntime for TLC. *)
EXTENDS AIJobRuntime

CONSTANTS p1, p2, h1, h2

MCJobs == {1}
MCTwoJobs == {1, 2}
MCPublishers == {p1, p2}
MCHandlers == {h1, h2}
MCNoHandler == {}
=============================================================================
