--------------------------- MODULE MCConversations ---------------------------
(* A small instance of Conversations for TLC: three messages, one of them sent *)
(* again, also with another text.                                            *)
EXTENDS Conversations, TLC

CONSTANTS c1, c2, c3, q1, q2, q3, x, y

MCAsk == {[request |-> q1, text |-> x], [request |-> q1, text |-> y],
          [request |-> q2, text |-> x], [request |-> q3, text |-> x]}
MCSymmetry == Permutations({c1, c2, c3})
=============================================================================
