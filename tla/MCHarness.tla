----------------------------- MODULE MCHarness -----------------------------
(***************************************************************************)
(* Instances of Harness for TLC.                                           *)
(***************************************************************************)
EXTENDS Harness, TLC

CONSTANTS r1, r2, r3, g1, w1, d1, d2

(* g1 reads, w1 changes a ticket at once, d1 and d2 wait for a human.      *)
MCToolOf ==
    [c \in Calls |->
        CASE c = g1 -> "get_ticket"
          [] c = w1 -> "update_ticket"
          [] c \in {d1, d2} -> "delete_ticket"]

MCClientHistories == {<< >>}

(* Every provider with limits that a run can reach and that are not zero,  *)
(* and the edges: no tokens, no time, and limits that are no numbers.      *)
MCConfigs ==
    [provider : Providers, tokens : {{2}}, clock : {{1}}]
      \cup [provider : {"anthropic"}, tokens : {{0}}, clock : {{}}]
      \cup [provider : {"groq"}, tokens : {{}}, clock : {{0}}]

(* Requests are alike, and so are the two calls for the same tool.         *)
Symmetry == Permutations(Requests) \cup Permutations(Calls \cap {d1, d2})
=============================================================================
