------------------------------ MODULE MCAgent ------------------------------
(***************************************************************************)
(* Instances of Agent for TLC.                                             *)
(***************************************************************************)
EXTENDS Agent, TLC

CONSTANTS r1, r2, r3, g1, g2, w1, d1, d2

(* g1 and g2 read, w1 changes a ticket, d1 and d2 wait for a human.       *)
MCToolOf ==
    [c \in Calls |->
        CASE c \in {g1, g2} -> "get_ticket"
          [] c = w1 -> "update_ticket"
          [] c \in {d1, d2} -> "delete_ticket"]

MCClientHistories == {<< >>, <<User, Assistant(<< >>)>>}

(* Where the calls are many, one of them.                                  *)
MCOneHistory == {<<User, Assistant(<< >>)>>}

(* Requests are alike, and so are two calls for the same tool.             *)
Symmetry ==
    Permutations(Requests) \cup Permutations(Calls \cap {g1, g2})
      \cup Permutations(Calls \cap {d1, d2})
=============================================================================
