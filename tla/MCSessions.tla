----------------------------- MODULE MCSessions -----------------------------
(***************************************************************************)
(* Instances of Sessions for TLC.                                          *)
(***************************************************************************)
EXTENDS Sessions, TLC

(* Requests, browsers, users and tokens are each alike.                    *)
Symmetry ==
    Permutations(Requests) \cup Permutations(Browsers)
      \cup Permutations(Users) \cup Permutations(Tokens)
=============================================================================
