----------------------------- MODULE MCTenancy -----------------------------
(***************************************************************************)
(* Instances of Tenancy for TLC.                                           *)
(***************************************************************************)
EXTENDS Tenancy, TLC

(* Everything that has a name is like every other of its kind.             *)
Symmetry ==
    Permutations(Requests) \cup Permutations(Tenants) \cup Permutations(Emails)
      \cup Permutations(Slugs) \cup Permutations(Tickets)
=============================================================================
