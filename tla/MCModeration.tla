------------------------------ MODULE MCModeration ------------------------------
(* Two players of one console, which has a serial hash and a device id on  *)
(* record.                                                                 *)
EXTENDS Moderation, TLC

CONSTANTS p1, p2, d1, d2, b1, b2, s1, s2

MCKnown == [p \in Account |-> Device]

Symmetry ==
  Permutations(Staff) \cup Permutations(Ban) \cup Permutations(Account) \cup Permutations(Device)
=============================================================================
