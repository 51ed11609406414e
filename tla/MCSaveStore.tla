------------------------------ MODULE MCSaveStore ------------------------------
(***************************************************************************)
(* Two players, who may save and load each other's saves, and two          *)
(* contents, in two settings over the same variables: three versions and   *)
(* no meta binaries, or one version, two meta binaries and calls that      *)
(* outlive their connection.  The setting is chosen in the initial state   *)
(* and never changes.                                                      *)
(***************************************************************************)
EXTENDS SaveStore, TLC

CONSTANTS o1, o2, c1, c2, m1, m2

VARIABLE setting

MCOwner == {o1, o2}
MCContent == {c1, c2}
MCMeta == {m1, m2}

Saves == INSTANCE SaveStore WITH Meta <- {}, Outliving <- {}
Metas == INSTANCE SaveStore WITH MaxVersion <- 1

MCInit == setting \in {"saves", "metas"} /\ Init

MCNext ==
  /\ UNCHANGED setting
  /\ \/ setting = "saves" /\ Saves!Next
     \/ setting = "metas" /\ Metas!Next

MCSpec == MCInit /\ [][MCNext]_<<setting, vars>>

\* Players, and contents, are interchangeable.
Symmetry == Permutations(MCOwner) \cup Permutations(MCContent)
=============================================================================
