------------------------------- MODULE MCNexAuth -------------------------------
(* NexAuth for TLC: two players with a password of their own each; much      *)
(* goes on with the accounts, or with the sessions.                          *)
EXTENDS NexAuth, TLC

CONSTANTS a1, p1, p2, own

MCAddr == {a1}
MCPid == {p1, p2}
MCPassword == {Default, own}
MCLimits == {[tries |-> 2, regs |-> 0, writes |-> 2],
             [tries |-> 2, regs |-> 2, writes |-> 0],
             [tries |-> 1, regs |-> 3, writes |-> 0]}

Symmetry == Permutations(MCPid)
=============================================================================
