-------------------------- MODULE MCPrudpConnections --------------------------
(* PrudpConnections for TLC: consoles behind one NAT. *)
EXTENDS PrudpConnections, TLC

CONSTANTS a1, a2, p1, p2

MCAddr == {a1, a2}
MCHost == [a \in MCAddr |-> "nat"]
MCPid == {p1, p2}

Symmetry == Permutations(MCAddr) \cup Permutations(MCPid)

\* Bound: only the first Connection object accepts two CONNECTs, and then the
\* last one is not created; the last one is not p2's.  The names of the loops of
\* an object are interchangeable: its loop 1 starts first.
Bounded ==
  /\ \A l \in Loop : (l[2] > 1 /\ pc[l] # "none") =>
       l[1] = 1 /\ nconn < MaxConn /\ pc[<<1, 1>>] # "none"
  /\ pid[MaxConn] # p2

\* Liveness rules symmetry out, so it is used by hand: the first connection is
\* made from a1, and becomes p1 first.
MCInit == Init /\ addr = [c \in Conn |-> a1]

MCNext ==
  /\ Next
  /\ Bounded'
  /\ nconn = 0 => conns'[a2] = 0
  /\ pid[1] = NoPid => pid'[1] # p2

MCFairSpec == MCInit /\ [][MCNext]_vars /\ []<><<Tick>>_vars
=============================================================================
