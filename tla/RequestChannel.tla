----------------------------- MODULE RequestChannel -----------------------------
(***************************************************************************)
(* What the request path of a connection promises whatever the network     *)
(* does: requests are handed to the dispatcher in the order in which the   *)
(* client made them, each at most once; some may never be.                 *)
(***************************************************************************)
EXTENDS Naturals, Sequences

VARIABLES made,        \* number of requests the client has made
          dispatched   \* the requests handed to the dispatcher so far

vars == <<made, dispatched>>

Init == made = 0 /\ dispatched = <<>>

Make == made' = made + 1 /\ UNCHANGED dispatched

Dispatch(r) ==
  /\ \A i \in 1..Len(dispatched) : dispatched[i] < r
  /\ dispatched' = Append(dispatched, r)
  /\ UNCHANGED made

Next == Make \/ \E r \in 1..made : Dispatch(r)

Spec == Init /\ [][Next]_vars
=============================================================================
