----------------------------- MODULE MCEshopAccount -----------------------------
(* A small shop: one title and its two add-ons, a prepaid card, a code. *)
EXTENDS EshopAccount, TLC

CONSTANTS c1, c2, t1, i1, i2, m1, k1, r1, r2,
          MaxBegun  \* bound: requests of a behaviour with several at once

MCOf == [i \in Item |-> t1]
MCPrice == [x \in Thing |-> IF x = t1 THEN 2 ELSE 1]
MCWorth == [m \in MoneyCard |-> 2]
MCGrants == [k \in CodeCard |-> t1]

\* Requests that no thread runs yet are alike, and so are the add-ons.
Symmetry == Permutations(Thread) \cup Permutations(Item) \cup Permutations(Console)

VARIABLES alone, \* the setting, chosen in the initial state
          begun  \* how many requests began, unless alone

\* Alone: one request of one console at a time, as many as it likes.  Otherwise
\* requests of all consoles at once, of which there are at most MaxBegun.
MCInit == Init /\ alone \in BOOLEAN /\ begun = 0

Alone ==
  /\ Cardinality({t \in Thread : pc[t] # "idle"}) <= 1
  /\ Cardinality({who[t] : t \in Thread}) = 1

Beginning == {t \in Thread : pc[t] = "idle" /\ pc'[t] # "idle"}

MCNext ==
  /\ Next
  /\ IF alone THEN Alone' /\ UNCHANGED begun
              ELSE begun' = begun + Cardinality(Beginning) /\ begun' <= MaxBegun
  /\ UNCHANGED alone

MCSpec == MCInit /\ [][MCNext]_<<vars, alone, begun>>
=============================================================================
