------------------------------ MODULE ShopLedger ------------------------------
(***************************************************************************)
(* What the shop promises of one console's account: a ledger.  A purchase  *)
(* takes the price and gives the thing at once, only what is not owned is  *)
(* sold and only to who can pay; a card is paid in whole if the account    *)
(* has room for it; and the balance changes in no other way, but that a    *)
(* request which dies may cost its player the price.  That a card is good  *)
(* for one time only is not promised: see EshopAccount.                    *)
(***************************************************************************)
EXTENDS Naturals

CONSTANTS Title, Item, Price, MoneyCard, Worth, CodeCard, Grants,
          Start, MaxBalance, Crash

VARIABLES purse, \* the balance
          owned  \* how many of each thing it has

vars == <<purse, owned>>

Init ==
  /\ purse = Start
  /\ owned = [x \in Title \cup Item |-> 0]

Buy(x) ==
  /\ owned[x] = 0 /\ purse >= Price[x]
  /\ purse' = purse - Price[x]
  /\ owned' = [owned EXCEPT ![x] = 1]

\* A purchase dies between the payment and the thing.
Lose(x) ==
  /\ Crash
  /\ purse >= Price[x]
  /\ purse' = purse - Price[x]
  /\ UNCHANGED owned

PayIn(k) ==
  /\ purse + Worth[k] <= MaxBalance
  /\ purse' = purse + Worth[k]
  /\ UNCHANGED owned

\* A code gives its title, also to who has it.
Redeem(k) ==
  /\ owned' = [owned EXCEPT ![Grants[k]] = @ + 1]
  /\ UNCHANGED purse

\* A ticket is delivered.
Collect(i) ==
  /\ owned[i] > 0
  /\ owned' = [owned EXCEPT ![i] = @ - 1]
  /\ UNCHANGED purse

Next ==
  \/ \E x \in Title \cup Item : Buy(x) \/ Lose(x)
  \/ \E k \in MoneyCard : PayIn(k)
  \/ \E k \in CodeCard : Redeem(k)
  \/ \E i \in Item : Collect(i)

Spec == Init /\ [][Next]_vars
=============================================================================
