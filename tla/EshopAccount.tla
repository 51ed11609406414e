------------------------------ MODULE EshopAccount ------------------------------
(***************************************************************************)
(* The eShop account of a console: the requests that spend its balance,    *)
(* top it up, and hand out what was bought (eshop/api/views.py,            *)
(* eshop/webui/views.py, eshop/ecs.py), with one action per SQL statement: *)
(* Django runs in autocommit, the server is threaded, and nothing is       *)
(* locked: the shop of the console and the web page of the same account    *)
(* can be used at once.                                                    *)
(*                                                                         *)
(* A request reads the whole row of its console and later saves the whole  *)
(* row, the fields it did not mean to change included.  What reads only    *)
(* constants (titles, items, prices) has no step of its own; answers are   *)
(* left out, except that a request which fails ends.                       *)
(*                                                                         *)
(* So two requests of one console that overlap undo each other's balance,  *)
(* and what is said of its books is said of a console while it has done    *)
(* one thing at a time; `crowd' remembers the others.                      *)
(***************************************************************************)
EXTENDS Naturals, FiniteSets

CONSTANTS Console,     \* registered consoles
          Title, Item, \* what the shop sells
          Of,          \* [Item -> the title an item belongs to]
          Price,       \* [Title \cup Item -> Nat]
          MoneyCard,   \* prepaid cards
          Worth,       \* [MoneyCard -> Nat]
          CodeCard,    \* download codes
          Grants,      \* [CodeCard -> Title]
          Thread,      \* requests that can be in progress at once
          Start,       \* the balance of a new console
          MaxBalance,  \* largest value of the column (2^31 - 1)
          Crash,       \* TRUE: a request can die between two statements
          MaxSpent,    \* bound: a console that was given this much asks no more
          MaxTaken     \* bound: a card redeemed this often is not tried again

ASSUME ShopAssumption == /\ Of \in [Item -> Title]
                         /\ Price \in [Title \cup Item -> Nat]
                         /\ Worth \in [MoneyCard -> Nat]
                         /\ Grants \in [CodeCard -> Title]
                         /\ Start \in Nat /\ MaxBalance \in Nat /\ Start <= MaxBalance
                         /\ Crash \in BOOLEAN
                         /\ MaxSpent \in Nat /\ MaxTaken \in Nat
ASSUME DisjointAssumption == /\ Title \cap Item = {}
                             /\ MoneyCard \cap CodeCard = {}

Thing == Title \cup Item
Card == MoneyCard \cup CodeCard

VARIABLES row,      \* Client3DS of each console
          owned,    \* how many ownedTitle / ownedTicket rows it has of a thing
          used,     \* redeemableCard.used
          pc,       \* the statement each request is at
          op,       \* its handler
          who,      \* its console
          what,     \* the thing or the card it is about
          snap,     \* the Client3DS it read
          spent,    \* by console: the prices of all that it was given
          lost,     \* by console: what it paid to requests that died
          credited, \* by console: the cards that it was credited
          taken,    \* how often each card was redeemed
          crowd     \* the consoles that ever had two requests in progress

request == <<pc, op, who, what, snap>>
books == <<spent, lost, credited, taken, crowd>>
vars == <<row, owned, used, request, books>>

NewRow == [balance |-> Start, terminated |-> FALSE, certified |-> FALSE]

Init ==
  /\ row = [c \in Console |-> NewRow]
  /\ owned = [p \in Console \X Thing |-> 0]
  /\ used = [k \in Card |-> FALSE]
  /\ pc = [t \in Thread |-> "idle"]
  /\ op = [t \in Thread |-> "none"]
  /\ who \in {[t \in Thread |-> c] : c \in Console}
  /\ what = [t \in Thread |-> "nothing"]
  /\ snap = [t \in Thread |-> NewRow]
  /\ spent = [c \in Console |-> 0]
  /\ lost = [c \in Console |-> 0]
  /\ credited = [c \in Console |-> 0]
  /\ taken = [k \in Card |-> 0]
  /\ crowd = {}

\* The requests, each with what it can be about.
Handler == ({"title"} \X Title) \cup ({"ticket", "aoc", "deliver"} \X Item)
             \cup ({"prepaid", "web"} \X MoneyCard) \cup ({"code"} \X CodeCard)

At(t, step) == pc[t] = step

\* Thread t goes on to a step; a request that ends leaves nothing behind.
Goto(t, step) ==
  /\ pc' = [pc EXCEPT ![t] = step]
  /\ IF step = "idle"
       THEN /\ op' = [op EXCEPT ![t] = "none"]
            /\ what' = [what EXCEPT ![t] = "nothing"]
            /\ snap' = [snap EXCEPT ![t] = NewRow]
       ELSE UNCHANGED <<op, what, snap>>
  /\ UNCHANGED who

Busy(c) == \E t \in Thread : pc[t] # "idle" /\ who[t] = c

\* Client3DS.objects.get, the first statement of every handler.  Only the web
\* pages look at is_terminated on every request (ShopMiddleware); a console has
\* an eShop session from before.
Begin(t, c, h) ==
  /\ At(t, "idle")
  /\ h[1] = "web" => ~row[c].terminated
  /\ spent[c] < MaxSpent
  /\ h[2] \in Card => taken[h[2]] < MaxTaken
  /\ pc' = [pc EXCEPT ![t] = "read"]
  /\ op' = [op EXCEPT ![t] = h[1]]
  /\ who' = [who EXCEPT ![t] = c]
  /\ what' = [what EXCEPT ![t] = h[2]]
  /\ snap' = [snap EXCEPT ![t] = row[c]]
  /\ crowd' = IF Busy(c) THEN crowd \cup {c} ELSE crowd
  /\ UNCHANGED <<row, owned, used, spent, lost, credited, taken>>

\* ds.save(): every column, as it was read but for the balance.
SaveBalance(t, b) == row' = [row EXCEPT ![who[t]] = [snap[t] EXCEPT !.balance = b]]

-----------------------------------------------------------------------------
(* purcahse_title, purcahse_ticket, purcahse_aoc *)

\* Mutant of HasAlready: sold without a look at what is owned.
HasAlreadyNever(t, x) == FALSE

\* The rows that count as owning x already.  An add-on is owned when any item
\* of its title is.
HasAlready(t, x) ==
  IF op[t] = "aoc"
  THEN \E i \in Item : Of[i] = Of[x] /\ owned[<<who[t], i>>] > 0
  ELSE owned[<<who[t], x>>] > 0

\* Mutant of Affordable: the balance may go below zero.
AffordableOnCredit(t) == TRUE

\* ds.balance - price < 0 is refused.
Affordable(t) == snap[t].balance >= Price[what[t]]

\* The ownership query: what is owned is not sold again (one row is returned,
\* more than one raise), and what cannot be paid is refused.
Check(t) ==
  /\ At(t, "read") /\ op[t] \in {"title", "ticket", "aoc"}
  /\ Goto(t, IF ~HasAlready(t, what[t]) /\ Affordable(t) THEN "paying" ELSE "idle")
  /\ UNCHANGED <<row, owned, used, books>>

\* Mutant of Pay: the ticket is not created.
PayOnly(t) ==
  /\ At(t, "paying")
  /\ SaveBalance(t, snap[t].balance - Price[what[t]])
  /\ Goto(t, IF op[t] = "ticket" THEN "idle" ELSE "granting")
  /\ UNCHANGED <<owned, used, books>>

\* Mutant of Pay: the price is taken from the balance of now, which is not the
\* one that was checked.
PayInPlace(t) ==
  /\ At(t, "paying")
  /\ row' = [row EXCEPT ![who[t]].balance = @ - Price[what[t]]]
  /\ Goto(t, "granting")
  /\ UNCHANGED <<owned, used, books>>

Pay(t) ==
  /\ At(t, "paying")
  /\ SaveBalance(t, snap[t].balance - Price[what[t]])
  /\ Goto(t, "granting")
  /\ UNCHANGED <<owned, used, books>>

\* The thing a request ends in: what was bought, or what the code is for.
Goods(t) == IF op[t] = "code" THEN Grants[what[t]] ELSE what[t]

\* Mutant of Grant: a purchase is granted before it is paid.
GrantFirst(t) ==
  /\ pc[t] \in {"paying", "granting"}
  /\ owned' = [owned EXCEPT ![<<who[t], Goods(t)>>] = @ + 1]
  /\ spent' = [spent EXCEPT ![who[t]] = @ + (IF op[t] = "code" THEN 0 ELSE Price[what[t]])]
  /\ Goto(t, "idle")
  /\ UNCHANGED <<row, used, lost, credited, taken, crowd>>

\* ownedTitle / ownedTicket.objects.create.
Grant(t) ==
  /\ At(t, "granting")
  /\ owned' = [owned EXCEPT ![<<who[t], Goods(t)>>] = @ + 1]
  /\ spent' = [spent EXCEPT ![who[t]] = @ + (IF op[t] = "code" THEN 0 ELSE Price[what[t]])]
  /\ Goto(t, "idle")
  /\ UNCHANGED <<row, used, lost, credited, taken, crowd>>

-----------------------------------------------------------------------------
(* add_money_prepaid, add_balance of the web pages, redeem_title *)

\* Mutant of Acceptable: nobody looks at card.used.
AcceptableAlways(t) == TRUE

\* redeem_title does not look at card.used.
Acceptable(t) == op[t] = "code" \/ ~used[what[t]]

\* redeemableCard.objects.get.  The web pages pay in first, the others mark
\* the card first.
ReadCard(t) ==
  /\ At(t, "read") /\ op[t] \in {"prepaid", "web", "code"}
  /\ Goto(t, IF ~Acceptable(t) THEN "idle" ELSE IF op[t] = "web" THEN "crediting" ELSE "marking")
  /\ UNCHANGED <<row, owned, used, books>>

\* card.used = True; card.save().
MarkCard(t) ==
  /\ At(t, "marking")
  /\ used' = [used EXCEPT ![what[t]] = TRUE]
  /\ taken' = IF op[t] = "code" THEN [taken EXCEPT ![what[t]] = @ + 1] ELSE taken
  /\ Goto(t, CASE op[t] = "prepaid" -> "crediting" [] op[t] = "web" -> "idle"
               [] op[t] = "code" -> "granting")
  /\ UNCHANGED <<row, owned, spent, lost, credited, crowd>>

\* The column takes a balance; one that is too large raises.
Fits(b) == b <= MaxBalance

Credit(t) ==
  LET sum == snap[t].balance + Worth[what[t]] IN
  /\ At(t, "crediting")
  /\ Fits(sum)
  /\ SaveBalance(t, sum)
  /\ credited' = [credited EXCEPT ![who[t]] = @ + Worth[what[t]]]
  /\ taken' = [taken EXCEPT ![what[t]] = @ + 1]
  /\ Goto(t, IF op[t] = "web" THEN "marking" ELSE "idle")
  /\ UNCHANGED <<owned, used, spent, lost, crowd>>

CreditFails(t) ==
  /\ At(t, "crediting")
  /\ ~Fits(snap[t].balance + Worth[what[t]])
  /\ Goto(t, "idle")
  /\ UNCHANGED <<row, owned, used, books>>

-----------------------------------------------------------------------------
(* AccountGetETickets for a ticket: the row is deleted once it was delivered *)

FindTicket(t) ==
  /\ At(t, "read") /\ op[t] = "deliver"
  /\ Goto(t, CASE owned[<<who[t], what[t]>>] = 0 -> "idle"
               [] owned[<<who[t], what[t]>>] > 0 /\ ~snap[t].certified -> "certifying"
               [] OTHER -> "delivering")
  /\ UNCHANGED <<row, owned, used, books>>

\* The console id of the device certificate is filled in the first time.
Certify(t) ==
  /\ At(t, "certifying")
  /\ row' = [row EXCEPT ![who[t]] = [snap[t] EXCEPT !.certified = TRUE]]
  /\ Goto(t, "delivering")
  /\ UNCHANGED <<owned, used, books>>

\* owned.delete(); deleting a row that is gone does nothing.  Which of several
\* rows of one item it is makes no difference here.
Deliver(t) ==
  /\ At(t, "delivering")
  /\ owned' = [owned EXCEPT ![<<who[t], what[t]>>] = IF @ = 0 THEN 0 ELSE @ - 1]
  /\ Goto(t, "idle")
  /\ UNCHANGED <<row, used, books>>

-----------------------------------------------------------------------------

\* An administrator ends an account.
Terminate(c) ==
  /\ row' = [row EXCEPT ![c].terminated = TRUE]
  /\ UNCHANGED <<owned, used, request, books>>

\* A purchase was paid and its ticket not created yet.
Paid(t) == At(t, "granting") /\ op[t] # "code"

\* The request dies: an exception of the database, or the server stops.
Die(t) ==
  /\ Crash
  /\ ~At(t, "idle")
  /\ Goto(t, "idle")
  /\ lost' = IF Paid(t) THEN [lost EXCEPT ![who[t]] = @ + Price[what[t]]] ELSE lost
  /\ UNCHANGED <<row, owned, used, spent, credited, taken, crowd>>

Step(t) ==
  \/ Check(t) \/ Pay(t) \/ Grant(t)
  \/ ReadCard(t) \/ MarkCard(t) \/ Credit(t) \/ CreditFails(t)
  \/ FindTicket(t) \/ Certify(t) \/ Deliver(t)
  \/ Die(t)

Next ==
  \/ \E t \in Thread, c \in Console, h \in Handler : Begin(t, c, h)
  \/ \E t \in Thread : Step(t)
  \/ \E c \in Console : Terminate(c)

Spec == Init /\ [][Next]_vars

-----------------------------------------------------------------------------
(* Properties *)

Row == [balance : Nat, terminated : BOOLEAN, certified : BOOLEAN]
Name == {"none", "title", "ticket", "aoc", "deliver", "prepaid", "web", "code"}
Statement == {"idle", "read", "paying", "granting", "marking", "crediting", "certifying",
              "delivering"}

\* Type correctness of the tables and the requests.
TypeOK ==
  /\ row \in [Console -> Row]
  /\ owned \in [Console \X Thing -> Nat]
  /\ used \in [Card -> BOOLEAN]
  /\ pc \in [Thread -> Statement]
  /\ op \in [Thread -> Name]
  /\ what \in [Thread -> Thing \cup Card \cup {"nothing"}]
  /\ \A t \in Thread : pc[t] # "idle" => <<op[t], what[t]>> \in Handler
  /\ who \in [Thread -> Console]
  /\ snap \in [Thread -> Row]
  /\ spent \in [Console -> Nat] /\ lost \in [Console -> Nat] /\ credited \in [Console -> Nat]
  /\ taken \in [Card -> Nat]
  /\ crowd \subseteq Console

\* No interleaving of requests, those of one console that overwrite each other
\* included, and no failing credit takes a balance out of the range of its
\* column, so that every save of a purchase goes through.
BalanceInRange == \A c \in Console : row[c].balance \in 0..MaxBalance

\* What a console still has and the price of what it bought never exceed what
\* it started with and paid in, wherever a request stops: one that dies between
\* two statements may cost the player, not the shop.  What a code grants costs
\* nothing.  Not so for a console with overlapping requests: one can overwrite
\* what the other paid.
NothingForFree ==
  \A c \in Console \ crowd : row[c].balance + spent[c] <= Start + credited[c]

\* The books balance: a console without a request in progress has what it
\* started with and paid in, less the price of what it bought and of the
\* purchases that died half-way, whatever other consoles do with the same
\* cards and whether an administrator ends its account meanwhile.
BooksBalance ==
  \A c \in Console \ crowd :
    ~Busy(c) => row[c].balance + spent[c] + lost[c] = Start + credited[c]

\* What console c paid to a purchase that is not granted yet.
Pending(c) ==
  LET open == {t \in Thread : Paid(t) /\ who[t] = c}
  IN  IF open = {} THEN 0 ELSE Price[what[CHOOSE t \in open : TRUE]]

\* The account of console c as the ledger has it: it pays on delivery.
Purse(c) == row[c].balance + Pending(c)
Shelf(c) == [x \in Thing |-> owned[<<c, x>>]]

Ledger(c) == INSTANCE ShopLedger WITH purse <- Purse(c), owned <- Shelf(c)

\* As long as a console does one thing at a time, the statements of its
\* requests amount to whole entries of its ledger, among the statements of the
\* requests of other consoles: nobody sees or keeps a half of a purchase, also
\* when a request dies.
LedgerSpec ==
  /\ \A c \in Console : Ledger(c)!Init
  /\ [][\A c \in Console \ crowd' : [Ledger(c)!Next]_(Ledger(c)!vars)]_vars

\* A card is redeemed once: a used code is refused, as the shop says.
CardTakenOnce == \A k \in Card : taken[k] <= 1

\* Nothing is sold to a console that has it already, also after a purchase that
\* died: a second row of a thing, which makes every later query for it fail,
\* comes from nothing but a code, which does not look for a first.
SoldOnce ==
  [][\A c \in Console \ crowd, x \in Thing :
       (owned[<<c, x>>] > 0 /\ owned'[<<c, x>>] > owned[<<c, x>>]) =>
         \E t \in Thread : who[t] = c /\ op[t] = "code" /\ Goods(t) = x]_vars
=============================================================================
