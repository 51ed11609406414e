--------------------------- MODULE EshopAccount_proofs ---------------------------
(***************************************************************************)
(* Proofs about EshopAccount, for any consoles, requests, goods and cards: *)
(* the balance of a console stays in the range of its column, whatever     *)
(* requests overlap and die; and as long as a console does one thing at a  *)
(* time, whatever the others do, its books balance, nothing is given away, *)
(* and nothing is sold twice.                                              *)
(***************************************************************************)
EXTENDS EshopAccount, TLAPS

Purchase == {"title", "ticket", "aoc"}

-----------------------------------------------------------------------------
(* Type correctness, and what a request can be at each statement *)

LEMMA RowFacts ==
  ASSUME NEW r \in Row, NEW b \in Nat
  PROVE  /\ [r EXCEPT !.balance = b] \in Row
         /\ [r EXCEPT !.balance = b].balance = b
         /\ [r EXCEPT !.certified = TRUE] \in Row
         /\ [r EXCEPT !.certified = TRUE].balance = r.balance
         /\ [r EXCEPT !.terminated = TRUE] \in Row
         /\ [r EXCEPT !.terminated = TRUE].balance = r.balance
         /\ r.balance \in Nat
BY DEF Row

LEMMA NewRowFacts == NewRow \in Row /\ NewRow.balance = Start
BY ShopAssumption DEF NewRow, Row

\* What a request is about, by its handler.
LEMMA HandlerFacts ==
  ASSUME NEW o, NEW w, <<o, w>> \in Handler
  PROVE  /\ o \in Name /\ w \in Thing \cup Card
         /\ o \in Purchase \cup {"deliver"} => w \in Thing /\ Price[w] \in Nat
         /\ o \in {"prepaid", "web"} => w \in MoneyCard /\ Worth[w] \in Nat /\ w \in Card
         /\ o = "code" => Grants[w] \in Thing /\ w \in Card
<1>1. \/ o = "title" /\ w \in Title
      \/ o \in {"ticket", "aoc", "deliver"} /\ w \in Item
      \/ o \in {"prepaid", "web"} /\ w \in MoneyCard
      \/ o = "code" /\ w \in CodeCard
  BY DEF Handler
<1>2. QED BY <1>1, ShopAssumption DEF Thing, Card, Purchase, Name

StepsInv ==
  \A t \in Thread :
    /\ pc[t] = "paying" => op[t] \in Purchase /\ Price[what[t]] <= snap[t].balance
    /\ pc[t] = "granting" => op[t] \in Purchase \cup {"code"}
    /\ pc[t] = "marking" => op[t] \in {"prepaid", "web", "code"}
    /\ pc[t] = "crediting" => op[t] \in {"prepaid", "web"}
    /\ pc[t] \in {"certifying", "delivering"} => op[t] = "deliver"

RangeInv ==
  /\ BalanceInRange
  /\ \A t \in Thread : snap[t].balance \in 0..MaxBalance

ShopInv == TypeOK /\ StepsInv /\ RangeInv

LEMMA ShopInit == Init => ShopInv
<1> SUFFICES ASSUME Init PROVE ShopInv
  OBVIOUS
<1>1. TypeOK
  BY NewRowFacts DEF Init, TypeOK, Statement, Name
<1>2. StepsInv
  BY DEF Init, StepsInv
<1>3. RangeInv
  BY NewRowFacts, ShopAssumption DEF Init, RangeInv, BalanceInRange
<1>4. QED BY <1>1, <1>2, <1>3 DEF ShopInv

\* What Goto does to the request and to the others.
LEMMA GotoFacts ==
  ASSUME TypeOK, NEW t \in Thread, NEW s \in Statement, Goto(t, s), pc[t] # "idle"
  PROVE  /\ pc' \in [Thread -> Statement] /\ op' \in [Thread -> Name]
         /\ what' \in [Thread -> Thing \cup Card \cup {"nothing"}]
         /\ who' = who /\ snap' \in [Thread -> Row]
         /\ pc'[t] = s
         /\ s # "idle" => op'[t] = op[t] /\ what'[t] = what[t] /\ snap'[t] = snap[t]
         /\ s = "idle" => snap'[t] = NewRow
         /\ \A u \in Thread : u # t => /\ pc'[u] = pc[u] /\ op'[u] = op[u]
                                       /\ what'[u] = what[u] /\ snap'[u] = snap[u]
         /\ \A u \in Thread : pc'[u] # "idle" => <<op'[u], what'[u]>> \in Handler
<1>1. pc' = [pc EXCEPT ![t] = s] /\ who' = who
  BY DEF Goto
<1>2. CASE s = "idle"
  <2>1. /\ op' = [op EXCEPT ![t] = "none"] /\ what' = [what EXCEPT ![t] = "nothing"]
        /\ snap' = [snap EXCEPT ![t] = NewRow]
    BY <1>2 DEF Goto
  <2>2. op' \in [Thread -> Name]
    BY <2>1 DEF TypeOK, Name
  <2>3. what' \in [Thread -> Thing \cup Card \cup {"nothing"}] /\ snap' \in [Thread -> Row]
    BY <2>1, NewRowFacts DEF TypeOK
  <2>4. QED BY <1>1, <1>2, <2>1, <2>2, <2>3 DEF TypeOK
<1>3. CASE s # "idle"
  BY <1>1, <1>3 DEF TypeOK, Goto
<1>4. QED BY <1>2, <1>3

\* The invariant is kept by a step of request t that goes to statement s, if it
\* leaves the tables in their types and the balances in range, and if t is at
\* home at s.
LEMMA StepKeeps ==
  ASSUME ShopInv, NEW t \in Thread, NEW s \in Statement, Goto(t, s), pc[t] # "idle",
         row' \in [Console -> Row], BalanceInRange',
         owned' \in [Console \X Thing -> Nat], used' \in [Card -> BOOLEAN],
         spent' \in [Console -> Nat], lost' \in [Console -> Nat],
         credited' \in [Console -> Nat], taken' \in [Card -> Nat], crowd' = crowd,
         /\ s = "paying" => op[t] \in Purchase /\ Price[what[t]] <= snap[t].balance
         /\ s = "granting" => op[t] \in Purchase \cup {"code"}
         /\ s = "marking" => op[t] \in {"prepaid", "web", "code"}
         /\ s = "crediting" => op[t] \in {"prepaid", "web"}
         /\ s \in {"certifying", "delivering"} => op[t] = "deliver"
  PROVE  ShopInv'
<1>1. TypeOK'
  BY GotoFacts DEF ShopInv, TypeOK
<1>2. StepsInv'
  BY GotoFacts DEF ShopInv, StepsInv
<1>3. RangeInv'
  BY GotoFacts, NewRowFacts, ShopAssumption DEF ShopInv, RangeInv
<1>4. QED BY <1>1, <1>2, <1>3 DEF ShopInv

\* A row saved with a balance in the range of the column.
LEMMA SaveRange ==
  ASSUME ShopInv, NEW t \in Thread, NEW b \in 0..MaxBalance, SaveBalance(t, b)
  PROVE  row' \in [Console -> Row] /\ BalanceInRange' /\ row'[who[t]].balance = b
         /\ \A c \in Console : c # who[t] => row'[c] = row[c]
<1>1. snap[t] \in Row /\ who[t] \in Console /\ row \in [Console -> Row]
  BY DEF ShopInv, TypeOK
<1>2. b \in Nat
  BY ShopAssumption
<1>3. [snap[t] EXCEPT !.balance = b] \in Row /\ [snap[t] EXCEPT !.balance = b].balance = b
  BY <1>1, <1>2, RowFacts
<1>4. row' = [row EXCEPT ![who[t]] = [snap[t] EXCEPT !.balance = b]]
  BY DEF SaveBalance
<1>5. row' \in [Console -> Row] /\ row'[who[t]].balance = b
  BY <1>1, <1>3, <1>4
<1>6. \A c \in Console : c # who[t] => row'[c] = row[c]
  BY <1>1, <1>4
<1>7. QED BY <1>5, <1>6 DEF ShopInv, RangeInv, BalanceInRange

LEMMA PurchaseInv ==
  ASSUME ShopInv, NEW t \in Thread, Check(t) \/ Pay(t) \/ Grant(t)
  PROVE  ShopInv'
<1>1. \A s \in {"idle", "paying", "granting"} : s \in Statement
  BY DEF Statement
<1>2. pc[t] # "idle"
  BY DEF Check, Pay, Grant, At
<1>3. <<op[t], what[t]>> \in Handler /\ who[t] \in Console
  BY <1>2 DEF ShopInv, TypeOK
<1>4. CASE Check(t)
  <2>1. PICK s \in {"idle", "paying"} :
          Goto(t, s) /\ (s = "paying" => Affordable(t)) /\ op[t] \in Purchase
    BY <1>4 DEF Check, Purchase
  <2>2. s = "paying" => Price[what[t]] <= snap[t].balance
    BY <2>1 DEF Affordable
  <2>3. UNCHANGED <<row, owned, used, spent, lost, credited, taken, crowd>>
    BY <1>4 DEF Check, books
  <2>4. QED
    BY <1>1, <1>2, <2>1, <2>2, <2>3, StepKeeps DEF ShopInv, TypeOK, RangeInv, BalanceInRange
<1>5. CASE Pay(t)
  <2>1. /\ Goto(t, "granting") /\ SaveBalance(t, snap[t].balance - Price[what[t]])
        /\ UNCHANGED <<owned, used, spent, lost, credited, taken, crowd>>
        /\ op[t] \in Purchase /\ Price[what[t]] <= snap[t].balance
    BY <1>5 DEF Pay, At, books, ShopInv, StepsInv
  <2>2. Price[what[t]] \in Nat
    BY <1>3, <2>1, HandlerFacts
  <2>3. snap[t].balance \in 0..MaxBalance
    BY DEF ShopInv, RangeInv
  <2>4. snap[t].balance - Price[what[t]] \in 0..MaxBalance
    BY <2>1, <2>2, <2>3, ShopAssumption
  <2>5. row' \in [Console -> Row] /\ BalanceInRange'
    BY <2>1, <2>4, SaveRange
  <2>6. QED
    BY <1>1, <1>2, <2>1, <2>5, StepKeeps DEF ShopInv, TypeOK
<1>6. CASE Grant(t)
  <2>1. /\ Goto(t, "idle") /\ UNCHANGED <<row, used, lost, credited, taken, crowd>>
        /\ owned' = [owned EXCEPT ![<<who[t], Goods(t)>>] = @ + 1]
        /\ op[t] \in Purchase \cup {"code"}
    BY <1>6 DEF Grant, At, ShopInv, StepsInv
  <2>2. Goods(t) \in Thing
    BY <1>3, <2>1, HandlerFacts DEF Goods
  <2>3. owned' \in [Console \X Thing -> Nat]
    BY <1>3, <2>1, <2>2 DEF ShopInv, TypeOK
  <2>4. (IF op[t] = "code" THEN 0 ELSE Price[what[t]]) \in Nat
    BY <1>3, <2>1, HandlerFacts
  <2>5. spent' \in [Console -> Nat]
    BY <1>3, <1>6, <2>4 DEF Grant, ShopInv, TypeOK
  <2>6. QED
    BY <1>1, <1>2, <2>1, <2>3, <2>5, StepKeeps DEF ShopInv, TypeOK, RangeInv, BalanceInRange
<1>7. QED BY <1>4, <1>5, <1>6

LEMMA CardInv ==
  ASSUME ShopInv, NEW t \in Thread,
         ReadCard(t) \/ MarkCard(t) \/ Credit(t) \/ CreditFails(t)
  PROVE  ShopInv'
<1>1. \A s \in {"idle", "crediting", "marking", "granting"} : s \in Statement
  BY DEF Statement
<1>2. pc[t] # "idle"
  BY DEF ReadCard, MarkCard, Credit, CreditFails, At
<1>3. <<op[t], what[t]>> \in Handler /\ who[t] \in Console
  BY <1>2 DEF ShopInv, TypeOK
<1>4. CASE ReadCard(t)
  <2>1. PICK s \in {"idle", "crediting", "marking"} :
          /\ Goto(t, s) /\ op[t] \in {"prepaid", "web", "code"}
          /\ s = "crediting" => op[t] = "web"
    BY <1>4 DEF ReadCard
  <2>2. UNCHANGED <<row, owned, used, spent, lost, credited, taken, crowd>>
    BY <1>4 DEF ReadCard, books
  <2>3. QED
    BY <1>1, <1>2, <2>1, <2>2, StepKeeps DEF ShopInv, TypeOK, RangeInv, BalanceInRange
<1>5. CASE MarkCard(t)
  <2>1. op[t] \in {"prepaid", "web", "code"}
    BY <1>5 DEF MarkCard, At, ShopInv, StepsInv
  <2>2. PICK s \in {"idle", "crediting", "granting"} :
          /\ Goto(t, s) /\ (s = "crediting" => op[t] = "prepaid")
          /\ s = "granting" => op[t] = "code"
    BY <1>5, <2>1 DEF MarkCard
  <2>3. what[t] \in Card
    BY <1>3, <2>1, HandlerFacts
  <2>4. used' \in [Card -> BOOLEAN] /\ taken' \in [Card -> Nat]
    BY <1>5, <2>3 DEF MarkCard, ShopInv, TypeOK
  <2>5. UNCHANGED <<row, owned, spent, lost, credited, crowd>>
    BY <1>5 DEF MarkCard
  <2>6. QED
    BY <1>1, <1>2, <2>2, <2>4, <2>5, StepKeeps DEF ShopInv, TypeOK, RangeInv, BalanceInRange
<1>6. CASE Credit(t)
  <2> DEFINE sum == snap[t].balance + Worth[what[t]]
  <2>1. op[t] \in {"prepaid", "web"}
    BY <1>6 DEF Credit, At, ShopInv, StepsInv
  <2>2. Worth[what[t]] \in Nat /\ what[t] \in Card
    BY <1>3, <2>1, HandlerFacts
  <2>3. snap[t].balance \in Nat
    BY RowFacts DEF ShopInv, TypeOK
  <2>4. /\ sum <= MaxBalance /\ SaveBalance(t, sum)
        /\ credited' = [credited EXCEPT ![who[t]] = @ + Worth[what[t]]]
        /\ taken' = [taken EXCEPT ![what[t]] = @ + 1]
        /\ UNCHANGED <<owned, used, spent, lost, crowd>>
    BY <1>6 DEF Credit, Fits
  <2>5. sum \in 0..MaxBalance
    BY <2>2, <2>3, <2>4, ShopAssumption
  <2>6. row' \in [Console -> Row] /\ BalanceInRange'
    BY <2>4, <2>5, SaveRange
  <2>7. PICK s \in {"idle", "marking"} : Goto(t, s)
    BY <1>6 DEF Credit
  <2>8. credited' \in [Console -> Nat] /\ taken' \in [Card -> Nat]
    BY <1>3, <2>2, <2>4 DEF ShopInv, TypeOK
  <2>9. QED
    BY <1>1, <1>2, <2>1, <2>4, <2>6, <2>7, <2>8, StepKeeps DEF ShopInv, TypeOK
<1>7. CASE CreditFails(t)
  BY <1>1, <1>2, <1>7, StepKeeps
     DEF CreditFails, books, ShopInv, TypeOK, RangeInv, BalanceInRange
<1>8. QED BY <1>4, <1>5, <1>6, <1>7

LEMMA DeliverInv ==
  ASSUME ShopInv, NEW t \in Thread, FindTicket(t) \/ Certify(t) \/ Deliver(t) \/ Die(t)
  PROVE  ShopInv'
<1>1. \A s \in {"idle", "certifying", "delivering"} : s \in Statement
  BY DEF Statement
<1>2. pc[t] # "idle"
  BY DEF FindTicket, Certify, Deliver, Die, At
<1>3. <<op[t], what[t]>> \in Handler /\ who[t] \in Console
  BY <1>2 DEF ShopInv, TypeOK
<1>4. CASE FindTicket(t)
  <2>1. PICK s \in {"idle", "certifying", "delivering"} : Goto(t, s) /\ op[t] = "deliver"
    BY <1>4 DEF FindTicket
  <2>2. UNCHANGED <<row, owned, used, spent, lost, credited, taken, crowd>>
    BY <1>4 DEF FindTicket, books
  <2>3. QED
    BY <1>1, <1>2, <2>1, <2>2, StepKeeps DEF ShopInv, TypeOK, RangeInv, BalanceInRange
<1>5. CASE Certify(t)
  <2>1. /\ Goto(t, "delivering") /\ op[t] = "deliver"
        /\ UNCHANGED <<owned, used, spent, lost, credited, taken, crowd>>
        /\ row' = [row EXCEPT ![who[t]] = [snap[t] EXCEPT !.certified = TRUE]]
    BY <1>5 DEF Certify, At, books, ShopInv, StepsInv
  <2>2. /\ [snap[t] EXCEPT !.certified = TRUE] \in Row
        /\ [snap[t] EXCEPT !.certified = TRUE].balance \in 0..MaxBalance
    <3>1. snap[t] \in Row /\ snap[t].balance \in 0..MaxBalance
      BY DEF ShopInv, TypeOK, RangeInv
    <3>2. QED BY <3>1, RowFacts
  <2>3. row' \in [Console -> Row] /\ BalanceInRange'
    BY <1>3, <2>1, <2>2 DEF ShopInv, TypeOK, RangeInv, BalanceInRange
  <2>4. QED
    BY <1>1, <1>2, <2>1, <2>3, StepKeeps DEF ShopInv, TypeOK
<1>6. CASE Deliver(t)
  <2>1. /\ Goto(t, "idle") /\ op[t] = "deliver"
        /\ UNCHANGED <<row, used, spent, lost, credited, taken, crowd>>
        /\ owned' = [owned EXCEPT ![<<who[t], what[t]>>] = IF @ = 0 THEN 0 ELSE @ - 1]
    BY <1>6 DEF Deliver, At, books, ShopInv, StepsInv
  <2>2. owned' \in [Console \X Thing -> Nat]
    <3>1. owned \in [Console \X Thing -> Nat]
      BY DEF ShopInv, TypeOK
    <3>2. \A n \in Nat : (IF n = 0 THEN 0 ELSE n - 1) \in Nat
      OBVIOUS
    <3>3. <<who[t], what[t]>> \in Console \X Thing
      BY <1>3, <2>1, HandlerFacts
    <3>4. QED BY <2>1, <3>1, <3>2, <3>3
  <2>3. QED
    BY <1>1, <1>2, <2>1, <2>2, StepKeeps DEF ShopInv, TypeOK, RangeInv, BalanceInRange
<1>7. CASE Die(t)
  <2>1. /\ Goto(t, "idle") /\ UNCHANGED <<row, owned, used, spent, credited, taken, crowd>>
        /\ lost' = IF Paid(t) THEN [lost EXCEPT ![who[t]] = @ + Price[what[t]]] ELSE lost
    BY <1>7 DEF Die
  <2>2. Paid(t) => Price[what[t]] \in Nat
    BY <1>3, HandlerFacts DEF Paid, At, ShopInv, StepsInv
  <2>3. lost' \in [Console -> Nat]
    BY <1>3, <2>1, <2>2 DEF ShopInv, TypeOK
  <2>4. QED
    BY <1>1, <1>2, <2>1, <2>3, StepKeeps DEF ShopInv, TypeOK, RangeInv, BalanceInRange
<1>8. QED BY <1>4, <1>5, <1>6, <1>7

LEMMA BeginInv ==
  ASSUME ShopInv, NEW t \in Thread, NEW c \in Console, NEW h \in Handler, Begin(t, c, h)
  PROVE  ShopInv'
<1>1. /\ pc' = [pc EXCEPT ![t] = "read"] /\ op' = [op EXCEPT ![t] = h[1]]
      /\ who' = [who EXCEPT ![t] = c] /\ what' = [what EXCEPT ![t] = h[2]]
      /\ snap' = [snap EXCEPT ![t] = row[c]]
      /\ UNCHANGED <<row, owned, used, spent, lost, credited, taken>>
      /\ crowd' \in {crowd, crowd \cup {c}}
  BY DEF Begin
<1>2. <<h[1], h[2]>> \in Handler
  BY DEF Handler
<1>3. h[1] \in Name /\ h[2] \in Thing \cup Card
  BY <1>2, HandlerFacts
<1>4. row[c] \in Row /\ row[c].balance \in 0..MaxBalance
  BY DEF ShopInv, TypeOK, RangeInv, BalanceInRange
<1>5. /\ pc' \in [Thread -> Statement] /\ op' \in [Thread -> Name]
      /\ what' \in [Thread -> Thing \cup Card \cup {"nothing"}]
      /\ who' \in [Thread -> Console] /\ snap' \in [Thread -> Row]
  <2>1. "read" \in Statement
    BY DEF Statement
  <2>2. QED BY <1>1, <1>3, <1>4, <2>1 DEF ShopInv, TypeOK
<1>6. \A u \in Thread : pc'[u] # "idle" => <<op'[u], what'[u]>> \in Handler
  BY <1>1, <1>2 DEF ShopInv, TypeOK
<1>7. TypeOK'
  BY <1>1, <1>5, <1>6 DEF ShopInv, TypeOK
<1>8. StepsInv'
  <2>1. pc'[t] = "read"
    BY <1>1 DEF ShopInv, TypeOK
  <2>2. \A u \in Thread : u # t => /\ pc'[u] = pc[u] /\ op'[u] = op[u]
                                 /\ what'[u] = what[u] /\ snap'[u] = snap[u]
    BY <1>1 DEF ShopInv, TypeOK
  <2>3. QED BY <2>1, <2>2 DEF ShopInv, StepsInv
<1>9. RangeInv'
  BY <1>1, <1>4 DEF ShopInv, TypeOK, RangeInv, BalanceInRange
<1>10. QED BY <1>7, <1>8, <1>9 DEF ShopInv

LEMMA TerminateInv ==
  ASSUME ShopInv, NEW c \in Console, Terminate(c)
  PROVE  ShopInv' /\ \A d \in Console : row'[d].balance = row[d].balance
<1>1. /\ row' = [row EXCEPT ![c].terminated = TRUE]
      /\ UNCHANGED <<owned, used, pc, op, who, what, snap, spent, lost, credited, taken, crowd>>
  BY DEF Terminate, request, books
<1>2. row[c] \in Row /\ row \in [Console -> Row]
  BY DEF ShopInv, TypeOK
<1>3. [row[c] EXCEPT !.terminated = TRUE] \in Row
      /\ [row[c] EXCEPT !.terminated = TRUE].balance = row[c].balance
  BY <1>2, RowFacts
<1>4. row' \in [Console -> Row] /\ \A d \in Console : row'[d].balance = row[d].balance
  BY <1>1, <1>2, <1>3
<1>5. TypeOK'
  BY <1>1, <1>4 DEF ShopInv, TypeOK
<1>6. StepsInv' /\ RangeInv'
  BY <1>1, <1>4 DEF ShopInv, StepsInv, RangeInv, BalanceInRange
<1>7. QED BY <1>4, <1>5, <1>6 DEF ShopInv

LEMMA ShopNext == ShopInv /\ [Next]_vars => ShopInv'
<1> SUFFICES ASSUME ShopInv, [Next]_vars PROVE ShopInv'
  OBVIOUS
<1>1. ASSUME NEW t \in Thread, NEW c \in Console, NEW h \in Handler, Begin(t, c, h)
      PROVE  ShopInv'
  BY <1>1, BeginInv
<1>2. ASSUME NEW t \in Thread, Step(t) PROVE ShopInv'
  BY <1>2, PurchaseInv, CardInv, DeliverInv DEF Step
<1>3. ASSUME NEW c \in Console, Terminate(c) PROVE ShopInv'
  BY <1>3, TerminateInv
<1>4. CASE UNCHANGED vars
  <2>1. TypeOK'
    BY <1>4 DEF vars, request, books, ShopInv, TypeOK
  <2>2. QED
    BY <1>4, <2>1 DEF vars, request, books, ShopInv, StepsInv, RangeInv, BalanceInRange
<1>5. QED BY <1>1, <1>2, <1>3, <1>4 DEF Next

\* The tables and the requests have their types in every reachable state.
THEOREM TypeCorrect == Spec => []TypeOK
<1>1. ShopInv => TypeOK
  BY DEF ShopInv
<1>2. QED BY ShopInit, ShopNext, <1>1, PTL DEF Spec

\* Whatever requests overlap and wherever they die, no purchase takes a balance
\* below zero and no card takes it over what the column holds
\* (Client3DS.balance), although checks and saves are separate statements.
THEOREM BalanceCorrect == Spec => []BalanceInRange
<1>1. ShopInv => BalanceInRange
  BY DEF ShopInv, RangeInv
<1>2. QED BY ShopInit, ShopNext, <1>1, PTL DEF Spec

-----------------------------------------------------------------------------
(* The books of a console that does one thing at a time *)

OneEach ==
  \A t, u \in Thread :
    pc[t] # "idle" /\ pc[u] # "idle" /\ who[t] = who[u] /\ who[t] \notin crowd => t = u

\* A request of handler o at statement s may still save the row it read.
WillSave(s, o) ==
  s \in {"read", "paying", "crediting", "certifying"} \/ (s = "marking" /\ o # "web")

\* No other request has changed the balance meanwhile.
Fresh ==
  \A t \in Thread :
    WillSave(pc[t], op[t]) /\ who[t] \notin crowd => snap[t].balance = row[who[t]].balance

\* The price that a request of handler o for w at statement s has taken and not
\* given anything for.
Due(s, o, w) == IF s = "granting" /\ o # "code" THEN Price[w] ELSE 0

\* The books of a console in the middle of request t.
OpenBooks ==
  \A t \in Thread :
    pc[t] # "idle" /\ who[t] \notin crowd =>
      row[who[t]].balance + spent[who[t]] + lost[who[t]] + Due(pc[t], op[t], what[t])
        = Start + credited[who[t]]

SerialInv == ShopInv /\ OneEach /\ Fresh /\ OpenBooks /\ BooksBalance

LEMMA SerialInit == Init => SerialInv
<1> SUFFICES ASSUME Init PROVE SerialInv
  OBVIOUS
<1>1. ShopInv
  BY ShopInit
<1>2. OneEach /\ Fresh /\ OpenBooks
  BY DEF Init, OneEach, Fresh, WillSave, OpenBooks
<1>3. BooksBalance
  BY NewRowFacts, ShopAssumption DEF Init, BooksBalance
<1>4. QED BY <1>1, <1>2, <1>3 DEF SerialInv

\* A step of request t that goes to statement s and leaves other consoles alone
\* keeps the books, if it keeps those of its own console.
LEMMA StepBooks ==
  ASSUME SerialInv, ShopInv', NEW t \in Thread, NEW s \in Statement, Goto(t, s),
         pc[t] # "idle", crowd' = crowd,
         \A d \in Console : d # who[t] =>
            /\ row'[d].balance = row[d].balance /\ spent'[d] = spent[d]
            /\ lost'[d] = lost[d] /\ credited'[d] = credited[d],
         WillSave(s, op[t]) /\ who[t] \notin crowd => snap[t].balance = row'[who[t]].balance,
         who[t] \notin crowd =>
           row'[who[t]].balance + spent'[who[t]] + lost'[who[t]] + Due(s, op[t], what[t])
             = Start + credited'[who[t]]
  PROVE  SerialInv'
<1>1. TypeOK /\ who[t] \in Console
  BY DEF SerialInv, ShopInv, TypeOK
<1>2. /\ who' = who /\ pc'[t] = s
      /\ s # "idle" => op'[t] = op[t] /\ what'[t] = what[t] /\ snap'[t] = snap[t]
      /\ \A u \in Thread : u # t => /\ pc'[u] = pc[u] /\ op'[u] = op[u]
                                    /\ what'[u] = what[u] /\ snap'[u] = snap[u]
  BY <1>1, GotoFacts
<1>3. \A u \in Thread :
        u # t /\ pc[u] # "idle" /\ who[u] \notin crowd => who[u] # who[t] /\ who[u] \in Console
  BY <1>1 DEF SerialInv, OneEach, TypeOK
<1>4. OneEach'
  BY <1>2, <1>3 DEF SerialInv, OneEach
<1>5. Fresh'
  <2> SUFFICES ASSUME NEW u \in Thread, WillSave(pc'[u], op'[u]), who[u] \notin crowd
               PROVE  snap'[u].balance = row'[who[u]].balance
    BY <1>2 DEF Fresh
  <2>1. CASE u = t
    BY <1>2, <2>1 DEF WillSave
  <2>2. CASE u # t
    BY <1>2, <1>3, <2>2 DEF WillSave, SerialInv, Fresh
  <2>3. QED BY <2>1, <2>2
<1>6. OpenBooks'
  <2> SUFFICES ASSUME NEW u \in Thread, pc'[u] # "idle", who[u] \notin crowd
               PROVE  row'[who[u]].balance + spent'[who[u]] + lost'[who[u]]
                        + Due(pc'[u], op'[u], what'[u]) = Start + credited'[who[u]]
    BY <1>2 DEF OpenBooks, Due
  <2>1. CASE u = t
    BY <1>2, <2>1
  <2>2. CASE u # t
    BY <1>2, <1>3, <2>2 DEF SerialInv, OpenBooks
  <2>3. QED BY <2>1, <2>2
<1>7. BooksBalance'
  <2> SUFFICES ASSUME NEW d \in Console \ crowd, ~Busy(d)'
               PROVE  row'[d].balance + spent'[d] + lost'[d] = Start + credited'[d]
    BY DEF BooksBalance
  <2>1. CASE d = who[t]
    <3>1. s = "idle"
      BY <1>2, <2>1 DEF Busy
    <3>2. Due(s, op[t], what[t]) = 0
      BY <3>1 DEF Due
    <3>3. /\ row'[d].balance \in Nat /\ spent'[d] \in Nat /\ lost'[d] \in Nat
      BY RowFacts DEF ShopInv, TypeOK
    <3>4. QED BY <2>1, <3>2, <3>3
  <2>2. CASE d # who[t]
    <3>1. ~Busy(d)
      BY <1>2, <2>2 DEF Busy
    <3>2. QED BY <2>2, <3>1 DEF SerialInv, BooksBalance
  <2>3. QED BY <2>1, <2>2
<1>8. QED BY <1>4, <1>5, <1>6, <1>7 DEF SerialInv

\* The numbers of the console of a request.
LEMMA BooksTypes ==
  ASSUME ShopInv, NEW t \in Thread, pc[t] # "idle"
  PROVE  /\ <<op[t], what[t]>> \in Handler /\ who[t] \in Console
         /\ row[who[t]].balance \in Nat /\ snap[t].balance \in Nat
         /\ spent[who[t]] \in Nat /\ lost[who[t]] \in Nat /\ credited[who[t]] \in Nat
BY RowFacts DEF ShopInv, TypeOK

LEMMA PurchaseBooks ==
  ASSUME SerialInv, NEW t \in Thread, who[t] \notin crowd, Check(t) \/ Pay(t) \/ Grant(t)
  PROVE  SerialInv'
<1>1. ShopInv' /\ crowd' = crowd
  BY PurchaseInv DEF SerialInv, Check, Pay, Grant, books
<1>2. pc[t] # "idle" /\ \A s \in {"idle", "paying", "granting"} : s \in Statement
  BY DEF Check, Pay, Grant, At, Statement
<1>3. /\ <<op[t], what[t]>> \in Handler /\ who[t] \in Console
      /\ row[who[t]].balance \in Nat /\ snap[t].balance \in Nat
      /\ spent[who[t]] \in Nat /\ lost[who[t]] \in Nat /\ credited[who[t]] \in Nat
  BY <1>2, BooksTypes DEF SerialInv
<1>4. row[who[t]].balance + spent[who[t]] + lost[who[t]] + Due(pc[t], op[t], what[t])
        = Start + credited[who[t]]
  BY <1>2 DEF SerialInv, OpenBooks
<1>5. CASE Check(t)
  <2>1. PICK s \in {"idle", "paying"} : Goto(t, s)
    BY <1>5 DEF Check
  <2>2. UNCHANGED <<row, spent, lost, credited>> /\ pc[t] = "read"
    BY <1>5 DEF Check, At, books
  <2>3. Due(pc[t], op[t], what[t]) = 0 /\ Due(s, op[t], what[t]) = 0
    BY <2>1, <2>2 DEF Due
  <2>4. snap[t].balance = row[who[t]].balance
    BY <2>2 DEF SerialInv, Fresh, WillSave
  <2>5. QED BY <1>1, <1>2, <1>4, <2>1, <2>2, <2>3, <2>4, StepBooks
<1>6. CASE Pay(t)
  <2>1. /\ Goto(t, "granting") /\ SaveBalance(t, snap[t].balance - Price[what[t]])
        /\ UNCHANGED <<spent, lost, credited>> /\ pc[t] = "paying"
        /\ op[t] \in Purchase /\ Price[what[t]] <= snap[t].balance
    BY <1>6 DEF Pay, At, books, SerialInv, ShopInv, StepsInv
  <2>2. Price[what[t]] \in Nat
    BY <1>3, <2>1, HandlerFacts
  <2>3. snap[t].balance - Price[what[t]] \in 0..MaxBalance
    <3>1. snap[t].balance \in 0..MaxBalance
      BY DEF SerialInv, ShopInv, RangeInv
    <3>2. QED BY <2>1, <2>2, <3>1, ShopAssumption
  <2>4. /\ row'[who[t]].balance = snap[t].balance - Price[what[t]]
        /\ \A c \in Console : c # who[t] => row'[c] = row[c]
    BY <2>1, <2>3, SaveRange DEF SerialInv
  <2>5. snap[t].balance = row[who[t]].balance
    BY <2>1 DEF SerialInv, Fresh, WillSave
  <2>6. Due(pc[t], op[t], what[t]) = 0 /\ Due("granting", op[t], what[t]) = Price[what[t]]
    BY <2>1 DEF Due, Purchase
  <2>7. row'[who[t]].balance + spent'[who[t]] + lost'[who[t]] + Due("granting", op[t], what[t])
          = Start + credited'[who[t]]
    BY <1>3, <1>4, <2>1, <2>2, <2>4, <2>5, <2>6
  <2>8. ~WillSave("granting", op[t])
    BY DEF WillSave
  <2>9. QED BY <1>1, <1>2, <2>1, <2>4, <2>7, <2>8, StepBooks
<1>7. CASE Grant(t)
  <2> DEFINE p == IF op[t] = "code" THEN 0 ELSE Price[what[t]]
  <2>1. /\ Goto(t, "idle") /\ UNCHANGED <<row, lost, credited>> /\ pc[t] = "granting"
        /\ spent' = [spent EXCEPT ![who[t]] = @ + p]
    BY <1>7 DEF Grant, At
  <2>2. p \in Nat
    BY <1>3, <2>1, HandlerFacts DEF SerialInv, ShopInv, StepsInv
  <2>3. Due(pc[t], op[t], what[t]) = p /\ Due("idle", op[t], what[t]) = 0
    BY <2>1 DEF Due
  <2>4. /\ spent'[who[t]] = spent[who[t]] + p
        /\ \A d \in Console : d # who[t] => spent'[d] = spent[d]
    BY <1>3, <2>1 DEF SerialInv, ShopInv, TypeOK
  <2> HIDE DEF p
  <2>5. row'[who[t]].balance + spent'[who[t]] + lost'[who[t]] + Due("idle", op[t], what[t])
          = Start + credited'[who[t]]
    BY <1>3, <1>4, <2>1, <2>2, <2>3, <2>4
  <2>6. ~WillSave("idle", op[t])
    BY DEF WillSave
  <2>7. QED BY <1>1, <1>2, <2>1, <2>4, <2>5, <2>6, StepBooks
<1>8. QED BY <1>5, <1>6, <1>7

LEMMA CardBooks ==
  ASSUME SerialInv, NEW t \in Thread, who[t] \notin crowd,
         ReadCard(t) \/ MarkCard(t) \/ Credit(t) \/ CreditFails(t)
  PROVE  SerialInv'
<1>1. ShopInv' /\ crowd' = crowd
  BY CardInv DEF SerialInv, ReadCard, MarkCard, Credit, CreditFails, books
<1>2. /\ pc[t] # "idle"
      /\ \A s \in {"idle", "marking", "crediting", "granting"} : s \in Statement
  BY DEF ReadCard, MarkCard, Credit, CreditFails, At, Statement
<1>3. /\ <<op[t], what[t]>> \in Handler /\ who[t] \in Console
      /\ row[who[t]].balance \in Nat /\ snap[t].balance \in Nat
      /\ spent[who[t]] \in Nat /\ lost[who[t]] \in Nat /\ credited[who[t]] \in Nat
  BY <1>2, BooksTypes DEF SerialInv
<1>4. row[who[t]].balance + spent[who[t]] + lost[who[t]] + Due(pc[t], op[t], what[t])
        = Start + credited[who[t]]
  BY <1>2 DEF SerialInv, OpenBooks
<1>5. CASE ReadCard(t) \/ MarkCard(t) \/ CreditFails(t)
  <2>1. /\ UNCHANGED <<row, spent, lost, credited>>
        /\ pc[t] \in {"read", "marking", "crediting"}
    BY <1>5 DEF ReadCard, MarkCard, CreditFails, At, books
  <2>2. PICK s \in {"idle", "marking", "crediting", "granting"} :
          /\ Goto(t, s)
          /\ s = "granting" => op[t] = "code"
          /\ WillSave(s, op[t]) => WillSave(pc[t], op[t])
    <3>1. pc[t] = "marking" => op[t] \in {"prepaid", "web", "code"}
      BY DEF SerialInv, ShopInv, StepsInv
    <3>2. QED BY <1>5, <3>1 DEF ReadCard, MarkCard, CreditFails, At, WillSave
  <2>3. Due(pc[t], op[t], what[t]) = 0 /\ Due(s, op[t], what[t]) = 0
    BY <2>1, <2>2 DEF Due
  <2>4. WillSave(s, op[t]) => snap[t].balance = row'[who[t]].balance
    BY <2>1, <2>2 DEF SerialInv, Fresh
  <2>5. QED BY <1>1, <1>2, <1>4, <2>1, <2>2, <2>3, <2>4, StepBooks
<1>6. CASE Credit(t)
  <2> DEFINE w == Worth[what[t]]
  <2>1. /\ snap[t].balance + w <= MaxBalance /\ SaveBalance(t, snap[t].balance + w)
        /\ credited' = [credited EXCEPT ![who[t]] = @ + w]
        /\ UNCHANGED <<spent, lost>> /\ pc[t] = "crediting" /\ op[t] \in {"prepaid", "web"}
    BY <1>6 DEF Credit, Fits, At, SerialInv, ShopInv, StepsInv
  <2>2. PICK s \in {"idle", "marking"} : Goto(t, s) /\ (s = "marking" => op[t] = "web")
    BY <1>6 DEF Credit
  <2>3. w \in Nat
    BY <1>3, <2>1, HandlerFacts
  <2>4. snap[t].balance + w \in 0..MaxBalance
    BY <1>3, <2>1, <2>3, ShopAssumption
  <2>5. /\ row'[who[t]].balance = snap[t].balance + w
        /\ \A c \in Console : c # who[t] => row'[c] = row[c]
    BY <2>1, <2>4, SaveRange DEF SerialInv
  <2>6. /\ credited'[who[t]] = credited[who[t]] + w
        /\ \A d \in Console : d # who[t] => credited'[d] = credited[d]
    BY <1>3, <2>1 DEF SerialInv, ShopInv, TypeOK
  <2>7. snap[t].balance = row[who[t]].balance
    BY <2>1 DEF SerialInv, Fresh, WillSave
  <2>8. Due(pc[t], op[t], what[t]) = 0 /\ Due(s, op[t], what[t]) = 0 /\ ~WillSave(s, op[t])
    BY <2>1, <2>2 DEF Due, WillSave
  <2> HIDE DEF w
  <2>9. row'[who[t]].balance + spent'[who[t]] + lost'[who[t]] + Due(s, op[t], what[t])
          = Start + credited'[who[t]]
    BY <1>3, <1>4, <2>1, <2>3, <2>5, <2>6, <2>7, <2>8, ShopAssumption
  <2>10. QED BY <1>1, <1>2, <2>1, <2>2, <2>5, <2>6, <2>8, <2>9, StepBooks
<1>7. QED BY <1>5, <1>6

LEMMA DeliverBooks ==
  ASSUME SerialInv, NEW t \in Thread, who[t] \notin crowd, FindTicket(t) \/ Certify(t) \/ Deliver(t) \/ Die(t)
  PROVE  SerialInv'
<1>1. ShopInv' /\ crowd' = crowd
  BY DeliverInv DEF SerialInv, FindTicket, Certify, Deliver, Die, books
<1>2. pc[t] # "idle" /\ \A s \in {"idle", "certifying", "delivering"} : s \in Statement
  BY DEF FindTicket, Certify, Deliver, Die, At, Statement
<1>3. /\ <<op[t], what[t]>> \in Handler /\ who[t] \in Console
      /\ row[who[t]].balance \in Nat /\ snap[t].balance \in Nat
      /\ spent[who[t]] \in Nat /\ lost[who[t]] \in Nat /\ credited[who[t]] \in Nat
  BY <1>2, BooksTypes DEF SerialInv
<1>4. row[who[t]].balance + spent[who[t]] + lost[who[t]] + Due(pc[t], op[t], what[t])
        = Start + credited[who[t]]
  BY <1>2 DEF SerialInv, OpenBooks
<1>5. CASE FindTicket(t) \/ Deliver(t)
  <2>1. UNCHANGED <<row, spent, lost, credited>> /\ pc[t] \in {"read", "delivering"}
    BY <1>5 DEF FindTicket, Deliver, At, books
  <2>2. PICK s \in {"idle", "certifying", "delivering"} :
          Goto(t, s) /\ (WillSave(s, op[t]) => WillSave(pc[t], op[t]))
    BY <1>5 DEF FindTicket, Deliver, At, WillSave
  <2>3. Due(pc[t], op[t], what[t]) = 0 /\ Due(s, op[t], what[t]) = 0
    BY <2>1, <2>2 DEF Due
  <2>4. WillSave(s, op[t]) => snap[t].balance = row'[who[t]].balance
    BY <2>1, <2>2 DEF SerialInv, Fresh
  <2>5. QED BY <1>1, <1>2, <1>4, <2>1, <2>2, <2>3, <2>4, StepBooks
<1>6. CASE Certify(t)
  <2>1. /\ Goto(t, "delivering") /\ UNCHANGED <<spent, lost, credited>>
        /\ row' = [row EXCEPT ![who[t]] = [snap[t] EXCEPT !.certified = TRUE]]
        /\ pc[t] = "certifying"
    BY <1>6 DEF Certify, At, books
  <2>2. snap[t] \in Row /\ row \in [Console -> Row]
    BY DEF SerialInv, ShopInv, TypeOK
  <2>3. [snap[t] EXCEPT !.certified = TRUE].balance = snap[t].balance
    BY <2>2, RowFacts
  <2>4. /\ row'[who[t]].balance = snap[t].balance
        /\ \A c \in Console : c # who[t] => row'[c] = row[c]
    BY <1>3, <2>1, <2>2, <2>3
  <2>5. snap[t].balance = row[who[t]].balance
    BY <2>1 DEF SerialInv, Fresh, WillSave
  <2>6. /\ Due(pc[t], op[t], what[t]) = 0 /\ Due("delivering", op[t], what[t]) = 0
        /\ ~WillSave("delivering", op[t])
    BY <2>1 DEF Due, WillSave
  <2>7. QED BY <1>1, <1>2, <1>4, <2>1, <2>4, <2>5, <2>6, StepBooks
<1>7. CASE Die(t)
  <2> DEFINE p == Due(pc[t], op[t], what[t])
  <2>1. /\ Goto(t, "idle") /\ UNCHANGED <<row, spent, credited>>
        /\ lost' = IF Paid(t) THEN [lost EXCEPT ![who[t]] = @ + Price[what[t]]] ELSE lost
    BY <1>7 DEF Die
  <2>2. pc[t] = "granting" /\ op[t] # "code" => Price[what[t]] \in Nat
    BY <1>3, HandlerFacts DEF SerialInv, ShopInv, StepsInv
  <2>3. p \in Nat
    BY <2>2 DEF Due
  <2>4. /\ lost'[who[t]] = lost[who[t]] + p
        /\ \A d \in Console : d # who[t] => lost'[d] = lost[d]
    <3>1. lost \in [Console -> Nat]
      BY DEF SerialInv, ShopInv, TypeOK
    <3>2. CASE Paid(t)
      <4>1. p = Price[what[t]]
        BY <3>2 DEF Paid, At, Due
      <4>2. QED BY <1>3, <2>1, <3>1, <3>2, <4>1
    <3>3. CASE ~Paid(t)
      <4>1. p = 0
        BY <3>3 DEF Paid, At, Due
      <4>2. QED BY <1>3, <2>1, <3>1, <3>3, <4>1
    <3>4. QED BY <3>2, <3>3
  <2>5. Due("idle", op[t], what[t]) = 0 /\ ~WillSave("idle", op[t])
    BY DEF Due, WillSave
  <2> HIDE DEF p
  <2>6. row'[who[t]].balance + spent'[who[t]] + lost'[who[t]] + Due("idle", op[t], what[t])
          = Start + credited'[who[t]]
    BY <1>3, <1>4, <2>1, <2>3, <2>4, <2>5 DEF p
  <2>7. QED BY <1>1, <1>2, <2>1, <2>4, <2>5, <2>6, StepBooks
<1>8. QED BY <1>5, <1>6, <1>7

\* A request writes the rows of its own console only.
LEMMA OthersAlone ==
  ASSUME ShopInv, NEW t \in Thread, Step(t)
  PROVE  \A d \in Console : d # who[t] =>
           /\ row'[d] = row[d] /\ spent'[d] = spent[d]
           /\ lost'[d] = lost[d] /\ credited'[d] = credited[d]
           /\ \A x \in Thing : owned'[<<d, x>>] = owned[<<d, x>>]
<1>1. /\ row \in [Console -> Row] /\ spent \in [Console -> Nat] /\ lost \in [Console -> Nat]
      /\ credited \in [Console -> Nat] /\ who[t] \in Console
      /\ owned \in [Console \X Thing -> Nat]
  BY DEF ShopInv, TypeOK
<1>2. CASE Check(t) \/ Pay(t)
  BY <1>1, <1>2 DEF Check, Pay, SaveBalance, books
<1>3. CASE Grant(t)
  BY <1>1, <1>3 DEF Grant
<1>4. CASE ReadCard(t) \/ MarkCard(t) \/ Credit(t) \/ CreditFails(t)
  BY <1>1, <1>4 DEF ReadCard, MarkCard, Credit, CreditFails, SaveBalance, books
<1>5. CASE FindTicket(t) \/ Certify(t) \/ Die(t)
  BY <1>1, <1>5 DEF FindTicket, Certify, Die, books
<1>6. CASE Deliver(t)
  <2>1. UNCHANGED <<row, spent, lost, credited>>
    BY <1>6 DEF Deliver, books
  <2> DEFINE n == owned[<<who[t], what[t]>>]
             left == IF n = 0 THEN 0 ELSE n - 1
  <2>2. owned' = [owned EXCEPT ![<<who[t], what[t]>>] = left]
    BY <1>6 DEF Deliver
  <2> HIDE DEF n, left
  <2>3. QED BY <1>1, <2>1, <2>2
<1>7. QED BY <1>2, <1>3, <1>4, <1>5, <1>6 DEF Step

\* The books of other consoles are not touched, so that a request of a console
\* in the crowd keeps what is said of them.
LEMMA CrowdBooks ==
  ASSUME SerialInv, NEW t \in Thread, who[t] \in crowd, Step(t)
  PROVE  SerialInv'
<1>1. ShopInv'
  BY PurchaseInv, CardInv, DeliverInv DEF SerialInv, Step
<1>2. pc[t] # "idle" /\ crowd' = crowd
  BY DEF Step, Check, Pay, Grant, ReadCard, MarkCard, Credit, CreditFails, FindTicket, Certify,
         Deliver, Die, At, books
<1>3. PICK s \in Statement : Goto(t, s)
  <2>1. \A s \in {"idle", "paying", "granting", "marking", "crediting", "certifying",
                  "delivering"} : s \in Statement
    BY DEF Statement
  <2>2. pc[t] = "marking" => op[t] \in {"prepaid", "web", "code"}
    BY DEF SerialInv, ShopInv, StepsInv
  <2>3. CASE Check(t) \/ Pay(t) \/ Grant(t)
    BY <2>1, <2>3 DEF Check, Pay, Grant
  <2>4. CASE ReadCard(t) \/ MarkCard(t) \/ Credit(t) \/ CreditFails(t)
    BY <2>1, <2>2, <2>4 DEF ReadCard, MarkCard, Credit, CreditFails, At
  <2>5. CASE FindTicket(t) \/ Certify(t) \/ Deliver(t) \/ Die(t)
    BY <2>1, <2>5 DEF FindTicket, Certify, Deliver, Die
  <2>6. QED BY <2>3, <2>4, <2>5 DEF Step
<1>4. \A d \in Console : d # who[t] =>
        /\ row'[d] = row[d] /\ spent'[d] = spent[d]
        /\ lost'[d] = lost[d] /\ credited'[d] = credited[d]
  BY OthersAlone DEF SerialInv
<1>5. QED BY <1>1, <1>2, <1>3, <1>4, StepBooks

LEMMA BeginBooks ==
  ASSUME SerialInv, NEW t \in Thread, NEW c \in Console, NEW h \in Handler, Begin(t, c, h)
  PROVE  SerialInv'
<1>1. ShopInv'
  BY BeginInv DEF SerialInv
<1>2. /\ pc[t] = "idle"
      /\ pc' = [pc EXCEPT ![t] = "read"] /\ op' = [op EXCEPT ![t] = h[1]]
      /\ who' = [who EXCEPT ![t] = c] /\ what' = [what EXCEPT ![t] = h[2]]
      /\ snap' = [snap EXCEPT ![t] = row[c]]
      /\ UNCHANGED <<row, spent, lost, credited>>
  BY DEF Begin, At
<1>3. pc'[t] = "read" /\ who'[t] = c /\ snap'[t] = row[c]
  BY <1>2 DEF SerialInv, ShopInv, TypeOK
<1>4. \A u \in Thread : u # t => /\ pc'[u] = pc[u] /\ op'[u] = op[u] /\ who'[u] = who[u]
                               /\ what'[u] = what[u] /\ snap'[u] = snap[u]
  BY <1>2 DEF SerialInv, ShopInv, TypeOK
<1>5. /\ crowd \subseteq crowd'
      /\ c \notin crowd' => ~Busy(c)
  BY DEF Begin
<1>6. \A u \in Thread : u # t /\ pc[u] # "idle" /\ c \notin crowd' => who[u] # c
  BY <1>5 DEF Busy
<1>7. OneEach'
  <2> SUFFICES ASSUME NEW u \in Thread, NEW v \in Thread, pc'[u] # "idle", pc'[v] # "idle",
                      who'[u] = who'[v], who'[u] \notin crowd'
               PROVE  u = v
    BY DEF OneEach
  <2>1. CASE u # t /\ v # t
    BY <1>4, <1>5, <2>1 DEF SerialInv, OneEach
  <2>2. CASE u = t \/ v = t
    BY <1>3, <1>4, <1>6, <2>2
  <2>3. QED BY <2>1, <2>2
<1>8. Fresh'
  <2> SUFFICES ASSUME NEW u \in Thread, WillSave(pc'[u], op'[u]), who'[u] \notin crowd'
               PROVE  snap'[u].balance = row[who'[u]].balance
    BY <1>2 DEF Fresh
  <2>1. CASE u = t
    BY <1>3, <2>1
  <2>2. CASE u # t
    BY <1>4, <1>5, <2>2 DEF SerialInv, Fresh
  <2>3. QED BY <2>1, <2>2
<1>9. c \notin crowd' => row[c].balance + spent[c] + lost[c] = Start + credited[c]
  BY <1>5 DEF SerialInv, BooksBalance
<1>10. row[c].balance \in Nat /\ spent[c] \in Nat /\ lost[c] \in Nat
  BY RowFacts DEF SerialInv, ShopInv, TypeOK
<1>11. OpenBooks'
  <2> SUFFICES ASSUME NEW u \in Thread, pc'[u] # "idle", who'[u] \notin crowd'
               PROVE  row[who'[u]].balance + spent[who'[u]] + lost[who'[u]]
                        + Due(pc'[u], op'[u], what'[u]) = Start + credited[who'[u]]
    BY <1>2 DEF OpenBooks, Due
  <2>1. CASE u = t
    <3>1. Due(pc'[u], op'[u], what'[u]) = 0
      BY <1>3, <2>1 DEF Due
    <3>2. QED BY <1>3, <1>9, <1>10, <2>1, <3>1
  <2>2. CASE u # t
    BY <1>4, <1>5, <2>2 DEF SerialInv, OpenBooks
  <2>3. QED BY <2>1, <2>2
<1>12. BooksBalance'
  <2>1. \A d \in Console : ~Busy(d)' => ~Busy(d)
    BY <1>2, <1>4 DEF Busy
  <2>2. QED BY <1>2, <1>5, <2>1 DEF SerialInv, BooksBalance
<1>13. QED BY <1>1, <1>7, <1>8, <1>11, <1>12 DEF SerialInv

LEMMA SerialNext == ASSUME SerialInv, [Next]_vars PROVE SerialInv'
<1>1. ASSUME NEW t \in Thread, NEW c \in Console, NEW h \in Handler, Begin(t, c, h)
      PROVE  SerialInv'
  BY <1>1, BeginBooks
<1>2. ASSUME NEW t \in Thread, Step(t) PROVE SerialInv'
  BY <1>2, CrowdBooks, PurchaseBooks, CardBooks, DeliverBooks DEF Step
<1>3. ASSUME NEW c \in Console, Terminate(c) PROVE SerialInv'
  <2>1. ShopInv' /\ \A d \in Console : row'[d].balance = row[d].balance
    BY <1>3, TerminateInv DEF SerialInv
  <2>2. UNCHANGED <<pc, op, who, what, snap, spent, lost, credited, crowd>>
    BY <1>3 DEF Terminate, request, books
  <2>3. \A t \in Thread : who[t] \in Console
    BY DEF SerialInv, ShopInv, TypeOK
  <2>4. OneEach' /\ Fresh'
    BY <2>1, <2>2, <2>3 DEF SerialInv, OneEach, Fresh
  <2>5. OpenBooks'
    BY <2>1, <2>2, <2>3 DEF SerialInv, OpenBooks, Due
  <2>6. BooksBalance'
    BY <2>1, <2>2 DEF SerialInv, BooksBalance, Busy
  <2>7. QED BY <2>1, <2>4, <2>5, <2>6 DEF SerialInv
<1>4. CASE UNCHANGED vars
  <2>1. ShopInv'
    BY ShopNext DEF SerialInv
  <2>2. QED
    BY <1>4, <2>1
       DEF vars, request, books, SerialInv, OneEach, Fresh, OpenBooks, Due, BooksBalance, Busy
<1>5. QED BY <1>1, <1>2, <1>3, <1>4 DEF Next

\* As long as a console does one thing at a time, whatever others do at once and
\* wherever a request dies (purcahse_title, add_money_prepaid and the like save
\* the balance and create the ticket in separate statements), its books balance
\* at rest, and nothing is given away at any time.
THEOREM BooksCorrect == Spec => [](BooksBalance /\ NothingForFree)
<1>1. SerialInv /\ [Next]_vars => SerialInv'
  BY SerialNext
<1>2. SerialInv => BooksBalance /\ NothingForFree
  <2> SUFFICES ASSUME SerialInv, NEW c \in Console \ crowd
               PROVE  row[c].balance + spent[c] <= Start + credited[c]
    BY DEF SerialInv, NothingForFree
  <2>1. row[c].balance \in Nat /\ spent[c] \in Nat /\ lost[c] \in Nat /\ credited[c] \in Nat
    BY RowFacts DEF SerialInv, ShopInv, TypeOK
  <2>2. CASE ~Busy(c)
    BY <2>1, <2>2, ShopAssumption DEF SerialInv, BooksBalance
  <2>3. CASE Busy(c)
    <3>1. PICK t \in Thread : pc[t] # "idle" /\ who[t] = c
      BY <2>3 DEF Busy
    <3>2. row[c].balance + spent[c] + lost[c] + Due(pc[t], op[t], what[t]) = Start + credited[c]
      BY <3>1 DEF SerialInv, OpenBooks
    <3>3. <<op[t], what[t]>> \in Handler
      BY <3>1, BooksTypes DEF SerialInv
    <3>4. Due(pc[t], op[t], what[t]) \in Nat
      BY <3>3, HandlerFacts DEF Due, SerialInv, ShopInv, StepsInv
    <3>5. QED BY <2>1, <3>2, <3>4, ShopAssumption
  <2>4. QED BY <2>2, <2>3
<1>3. QED BY SerialInit, <1>1, <1>2, PTL DEF Spec

-----------------------------------------------------------------------------
(* Ownership *)

\* What a request is about to be paid for and given is not owned.
NotYet ==
  \A t \in Thread :
    pc[t] \in {"paying", "granting"} /\ op[t] # "code" /\ who[t] \notin crowd =>
      owned[<<who[t], what[t]>>] = 0

LEMMA OwnedTypes ==
  ASSUME ShopInv
  PROVE  /\ owned \in [Console \X Thing -> Nat]
         /\ \A t \in Thread : who[t] \in Console
         /\ \A d \in Console, x \in Thing : owned[<<d, x>>] \in Nat
BY DEF ShopInv, TypeOK

\* A step of request t that goes to statement s leaves what the others are
\* about alone.
LEMMA StepOwned ==
  ASSUME SerialInv, NotYet, NEW t \in Thread, NEW s \in Statement, Goto(t, s),
         pc[t] # "idle", crowd' = crowd,
         \A d \in Console, x \in Thing : d # who[t] => owned'[<<d, x>>] = owned[<<d, x>>],
         s \in {"paying", "granting"} /\ op[t] # "code" /\ who[t] \notin crowd =>
           owned'[<<who[t], what[t]>>] = 0
  PROVE  NotYet'
<1>1. TypeOK /\ who[t] \in Console
  BY DEF SerialInv, ShopInv, TypeOK
<1>2. /\ who' = who /\ pc'[t] = s
      /\ s # "idle" => op'[t] = op[t] /\ what'[t] = what[t]
      /\ \A u \in Thread : u # t => /\ pc'[u] = pc[u] /\ op'[u] = op[u]
                                    /\ what'[u] = what[u]
  BY <1>1, GotoFacts
<1>3. SUFFICES ASSUME NEW u \in Thread, pc'[u] \in {"paying", "granting"}, op'[u] # "code",
                      who[u] \notin crowd
               PROVE  owned'[<<who[u], what'[u]>>] = 0
  BY <1>2 DEF NotYet
<1>4. CASE u = t
  BY <1>2, <1>3, <1>4
<1>5. CASE u # t
  <2>1. /\ pc[u] \in {"paying", "granting"} /\ pc[u] # "idle" /\ op[u] # "code"
        /\ what'[u] = what[u]
    BY <1>2, <1>3, <1>5
  <2>2. who[u] \in Console /\ who[u] # who[t]
    BY <1>1, <1>3, <1>5, <2>1 DEF SerialInv, OneEach, TypeOK
  <2>3. what[u] \in Thing
    <3>1. op[u] \in Purchase
      BY <2>1 DEF SerialInv, ShopInv, StepsInv
    <3>2. <<op[u], what[u]>> \in Handler
      BY <2>1, BooksTypes DEF SerialInv
    <3>3. QED BY <3>1, <3>2 DEF Handler, Purchase, Thing
  <2>4. owned[<<who[u], what[u]>>] = 0
    BY <1>3, <2>1 DEF NotYet
  <2>5. QED BY <2>1, <2>2, <2>3, <2>4
<1>6. QED BY <1>4, <1>5

LEMMA RequestOwned ==
  ASSUME SerialInv, NotYet, NEW t \in Thread, Step(t)
  PROVE  NotYet'
<1>1. /\ owned \in [Console \X Thing -> Nat] /\ who[t] \in Console
      /\ \A d \in Console, x \in Thing : owned[<<d, x>>] \in Nat
  BY OwnedTypes DEF SerialInv
<1>2. pc[t] # "idle" /\ crowd' = crowd
  BY DEF Step, Check, Pay, Grant, ReadCard, MarkCard, Credit, CreditFails, FindTicket, Certify,
         Deliver, Die, At, books
<1>3. <<op[t], what[t]>> \in Handler
  BY <1>2, BooksTypes DEF SerialInv
<1>4. \A s \in {"idle", "paying", "granting", "marking", "crediting", "certifying",
                "delivering"} : s \in Statement
  BY DEF Statement
<1>5. CASE Check(t)
  <2>1. PICK s \in {"idle", "paying"} :
          Goto(t, s) /\ (s = "paying" => ~HasAlready(t, what[t]))
    BY <1>5 DEF Check
  <2>2. UNCHANGED owned /\ op[t] \in {"title", "ticket", "aoc"}
    BY <1>5 DEF Check
  <2>3. what[t] \in Thing /\ (op[t] = "aoc" => what[t] \in Item)
    BY <1>3, <2>2, DisjointAssumption DEF Handler, Thing
  <2>4. ~HasAlready(t, what[t]) => owned[<<who[t], what[t]>>] = 0
    <3>1. owned[<<who[t], what[t]>>] \in Nat
      BY <1>1, <2>3
    <3>2. ~HasAlready(t, what[t]) => ~(owned[<<who[t], what[t]>>] > 0)
      BY <2>3 DEF HasAlready
    <3>3. QED BY <3>1, <3>2
  <2>5. QED BY <1>2, <1>4, <2>1, <2>2, <2>4, StepOwned
<1>6. CASE Pay(t)
  <2>1. Goto(t, "granting") /\ UNCHANGED owned /\ pc[t] = "paying"
    BY <1>6 DEF Pay, At
  <2>2. op[t] # "code" /\ who[t] \notin crowd => owned[<<who[t], what[t]>>] = 0
    BY <2>1 DEF NotYet
  <2>3. QED BY <1>2, <1>4, <2>1, <2>2, StepOwned
<1>7. CASE Grant(t)
  <2>1. Goto(t, "idle") /\ owned' = [owned EXCEPT ![<<who[t], Goods(t)>>] = @ + 1]
    BY <1>7 DEF Grant
  <2>2. \A d \in Console, x \in Thing : d # who[t] => owned'[<<d, x>>] = owned[<<d, x>>]
    BY <1>1, <2>1
  <2>3. QED BY <1>2, <1>4, <2>1, <2>2, StepOwned
<1>8. CASE \/ ReadCard(t) \/ MarkCard(t) \/ Credit(t) \/ CreditFails(t)
           \/ FindTicket(t) \/ Certify(t) \/ Die(t)
  <2>1. UNCHANGED owned
    BY <1>8 DEF ReadCard, MarkCard, Credit, CreditFails, FindTicket, Certify, Die
  <2>2. pc[t] = "marking" => op[t] \in {"prepaid", "web", "code"}
    BY DEF SerialInv, ShopInv, StepsInv
  <2>3. PICK s \in {"idle", "granting", "marking", "crediting", "certifying", "delivering"} :
          Goto(t, s) /\ (s = "granting" => op[t] = "code")
    BY <1>8, <2>2
       DEF ReadCard, MarkCard, Credit, CreditFails, FindTicket, Certify, Die, At
  <2>4. QED BY <1>2, <1>4, <2>1, <2>3, StepOwned
<1>9. CASE Deliver(t)
  <2> DEFINE n == owned[<<who[t], what[t]>>]
             left == IF n = 0 THEN 0 ELSE n - 1
  <2>1. Goto(t, "idle") /\ owned' = [owned EXCEPT ![<<who[t], what[t]>>] = left]
    BY <1>9 DEF Deliver
  <2>2. \A d \in Console, x \in Thing : d # who[t] => owned'[<<d, x>>] = owned[<<d, x>>]
    BY <1>1, <2>1
  <2>3. QED BY <1>2, <1>4, <2>1, <2>2, StepOwned
<1>10. QED BY <1>5, <1>6, <1>7, <1>8, <1>9 DEF Step

LEMMA OwnedNext ==
  ASSUME SerialInv, NotYet, [Next]_vars
  PROVE  NotYet'
<1>1. ASSUME NEW t \in Thread, NEW c \in Console, NEW h \in Handler, Begin(t, c, h)
      PROVE  NotYet'
  <2>1. /\ UNCHANGED owned /\ crowd \subseteq crowd'
        /\ pc' = [pc EXCEPT ![t] = "read"] /\ op' = [op EXCEPT ![t] = h[1]]
        /\ who' = [who EXCEPT ![t] = c] /\ what' = [what EXCEPT ![t] = h[2]]
    BY <1>1 DEF Begin
  <2>2. \A u \in Thread : \/ pc'[u] = "read"
                          \/ /\ pc'[u] = pc[u] /\ op'[u] = op[u] /\ who'[u] = who[u]
                             /\ what'[u] = what[u]
    BY <2>1 DEF SerialInv, ShopInv, TypeOK
  <2>3. QED BY <2>1, <2>2 DEF NotYet
<1>2. ASSUME NEW t \in Thread, Step(t) PROVE NotYet'
  BY <1>2, RequestOwned
<1>3. ASSUME NEW c \in Console, Terminate(c) PROVE NotYet'
  BY <1>3 DEF Terminate, request, books, NotYet
<1>4. CASE UNCHANGED vars
  BY <1>4 DEF vars, request, books, NotYet
<1>5. QED BY <1>1, <1>2, <1>3, <1>4 DEF Next

\* Rows are added by Grant alone, for what its request is about.
LEMMA RowsAdded ==
  ASSUME SerialInv, NotYet, [Next]_vars, NEW c \in Console \ crowd, NEW x \in Thing,
         owned[<<c, x>>] > 0, owned'[<<c, x>>] > owned[<<c, x>>]
  PROVE  \E t \in Thread : who[t] = c /\ op[t] = "code" /\ Goods(t) = x
<1>1. /\ owned \in [Console \X Thing -> Nat] /\ owned[<<c, x>>] \in Nat
      /\ \A t \in Thread : who[t] \in Console
  BY OwnedTypes DEF SerialInv
<1>2. ASSUME UNCHANGED owned PROVE FALSE
  BY <1>1, <1>2
<1>3. ASSUME NEW t \in Thread, NEW d \in Console, NEW h \in Handler, Begin(t, d, h)
      PROVE  FALSE
  BY <1>2, <1>3 DEF Begin
<1>4. ASSUME NEW t \in Thread, Step(t)
      PROVE  who[t] = c /\ op[t] = "code" /\ Goods(t) = x
  <2>1. CASE \/ Check(t) \/ Pay(t) \/ ReadCard(t) \/ MarkCard(t) \/ Credit(t)
             \/ CreditFails(t) \/ FindTicket(t) \/ Certify(t) \/ Die(t)
    BY <1>2, <2>1
       DEF Check, Pay, ReadCard, MarkCard, Credit, CreditFails, FindTicket, Certify, Die
  <2>2. CASE Grant(t)
    <3> DEFINE g == Goods(t)
    <3>1. pc[t] = "granting" /\ owned' = [owned EXCEPT ![<<who[t], g>>] = @ + 1]
      BY <2>2 DEF Grant, At
    <3> HIDE DEF g
    <3>2. <<c, x>> = <<who[t], g>>
      BY <1>1, <3>1
    <3>3. CASE op[t] = "code"
      BY <3>2, <3>3 DEF g
    <3>4. CASE op[t] # "code"
      <4>1. g = what[t]
        BY <3>4 DEF g, Goods
      <4>2. owned[<<who[t], what[t]>>] = 0
        BY <3>1, <3>2, <3>4 DEF NotYet
      <4>3. QED BY <1>1, <3>2, <4>1, <4>2
    <3>5. QED BY <3>3, <3>4
  <2>3. CASE Deliver(t)
    <3> DEFINE n == owned[<<who[t], what[t]>>]
               left == IF n = 0 THEN 0 ELSE n - 1
    <3>1. owned' = [owned EXCEPT ![<<who[t], what[t]>>] = left]
      BY <2>3 DEF Deliver
    <3>2. <<c, x>> = <<who[t], what[t]>>
      BY <1>1, <3>1
    <3>3. n \in Nat /\ owned'[<<c, x>>] = left
      BY <1>1, <3>1, <3>2
    <3>4. left <= n
      BY <3>3
    <3>5. QED BY <1>1, <3>2, <3>3, <3>4
  <2>4. QED BY <1>4, <2>1, <2>2, <2>3 DEF Step
<1>5. ASSUME NEW d \in Console, Terminate(d) PROVE FALSE
  BY <1>2, <1>5 DEF Terminate
<1>6. CASE UNCHANGED vars
  BY <1>2, <1>6 DEF vars
<1>7. QED BY <1>3, <1>4, <1>5, <1>6 DEF Next

LEMMA OwnedInit == Init => SerialInv /\ NotYet
<1>1. Init => NotYet
  BY DEF Init, NotYet
<1>2. QED BY <1>1, SerialInit

\* Nothing is sold to a console that has it (HasAlready of purcahse_title,
\* purcahse_ticket and purcahse_aoc), also after a purchase that died between
\* its statements and among the requests of other consoles: a second row of a
\* thing comes from redeem_title alone, which does not look for a first.
THEOREM OwnershipCorrect == Spec => SoldOnce
<1>1. SerialInv /\ NotYet /\ [Next]_vars => (SerialInv /\ NotYet)'
  BY SerialNext, OwnedNext
<1>2. SerialInv /\ NotYet /\ [Next]_vars
        => [\A c \in Console \ crowd, x \in Thing :
              (owned[<<c, x>>] > 0 /\ owned'[<<c, x>>] > owned[<<c, x>>]) =>
                \E t \in Thread : who[t] = c /\ op[t] = "code" /\ Goods(t) = x]_vars
  BY RowsAdded
<1>3. QED BY OwnedInit, <1>1, <1>2, PTL DEF Spec, SoldOnce

-----------------------------------------------------------------------------
(* The ledger of a console that does one thing at a time *)

\* In the middle of request t the ledger still has what t took.
LEMMA PurseOpen ==
  ASSUME SerialInv, NEW t \in Thread, pc[t] # "idle", who[t] \notin crowd
  PROVE  Purse(who[t]) = row[who[t]].balance + Due(pc[t], op[t], what[t])
<1> DEFINE open == {u \in Thread : Paid(u) /\ who[u] = who[t]}
<1>1. open \subseteq {t}
  BY DEF SerialInv, OneEach, Paid, At
<1>2. Pending(who[t]) = IF open = {} THEN 0 ELSE Price[what[CHOOSE u \in open : TRUE]]
  BY DEF Pending
<1>3. CASE Paid(t)
  <2>1. open = {t}
    BY <1>1, <1>3
  <2>2. (CHOOSE u \in open : TRUE) = t
    BY <2>1
  <2>3. Pending(who[t]) = Price[what[t]]
    BY <1>2, <2>1, <2>2
  <2>4. QED BY <1>3, <2>3 DEF Purse, Due, Paid, At
<1>4. CASE ~Paid(t)
  <2>1. open = {}
    BY <1>1, <1>4
  <2>2. Pending(who[t]) = 0
    BY <1>2, <2>1
  <2>3. QED BY <1>4, <2>2 DEF Purse, Due, Paid, At
<1>5. QED BY <1>3, <1>4

\* At rest the ledger has the balance of the row.
LEMMA PurseRest ==
  ASSUME NEW c \in Console, ~Busy(c)
  PROVE  Purse(c) = row[c].balance + 0
<1>1. {u \in Thread : Paid(u) /\ who[u] = c} = {}
  BY DEF Busy, Paid, At
<1>2. Pending(c) = 0
  BY <1>1 DEF Pending
<1>3. QED BY <1>2 DEF Purse

\* The ledger by the books.
LEMMA PurseBooks ==
  ASSUME SerialInv, NEW c \in Console, c \notin crowd
  PROVE  /\ Purse(c) \in Nat /\ spent[c] \in Nat /\ lost[c] \in Nat /\ credited[c] \in Nat
         /\ Purse(c) + spent[c] + lost[c] = Start + credited[c]
<1>1. row[c].balance \in Nat /\ spent[c] \in Nat /\ lost[c] \in Nat /\ credited[c] \in Nat
  BY RowFacts DEF SerialInv, ShopInv, TypeOK
<1>2. CASE ~Busy(c)
  BY <1>1, <1>2, PurseRest DEF SerialInv, BooksBalance
<1>3. CASE Busy(c)
  <2>1. PICK t \in Thread : pc[t] # "idle" /\ who[t] = c
    BY <1>3 DEF Busy
  <2>2. row[c].balance + spent[c] + lost[c] + Due(pc[t], op[t], what[t]) = Start + credited[c]
    BY <2>1 DEF SerialInv, OpenBooks
  <2>3. <<op[t], what[t]>> \in Handler
    BY <2>1, BooksTypes DEF SerialInv
  <2>4. Due(pc[t], op[t], what[t]) \in Nat
    BY <2>3, HandlerFacts DEF Due, SerialInv, ShopInv, StepsInv
  <2>5. Purse(c) = row[c].balance + Due(pc[t], op[t], what[t])
    BY <2>1, PurseOpen
  <2>6. QED BY <1>1, <2>2, <2>4, <2>5
<1>4. QED BY <1>2, <1>3

\* The same after a step.
LEMMA PurseBooksNext ==
  ASSUME SerialInv', NEW c \in Console, c \notin crowd'
  PROVE  /\ Purse(c)' \in Nat /\ spent'[c] \in Nat /\ lost'[c] \in Nat
         /\ credited'[c] \in Nat
         /\ Purse(c)' + spent'[c] + lost'[c] = Start + credited'[c]
<1>1. /\ row'[c].balance \in Nat /\ spent'[c] \in Nat /\ lost'[c] \in Nat
      /\ credited'[c] \in Nat
  BY RowFacts DEF SerialInv, ShopInv, TypeOK
<1>2. CASE ~Busy(c)'
  <2>1. {u \in Thread : pc'[u] = "granting" /\ op'[u] # "code" /\ who'[u] = c} = {}
    BY <1>2 DEF Busy
  <2>2. Purse(c)' = row'[c].balance + 0
    BY <2>1 DEF Purse, Pending, Paid, At
  <2>3. row'[c].balance + spent'[c] + lost'[c] = Start + credited'[c]
    BY <1>2 DEF SerialInv, BooksBalance
  <2>4. QED BY <1>1, <2>2, <2>3
<1>3. CASE Busy(c)'
  <2>1. PICK t \in Thread : pc'[t] # "idle" /\ who'[t] = c
    BY <1>3 DEF Busy
  <2> DEFINE open == {u \in Thread : pc'[u] = "granting" /\ op'[u] # "code" /\ who'[u] = c}
             due == IF pc'[t] = "granting" /\ op'[t] # "code" THEN Price[what'[t]] ELSE 0
  <2>2. row'[c].balance + spent'[c] + lost'[c] + due = Start + credited'[c]
    BY <2>1 DEF SerialInv, OpenBooks, Due
  <2>3. <<op'[t], what'[t]>> \in Handler
    BY <2>1 DEF SerialInv, ShopInv, TypeOK
  <2>4. pc'[t] = "granting" => op'[t] \in Purchase \cup {"code"}
    BY DEF SerialInv, ShopInv, StepsInv
  <2>5. due \in Nat
    BY <2>3, <2>4, HandlerFacts
  <2>6. open \subseteq {t}
    BY <2>1 DEF SerialInv, OneEach
  <2>7. Purse(c)' = row'[c].balance
                      + (IF open = {} THEN 0 ELSE Price[what'[CHOOSE u \in open : TRUE]])
    BY DEF Purse, Pending, Paid, At
  <2>8. Purse(c)' = row'[c].balance + due
    <3>1. CASE open = {}
      <4>1. due = 0
        BY <2>1, <3>1
      <4>2. QED BY <2>7, <3>1, <4>1
    <3>2. CASE open # {}
      <4>1. open = {t}
        BY <2>6, <3>2
      <4>2. (CHOOSE u \in open : TRUE) = t
        BY <4>1
      <4>3. t \in open
        BY <4>1
      <4>4. due = Price[what'[t]]
        BY <4>3
      <4>5. QED BY <2>7, <3>2, <4>2, <4>4
    <3>3. QED BY <3>1, <3>2
  <2>9. QED BY <1>1, <2>2, <2>5, <2>8
<1>4. QED BY <1>2, <1>3

\* The ledger of console c has balance v when its books say so.
LEMMA PurseEntry ==
  ASSUME SerialInv', NEW c \in Console, c \notin crowd', NEW v \in Nat,
         v + spent'[c] + lost'[c] = Start + credited'[c]
  PROVE  Purse(c)' = v
<1>1. /\ Purse(c)' \in Nat /\ spent'[c] \in Nat /\ lost'[c] \in Nat /\ credited'[c] \in Nat
      /\ Purse(c)' + spent'[c] + lost'[c] = Start + credited'[c]
  BY PurseBooksNext
<1> HIDE DEF Purse
<1>2. QED BY <1>1, ShopAssumption

\* A step that leaves the books of console c alone changes no balance in its
\* ledger.
LEMMA PurseSame ==
  ASSUME SerialInv, SerialInv', NEW c \in Console, c \notin crowd, c \notin crowd',
         spent'[c] = spent[c], lost'[c] = lost[c], credited'[c] = credited[c]
  PROVE  Purse(c)' = Purse(c)
<1>1. /\ Purse(c) \in Nat /\ spent[c] \in Nat /\ lost[c] \in Nat /\ credited[c] \in Nat
      /\ Purse(c) + spent[c] + lost[c] = Start + credited[c]
  BY PurseBooks
<1>2. Purse(c) + spent'[c] + lost'[c] = Start + credited'[c]
  BY <1>1
<1>3. QED BY <1>1, <1>2, PurseEntry

\* Nor does it see a step that leaves the goods of the console alone as well.
LEMMA LedgerStutter ==
  ASSUME SerialInv, SerialInv', NEW c \in Console, c \notin crowd, c \notin crowd',
         spent'[c] = spent[c], lost'[c] = lost[c], credited'[c] = credited[c],
         \A x \in Thing : owned'[<<c, x>>] = owned[<<c, x>>]
  PROVE  UNCHANGED Ledger(c)!vars
<1>1. Purse(c)' = Purse(c)
  BY PurseSame
<1>2. Shelf(c)' = Shelf(c)
  BY DEF Shelf
<1>3. QED BY <1>1, <1>2 DEF Ledger!vars

\* Grant enters a purchase, or what a code is for.
LEMMA LedgerGrant ==
  ASSUME SerialInv, SerialInv', NotYet, NEW c \in Console, c \notin crowd, c \notin crowd',
         NEW t \in Thread, Grant(t), who[t] = c
  PROVE  Ledger(c)!Next
<1>1. /\ pc[t] = "granting" /\ UNCHANGED <<row, lost, credited>>
      /\ owned' = [owned EXCEPT ![<<c, Goods(t)>>] = owned[<<c, Goods(t)>>] + 1]
      /\ spent' = [spent EXCEPT ![c] = @ + (IF op[t] = "code" THEN 0 ELSE Price[what[t]])]
  BY DEF Grant, At
<1>2. <<op[t], what[t]>> \in Handler
  BY <1>1, BooksTypes DEF SerialInv
<1>3. op[t] \in Purchase \cup {"code"}
  BY <1>1 DEF SerialInv, ShopInv, StepsInv
<1>4. spent \in [Console -> Nat]
  BY DEF SerialInv, ShopInv, TypeOK
<1>5. CASE op[t] = "code"
  <2> DEFINE g == Grants[what[t]]
  <2>1. what[t] \in CodeCard /\ g \in Thing /\ Goods(t) = g
    BY <1>2, <1>5, HandlerFacts DEF Handler, Goods
  <2>2. spent'[c] = spent[c] /\ lost'[c] = lost[c] /\ credited'[c] = credited[c]
    BY <1>1, <1>4, <1>5
  <2>3. Purse(c)' = Purse(c)
    BY <2>2, PurseSame
  <2>4. owned' = [owned EXCEPT ![<<c, g>>] = owned[<<c, g>>] + 1]
    BY <1>1, <2>1
  <2> HIDE DEF g
  <2>5. Shelf(c)' = [Shelf(c) EXCEPT ![g] = Shelf(c)[g] + 1]
    BY <2>1, <2>4, OwnedTypes DEF SerialInv, Shelf
  <2>6. Ledger(c)!Redeem(what[t])
    BY <2>3, <2>5 DEF Ledger!Redeem, g
  <2>7. QED BY <2>1, <2>6 DEF Ledger!Next
<1>6. CASE op[t] # "code"
  <2> DEFINE p == Price[what[t]]
  <2>1. op[t] \in Purchase /\ what[t] \in Thing /\ p \in Nat /\ Goods(t) = what[t]
    BY <1>2, <1>3, <1>6, HandlerFacts DEF Goods
  <2>2. Purse(c) = row[c].balance + p
    BY <1>1, <1>6, PurseOpen DEF Due
  <2>3. row[c].balance \in Nat
    BY <1>1, BooksTypes DEF SerialInv
  <2>4. spent'[c] = spent[c] + p
    BY <1>1, <1>4, <1>6
  <2>5. lost'[c] = lost[c] /\ credited'[c] = credited[c]
    BY <1>1
  <2>6. /\ spent[c] \in Nat /\ lost[c] \in Nat /\ credited[c] \in Nat
        /\ Purse(c) + spent[c] + lost[c] = Start + credited[c]
    BY PurseBooks
  <2>7. owned[<<c, what[t]>>] = 0
    BY <1>1, <1>6 DEF NotYet
  <2> HIDE DEF p
  <2>8. Purse(c) - p \in Nat /\ Purse(c) >= p
    BY <2>1, <2>2, <2>3
  <2>9. (Purse(c) - p) + (spent[c] + p) + lost[c] = Purse(c) + spent[c] + lost[c]
    BY <2>1, <2>2, <2>3, <2>6
  <2>10. (Purse(c) - p) + spent'[c] + lost'[c] = Start + credited'[c]
    BY <2>4, <2>5, <2>6, <2>9
  <2>11. Purse(c)' = Purse(c) - p
    BY <2>8, <2>10, PurseEntry
  <2>12. owned' = [owned EXCEPT ![<<c, what[t]>>] = 1]
    BY <1>1, <2>1, <2>7
  <2>13. Shelf(c)' = [Shelf(c) EXCEPT ![what[t]] = 1] /\ Shelf(c)[what[t]] = 0
    BY <2>1, <2>7, <2>12, OwnedTypes DEF SerialInv, Shelf
  <2>14. Ledger(c)!Buy(what[t])
    BY <2>8, <2>11, <2>13 DEF Ledger!Buy, p
  <2>15. QED BY <2>1, <2>14 DEF Ledger!Next, Thing
<1>7. QED BY <1>5, <1>6

\* Credit pays in a card.
LEMMA LedgerCredit ==
  ASSUME SerialInv, SerialInv', NEW c \in Console, c \notin crowd, c \notin crowd',
         NEW t \in Thread, Credit(t), who[t] = c
  PROVE  Ledger(c)!Next
<1> DEFINE w == Worth[what[t]]
<1>1. /\ pc[t] = "crediting" /\ snap[t].balance + w <= MaxBalance
      /\ credited' = [credited EXCEPT ![c] = @ + w]
      /\ UNCHANGED <<owned, spent, lost>>
  BY DEF Credit, Fits, At
<1>2. /\ <<op[t], what[t]>> \in Handler
      /\ row[c].balance \in Nat /\ snap[t].balance \in Nat
  BY <1>1, BooksTypes DEF SerialInv
<1>3. op[t] \in {"prepaid", "web"}
  BY <1>1 DEF SerialInv, ShopInv, StepsInv
<1>4. what[t] \in MoneyCard /\ w \in Nat
  BY <1>2, <1>3, HandlerFacts
<1>5. Purse(c) = row[c].balance
  <2>1. Purse(c) = row[c].balance + 0
    BY <1>1, PurseOpen DEF Due
  <2>2. QED BY <1>2, <2>1
<1>6. snap[t].balance = row[c].balance
  BY <1>1 DEF SerialInv, Fresh, WillSave
<1>7. Purse(c) + w <= MaxBalance
  BY <1>1, <1>5, <1>6
<1>8. credited'[c] = credited[c] + w
  <2>1. credited \in [Console -> Nat]
    BY DEF SerialInv, ShopInv, TypeOK
  <2>2. QED BY <1>1, <2>1
<1>9. spent'[c] = spent[c] /\ lost'[c] = lost[c]
  BY <1>1
<1>10. /\ Purse(c) \in Nat /\ spent[c] \in Nat /\ lost[c] \in Nat /\ credited[c] \in Nat
       /\ Purse(c) + spent[c] + lost[c] = Start + credited[c]
  BY PurseBooks
<1>11. Purse(c)' = Purse(c) + w
  <2> HIDE DEF w
  <2>1. Purse(c) + w \in Nat
    BY <1>4, <1>10
  <2>2. (Purse(c) + w) + spent[c] + lost[c] = (Purse(c) + spent[c] + lost[c]) + w
    BY <1>4, <1>10
  <2>3. (Purse(c) + w) + spent'[c] + lost'[c] = Start + credited'[c]
    BY <1>4, <1>8, <1>9, <1>10, <2>2, ShopAssumption
  <2>4. QED BY <2>1, <2>3, PurseEntry
<1>12. Shelf(c)' = Shelf(c)
  BY <1>1 DEF Shelf
<1>13. Ledger(c)!PayIn(what[t])
  BY <1>7, <1>11, <1>12 DEF Ledger!PayIn
<1>14. QED BY <1>4, <1>13 DEF Ledger!Next

\* Deliver collects a ticket, if it is still there.
LEMMA LedgerDeliver ==
  ASSUME SerialInv, SerialInv', NEW c \in Console, c \notin crowd, c \notin crowd',
         NEW t \in Thread, Deliver(t), who[t] = c
  PROVE  Ledger(c)!Next \/ UNCHANGED Ledger(c)!vars
<1> DEFINE i == what[t]
           n == owned[<<c, i>>]
<1>1. /\ pc[t] = "delivering" /\ UNCHANGED <<spent, lost, credited>>
      /\ owned' = [owned EXCEPT ![<<c, i>>] = IF n = 0 THEN 0 ELSE n - 1]
  BY DEF Deliver, At, books
<1>2. <<op[t], i>> \in Handler /\ op[t] = "deliver"
  BY <1>1, BooksTypes DEF SerialInv, ShopInv, StepsInv
<1>3. i \in Item /\ i \in Thing
  BY <1>2 DEF Handler, Thing
<1>4. n \in Nat
  BY <1>3, OwnedTypes DEF SerialInv
<1>5. Purse(c)' = Purse(c)
  <2>1. spent'[c] = spent[c] /\ lost'[c] = lost[c] /\ credited'[c] = credited[c]
    BY <1>1
  <2>2. QED BY <2>1, PurseSame
<1>6. Shelf(c)' = [Shelf(c) EXCEPT ![i] = IF n = 0 THEN 0 ELSE n - 1] /\ Shelf(c)[i] = n
  <2> HIDE DEF i
  <2>1. QED BY <1>1, <1>3, OwnedTypes DEF SerialInv, Shelf
<1> HIDE DEF i, n
<1>7. CASE n = 0
  <2>1. Shelf(c)' = Shelf(c)
    BY <1>3, <1>6, <1>7 DEF Shelf
  <2>2. QED BY <1>5, <2>1 DEF Ledger!vars
<1>8. CASE n # 0
  <2>1. Shelf(c)' = [Shelf(c) EXCEPT ![i] = Shelf(c)[i] - 1] /\ Shelf(c)[i] > 0
    BY <1>4, <1>6, <1>8
  <2>2. Ledger(c)!Collect(i)
    BY <1>5, <2>1 DEF Ledger!Collect
  <2>3. QED BY <1>3, <2>2 DEF Ledger!Next
<1>9. QED BY <1>7, <1>8

\* A request that dies loses what it took, or nothing.
LEMMA LedgerDie ==
  ASSUME SerialInv, SerialInv', NEW c \in Console, c \notin crowd, c \notin crowd',
         NEW t \in Thread, Die(t), who[t] = c
  PROVE  Ledger(c)!Next \/ UNCHANGED Ledger(c)!vars
<1>1. /\ Crash /\ pc[t] # "idle" /\ UNCHANGED <<row, owned, spent, credited>>
      /\ lost' = IF Paid(t) THEN [lost EXCEPT ![c] = @ + Price[what[t]]] ELSE lost
  BY DEF Die, At
<1>2. CASE ~Paid(t)
  <2>1. spent'[c] = spent[c] /\ lost'[c] = lost[c] /\ credited'[c] = credited[c]
    BY <1>1, <1>2
  <2>2. \A x \in Thing : owned'[<<c, x>>] = owned[<<c, x>>]
    BY <1>1
  <2>3. QED BY <2>1, <2>2, LedgerStutter
<1>3. CASE Paid(t)
  <2> DEFINE p == Price[what[t]]
  <2>1. pc[t] = "granting" /\ op[t] # "code" /\ op[t] \in Purchase
    BY <1>3 DEF Paid, At, SerialInv, ShopInv, StepsInv
  <2>2. <<op[t], what[t]>> \in Handler /\ row[c].balance \in Nat
    BY <1>1, BooksTypes DEF SerialInv
  <2>3. what[t] \in Thing /\ p \in Nat
    BY <2>1, <2>2, HandlerFacts
  <2>4. Purse(c) = row[c].balance + p
    BY <1>1, <2>1, PurseOpen DEF Due
  <2>5. lost'[c] = lost[c] + p
    <3>1. lost \in [Console -> Nat]
      BY DEF SerialInv, ShopInv, TypeOK
    <3>2. QED BY <1>1, <1>3, <3>1
  <2>6. spent'[c] = spent[c] /\ credited'[c] = credited[c]
    BY <1>1
  <2>7. /\ spent[c] \in Nat /\ lost[c] \in Nat /\ credited[c] \in Nat /\ Purse(c) \in Nat
        /\ Purse(c) + spent[c] + lost[c] = Start + credited[c]
    BY PurseBooks
  <2> HIDE DEF p
  <2>8. Purse(c) - p \in Nat /\ Purse(c) >= p
    BY <2>2, <2>3, <2>4
  <2>9. (Purse(c) - p) + spent[c] + (lost[c] + p) = Purse(c) + spent[c] + lost[c]
    BY <2>3, <2>8, <2>7
  <2>10. (Purse(c) - p) + spent'[c] + lost'[c] = Start + credited'[c]
    BY <2>5, <2>6, <2>7, <2>9
  <2>11. Purse(c)' = Purse(c) - p
    BY <2>8, <2>10, PurseEntry
  <2>12. Shelf(c)' = Shelf(c)
    BY <1>1 DEF Shelf
  <2>13. Ledger(c)!Lose(what[t])
    BY <1>1, <2>8, <2>11, <2>12 DEF Ledger!Lose, p
  <2>14. QED BY <2>3, <2>13 DEF Ledger!Next, Thing
<1>4. QED BY <1>2, <1>3

LEMMA LedgerNext ==
  ASSUME SerialInv, SerialInv', NotYet, NEW c \in Console, c \notin crowd, c \notin crowd',
         [Next]_vars
  PROVE  Ledger(c)!Next \/ UNCHANGED Ledger(c)!vars
<1>1. ASSUME UNCHANGED <<owned, spent, lost, credited>> PROVE UNCHANGED Ledger(c)!vars
  <2>1. spent'[c] = spent[c] /\ lost'[c] = lost[c] /\ credited'[c] = credited[c]
    BY <1>1
  <2>2. \A x \in Thing : owned'[<<c, x>>] = owned[<<c, x>>]
    BY <1>1
  <2>3. QED BY <2>1, <2>2, LedgerStutter
<1>2. ASSUME NEW t \in Thread, NEW d \in Console, NEW h \in Handler, Begin(t, d, h)
      PROVE  UNCHANGED Ledger(c)!vars
  BY <1>1, <1>2 DEF Begin
<1>3. ASSUME NEW t \in Thread, Step(t)
      PROVE  Ledger(c)!Next \/ UNCHANGED Ledger(c)!vars
  <2>1. CASE \/ Check(t) \/ Pay(t) \/ ReadCard(t) \/ MarkCard(t) \/ CreditFails(t)
             \/ FindTicket(t) \/ Certify(t)
    BY <1>1, <2>1 DEF Check, Pay, ReadCard, MarkCard, CreditFails, FindTicket, Certify, books
  <2>2. CASE who[t] # c
    BY <1>3, <2>2, OthersAlone, LedgerStutter DEF SerialInv
  <2>3. CASE (Grant(t) \/ Credit(t)) /\ who[t] = c
    BY <2>3, LedgerGrant, LedgerCredit
  <2>4. CASE (Deliver(t) \/ Die(t)) /\ who[t] = c
    BY <2>4, LedgerDeliver, LedgerDie
  <2>5. QED BY <1>3, <2>1, <2>2, <2>3, <2>4 DEF Step
<1>4. ASSUME NEW d \in Console, Terminate(d) PROVE UNCHANGED Ledger(c)!vars
  BY <1>1, <1>4 DEF Terminate, books
<1>5. CASE UNCHANGED vars
  BY <1>1, <1>5 DEF vars, books
<1>6. QED BY <1>2, <1>3, <1>4, <1>5 DEF Next

LEMMA CrowdGrows ==
  ASSUME [Next]_vars PROVE crowd \subseteq crowd'
<1>1. ASSUME NEW t \in Thread, Step(t) PROVE crowd' = crowd
  BY <1>1 DEF Step, Check, Pay, Grant, ReadCard, MarkCard, Credit, CreditFails, FindTicket,
              Certify, Deliver, Die, books
<1>2. QED BY <1>1 DEF Next, Begin, Terminate, vars, books

LEMMA LedgerInit ==
  ASSUME Init, NEW c \in Console PROVE Ledger(c)!Init
<1>1. ~Busy(c) /\ row[c].balance = Start
  BY NewRowFacts DEF Init, Busy
<1>2. Purse(c) = Start
  BY <1>1, PurseRest, ShopAssumption
<1>3. Shelf(c) = [x \in Title \cup Item |-> 0]
  BY DEF Init, Shelf, Thing
<1>4. QED BY <1>2, <1>3 DEF Ledger!Init

\* As long as a console does one thing at a time, whatever others do meanwhile,
\* the statements of each of its requests (a read of the row, a save of the row,
\* a new ticket) amount to at most one entry of its ledger, made when the goods
\* are there: as far as its balance and goods go, its purchases are atomic
\* although no transaction makes them so.
THEOREM ImplementsLedger == Spec => LedgerSpec
<1>1. SerialInv /\ NotYet /\ [Next]_vars => (SerialInv /\ NotYet)'
  BY SerialNext, OwnedNext
<1>2. Init => \A c \in Console : Ledger(c)!Init
  BY LedgerInit
<1>3. SerialInv /\ SerialInv' /\ NotYet /\ [Next]_vars
        => [\A c \in Console \ crowd' : [Ledger(c)!Next]_(Ledger(c)!vars)]_vars
  <2> SUFFICES ASSUME SerialInv, SerialInv', NotYet, [Next]_vars, NEW c \in Console,
                      c \notin crowd'
               PROVE  Ledger(c)!Next \/ UNCHANGED Ledger(c)!vars
    OBVIOUS
  <2>1. c \notin crowd
    BY CrowdGrows
  <2>2. QED BY <2>1, LedgerNext
<1>4. QED BY OwnedInit, <1>1, <1>2, <1>3, PTL DEF Spec, LedgerSpec
=============================================================================
