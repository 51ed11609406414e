---------------------------- MODULE Moderation_proofs ----------------------------
(***************************************************************************)
(* Proofs about Moderation, for any players, devices, bans and staff: a    *)
(* banned account is off and an account without a ban is on, except where  *)
(* the staff, a job that died or jobs that overlapped left it so.          *)
(***************************************************************************)
EXTENDS Moderation, TLAPS

Row == [pid : Account \cup {NoPid}, device : Device \cup {NoDevice},
        timed : BOOLEAN, active : BOOLEAN]

Excuses == SUBSET {"on", "off"}

-----------------------------------------------------------------------------
(* Type correctness *)

LEMMA NewBanFacts ==
  ASSUME NEW p \in Account \cup {NoPid}, NEW d \in Device \cup {NoDevice}, NEW t \in BOOLEAN
  PROVE  /\ NewBan(p, d, t) \in Row
         /\ NewBan(p, d, t).active /\ NewBan(p, d, t).pid = p
BY DEF NewBan, Row

LEMMA NoBanFacts == NoBan \in Row /\ ~NoBan.active
BY DEF NoBan, Row

LEMMA RowFacts ==
  ASSUME NEW r \in Row, NEW v \in BOOLEAN
  PROVE  /\ [r EXCEPT !.active = v] \in Row
         /\ [r EXCEPT !.active = v].active = v
         /\ [r EXCEPT !.active = v].pid = r.pid
         /\ r.active \in BOOLEAN /\ r.pid \in Account \cup {NoPid}
BY DEF Row

\* Excuses keep their type, and change as they are told for one account.
LEMMA ExcuseAllFacts ==
  ASSUME excuse \in [Account -> Excuses], NEW ps, NEW in \in Excuses, NEW out,
         ExcuseAll(ps, in, out)
  PROVE  /\ excuse' \in [Account -> Excuses]
         /\ \A q \in Account : q \in ps => excuse'[q] = (excuse[q] \cup in) \ out
         /\ \A q \in Account : q \notin ps => excuse'[q] = excuse[q]
<1>1. \A q \in Account : excuse[q] \in Excuses
  OBVIOUS
<1>2. \A q \in Account : (excuse[q] \cup in) \ out \in Excuses
  BY <1>1 DEF Excuses
<1>3. excuse' = [q \in Account |-> IF q \in ps THEN (excuse[q] \cup in) \ out ELSE excuse[q]]
  BY DEF ExcuseAll
<1>4. excuse' \in [Account -> Excuses]
  BY <1>1, <1>2, <1>3
<1>5. QED BY <1>3, <1>4

LEMMA ExcuseFacts ==
  ASSUME excuse \in [Account -> Excuses], NEW p, NEW in \in Excuses, NEW out,
         Excuse(p, in, out)
  PROVE  /\ excuse' \in [Account -> Excuses]
         /\ p \in Account => excuse'[p] = (excuse[p] \cup in) \ out
         /\ \A q \in Account : q # p => excuse'[q] = excuse[q]
<1>1. ExcuseAll({p}, in, out)
  BY DEF Excuse
<1>2. /\ excuse' \in [Account -> Excuses]
      /\ \A q \in Account : q \in {p} => excuse'[q] = (excuse[q] \cup in) \ out
      /\ \A q \in Account : q \notin {p} => excuse'[q] = excuse[q]
  BY <1>1, ExcuseAllFacts
<1>3. QED BY <1>2

LEMMA ExcuseSets ==
  /\ {} \in Excuses /\ {"on"} \in Excuses /\ {"off"} \in Excuses /\ {"on", "off"} \in Excuses
  /\ \A v \in BOOLEAN : {IF v THEN "on" ELSE "off"} \in Excuses
BY DEF Excuses

\* The rows and the pages, apart from the rest.
RowType == row \in [Ban -> Row]
JobType ==
  /\ pc \in [Staff -> Statement]
  /\ who \in [Staff -> Account \cup {NoPid}]
  /\ \A s \in Staff : who[s] = NoPid => pc[s] \in {"idle", "raw", "ban"}
  /\ left \in [Staff -> SUBSET (Device \cup {NoDevice})]
  /\ page \in [Staff -> SUBSET Ban]
  /\ seen \in [Staff -> BOOLEAN]
  /\ crowd \subseteq Staff

LEMMA TypeParts ==
  TypeOK <=> /\ flag \in [Account -> BOOLEAN] /\ RowType /\ JobType
             /\ excuse \in [Account -> Excuses]
BY DEF TypeOK, RowType, JobType, Row, Excuses

\* What each way of going on does to the jobs.
LEMMA BeginType ==
  ASSUME TypeOK, NEW s \in Staff, NEW step \in Statement, step # "idle",
         NEW p \in Account \cup {NoPid}, p = NoPid => step \in {"raw", "ban"},
         NEW ids \in SUBSET (Device \cup {NoDevice}), NEW bs \in SUBSET Ban, NEW v \in BOOLEAN,
         Begin(s, step, p, ids, bs, v)
  PROVE  TypeOK'
<1>1. /\ pc[s] = "idle" /\ flag' = flag /\ row' = row
      /\ pc' = [pc EXCEPT ![s] = step] /\ who' = [who EXCEPT ![s] = p]
      /\ left' = [left EXCEPT ![s] = ids]
      /\ page' = [page EXCEPT ![s] = bs] /\ seen' = [seen EXCEPT ![s] = v]
  BY DEF Begin, At
<1>2. crowd' \subseteq Staff
  BY DEF Begin, Jobs, TypeOK
<1>3. excuse' \in [Account -> Excuses]
  <2>1. CASE Busy(p)
    BY <2>1, ExcuseFacts, ExcuseSets, TypeParts DEF Begin
  <2>2. CASE ~Busy(p)
    BY <2>2, TypeParts DEF Begin
  <2>3. QED BY <2>1, <2>2
<1>4. JobType'
  BY <1>1, <1>2, TypeParts DEF JobType
<1>5. QED BY <1>1, <1>3, <1>4, TypeParts DEF RowType, TypeOK, Row, Excuses, JobType

LEMMA EndType ==
  ASSUME JobType, NEW s \in Staff, End(s)
  PROVE  /\ JobType'
         /\ pc' = [pc EXCEPT ![s] = "idle"] /\ who' = [who EXCEPT ![s] = NoPid]
         /\ page' = [page EXCEPT ![s] = {}] /\ seen' = [seen EXCEPT ![s] = FALSE]
         /\ crowd' = crowd \ {s}
<1>1. "idle" \in Statement
  BY DEF Statement
<1>2. QED BY <1>1 DEF End, JobType

LEMMA GotoType ==
  ASSUME JobType, NEW s \in Staff, NEW step \in Statement, who[s] # NoPid, Goto(s, step)
  PROVE  /\ JobType'
         /\ pc' = [pc EXCEPT ![s] = step]
         /\ UNCHANGED <<who, page, seen, crowd>>
BY DEF Goto, JobType

-----------------------------------------------------------------------------
(* What the statements do to the bans *)

LEMMA LiftFacts ==
  ASSUME RowType, NEW bs, Lift(bs)
  PROVE  /\ RowType'
         /\ \A b \in Ban : row'[b].pid = row[b].pid
         /\ \A b \in Ban : row'[b].active = (row[b].active /\ b \notin bs)
         /\ \A q : Active(q)' = Active(q) \ bs
<1>1. row' = [b \in Ban |-> [row[b] EXCEPT !.active = row[b].active /\ b \notin bs]]
  BY DEF Lift
<1>2. \A b \in Ban : row[b] \in Row
  BY DEF RowType
<1>3. \A b \in Ban : (row[b].active /\ b \notin bs) \in BOOLEAN
  OBVIOUS
<1>4. \A b \in Ban : /\ row'[b] \in Row /\ row'[b].pid = row[b].pid
                     /\ row'[b].active = (row[b].active /\ b \notin bs)
  BY <1>1, <1>2, <1>3, RowFacts
<1>5. RowType'
  BY <1>1, <1>4 DEF RowType
<1>6. \A q : Active(q)' = Active(q) \ bs
  BY <1>4 DEF Active
<1>7. QED BY <1>4, <1>5, <1>6

\* A new ban of p takes a row that is not active, and whose page is not open.
LEMMA CreateFacts ==
  ASSUME RowType, NEW p \in Account \cup {NoPid}, NEW d \in Device \cup {NoDevice},
         NEW t \in BOOLEAN, NEW b \in Spare, row' = [row EXCEPT ![b] = NewBan(p, d, t)]
  PROVE  /\ RowType'
         /\ \A s \in Staff : \A c \in page[s] \cap Ban : row'[c] = row[c]
         /\ Active(p)' # {}
         /\ \A q : q # p => Active(q)' = Active(q)
<1>1. b \in Ban /\ ~row[b].active /\ \A s \in Staff : b \notin page[s]
  BY DEF Spare
<1>2. NewBan(p, d, t) \in Row /\ NewBan(p, d, t).active /\ NewBan(p, d, t).pid = p
  BY NewBanFacts
<1>3. RowType' /\ row'[b] = NewBan(p, d, t) /\ \A c \in Ban : c # b => row'[c] = row[c]
  BY <1>1, <1>2 DEF RowType
<1>4. b \in Active(p)'
  BY <1>1, <1>2, <1>3 DEF Active
<1>5. \A q : q # p => Active(q)' = Active(q)
  BY <1>1, <1>2, <1>3 DEF Active
<1>6. \A s \in Staff : \A c \in page[s] \cap Ban : row'[c] = row[c]
  BY <1>1, <1>3
<1>7. QED BY <1>3, <1>4, <1>5, <1>6

\* The same of all the bans that the page for new bans makes at once.
LEMMA CreateAllFacts ==
  ASSUME RowType, NEW p \in Account, NEW ids \in SUBSET (Device \cup {NoDevice}), ids # {},
         NEW new \in [ids -> Spare], NEW t \in [ids -> BOOLEAN],
         row' = WithBans(p, ids, new, t)
  PROVE  /\ RowType'
         /\ \A s \in Staff : \A c \in page[s] \cap Ban : row'[c] = row[c]
         /\ Active(p)' # {}
         /\ \A q : q # p => Active(q)' = Active(q)
<1> DEFINE made == {b \in Ban : \E d \in ids : new[d] = b}
<1>1. \A b \in made : ~row[b].active /\ \A s \in Staff : b \notin page[s]
  BY DEF Spare
<1>2. \A b \in made : row'[b] \in Row /\ row'[b].active /\ row'[b].pid = p
  <2>1. SUFFICES ASSUME NEW b \in made
                 PROVE  row'[b] \in Row /\ row'[b].active /\ row'[b].pid = p
    OBVIOUS
  <2>2. PICK d : d = CHOOSE e \in ids : new[e] = b
    OBVIOUS
  <2>3. d \in ids
    BY <2>2
  <2>4. row'[b] = NewBan(p, d, t[d])
    BY <2>2 DEF WithBans
  <2>5. d \in Device \cup {NoDevice} /\ t[d] \in BOOLEAN
    BY <2>3
  <2>6. /\ NewBan(p, d, t[d]) \in Row
        /\ NewBan(p, d, t[d]).active /\ NewBan(p, d, t[d]).pid = p
    BY <2>5, NewBanFacts
  <2>7. QED BY <2>4, <2>6
<1>3. \A b \in Ban \ made : row'[b] = row[b]
  BY DEF WithBans
<1>4. RowType'
  BY <1>2, <1>3 DEF RowType, WithBans
<1>5. made # {}
  <2>1. PICK d \in ids : TRUE
    OBVIOUS
  <2>2. new[d] \in Ban
    BY DEF Spare
  <2>3. QED BY <2>1, <2>2
<1>6. Active(p)' # {}
  BY <1>2, <1>5 DEF Active
<1>7. \A q : q # p => Active(q)' = Active(q)
  BY <1>1, <1>2, <1>3 DEF Active
<1>8. \A s \in Staff : \A c \in page[s] \cap Ban : row'[c] = row[c]
  BY <1>1, <1>3
<1>9. QED BY <1>4, <1>6, <1>7, <1>8

\* The page of one ban.
LEMMA SaveBanFacts ==
  ASSUME RowType, NEW b \in Ban, NEW v \in BOOLEAN, row' = [row EXCEPT ![b].active = v],
         NEW p, p = row[b].pid
  PROVE  /\ RowType'
         /\ \A c \in Ban : row'[c].pid = row[c].pid
         /\ \A q : q # p => Active(q)' = Active(q)
         /\ ~v => Active(p)' \subseteq Active(p)
         /\ v => Active(p)' # {}
         /\ v = row[b].active => \A q : Active(q)' = Active(q)
<1>1. \A c \in Ban : row[c] \in Row
  BY DEF RowType
<1>2. row' = [row EXCEPT ![b] = [row[b] EXCEPT !.active = v]]
  OBVIOUS
<1>3. \A c \in Ban : c # b => row'[c] = row[c]
  BY <1>2 DEF RowType
<1>4. row'[b] \in Row /\ row'[b].active = v /\ row'[b].pid = p
  BY <1>1, <1>2, RowFacts DEF RowType
<1>5. RowType'
  BY <1>2, <1>3, <1>4 DEF RowType
<1>6. \A c \in Ban : row'[c].pid = row[c].pid
  BY <1>3, <1>4
<1>7. \A q : q # p => Active(q)' = Active(q)
  BY <1>3, <1>4 DEF Active
<1>8. ~v => Active(p)' \subseteq Active(p)
  BY <1>3, <1>4 DEF Active
<1>9. v => b \in Active(p)'
  BY <1>4 DEF Active
<1>10. v = row[b].active => \A q : Active(q)' = Active(q)
  BY <1>3, <1>4 DEF Active
<1>11. QED BY <1>5, <1>6, <1>7, <1>8, <1>9, <1>10

-----------------------------------------------------------------------------
(* The invariant *)

Banning == {"creating", "deactivating"}
Lifting == {"checking", "activating"}

OnOK(q) == Active(q) # {} /\ flag[q] => "on" \in excuse[q]
OffOK(q) == Active(q) = {} /\ ~flag[q] => "off" \in excuse[q]

\* An account is as it should be, or a job is about to make it so.
AccountInv(q) ==
  /\ OnOK(q) \/ \E s \in Staff : pc[s] \in Banning /\ who[s] = q
  /\ OffOK(q) \/ \E s \in Staff : pc[s] \in Lifting /\ who[s] = q

\* What a job that is alone can rely on.
JobInv(s) ==
  s \notin crowd /\ who[s] \in Account =>
    /\ pc[s] = "deactivating" => Active(who[s]) # {} \/ "off" \in excuse[who[s]]
    /\ pc[s] \in Lifting => Active(who[s]) = {}
    /\ pc[s] = "saving" => seen[s] = flag[who[s]]

\* Jobs that overlapped excuse their account as long as one of them goes on.
CrowdInv ==
  /\ \A s \in Staff : pc[s] = "idle" => who[s] = NoPid
  /\ \A s \in crowd : pc[s] # "idle" /\ (who[s] \in Account => {"on", "off"} \subseteq excuse[who[s]])
  /\ \A s, t \in Staff :
       s # t /\ pc[s] # "idle" /\ pc[t] # "idle" /\ who[s] = who[t] => s \in crowd

\* The page of a ban is open as long as its job goes on.
PageInv == \A s \in Staff : \A b \in page[s] : pc[s] = "ban" /\ row[b].pid = who[s]

StaffInv ==
  /\ TypeOK /\ CrowdInv /\ PageInv
  /\ \A q \in Account : AccountInv(q)
  /\ \A s \in Staff : JobInv(s)

LEMMA StaffInit == Init => StaffInv
<1> SUFFICES ASSUME Init PROVE StaffInv
  OBVIOUS
<1>1. TypeOK
  <2>1. JobType
    BY DEF Init, JobType, Statement
  <2>2. RowType /\ flag \in [Account -> BOOLEAN] /\ excuse \in [Account -> Excuses]
    BY NoBanFacts DEF Init, RowType, Excuses
  <2>3. QED BY <2>1, <2>2, TypeParts
<1>2. CrowdInv /\ PageInv
  BY DEF Init, CrowdInv, PageInv
<1>3. \A q : Active(q) = {}
  BY NoBanFacts DEF Init, Active
<1>4. \A q \in Account : AccountInv(q)
  BY <1>3 DEF Init, AccountInv, OnOK, OffOK
<1>5. \A s \in Staff : JobInv(s)
  BY <1>3 DEF Init, JobInv, Lifting
<1>6. QED BY <1>1, <1>2, <1>4, <1>5 DEF StaffInv

\* What the jobs begin with.
Beginning(step, p, bs, v) ==
  /\ step \in {"creating", "raw", "lifting", "saving", "ban"}
  /\ p = NoPid => step \in {"raw", "ban"}
  /\ step = "saving" => v = flag[p]
  /\ \A b \in bs : step = "ban" /\ row[b].pid = p

\* A job begins.
LEMMA BeginKeeps ==
  ASSUME StaffInv, NEW s \in Staff, NEW step, NEW p \in Account \cup {NoPid},
         NEW ids \in SUBSET (Device \cup {NoDevice}), NEW bs \in SUBSET Ban, NEW v \in BOOLEAN,
         Begin(s, step, p, ids, bs, v), Beginning(step, p, bs, v)
  PROVE  StaffInv'
<1>1. /\ step \in Statement /\ step # "idle"
      /\ p = NoPid => step \in {"raw", "ban"}
  BY DEF Statement, Beginning
<1>12. /\ step = "saving" => v = flag[p]
       /\ step \notin Lifting \cup {"deactivating"}
       /\ \A b \in bs : step = "ban" /\ row[b].pid = p
  BY DEF Beginning, Lifting
<1>2. TypeOK
  BY DEF StaffInv
<1>3. /\ TypeOK'
      /\ pc[s] = "idle" /\ flag' = flag /\ row' = row
      /\ pc' = [pc EXCEPT ![s] = step] /\ who' = [who EXCEPT ![s] = p]
      /\ page' = [page EXCEPT ![s] = bs] /\ seen' = [seen EXCEPT ![s] = v]
  <2>1. TypeOK'
    BY <1>1, <1>2, BeginType
  <2>2. QED BY <2>1 DEF Begin, At
<1>4. /\ pc'[s] = step /\ who'[s] = p /\ page'[s] = bs /\ seen'[s] = v
      /\ \A t \in Staff : t # s => /\ pc'[t] = pc[t] /\ who'[t] = who[t]
                                   /\ page'[t] = page[t] /\ seen'[t] = seen[t]
  BY <1>2, <1>3 DEF TypeOK
<1>5. \A q : Active(q)' = Active(q)
  BY <1>3 DEF Active
<1>6. /\ \A q \in Account : excuse[q] \subseteq excuse'[q]
      /\ crowd \subseteq crowd'
      /\ Busy(p) /\ p \in Account => {"on", "off"} \subseteq excuse'[p]
      /\ Busy(p) => crowd' = crowd \cup {s} \cup Jobs(p)
      /\ ~Busy(p) => crowd' = crowd /\ excuse' = excuse
      /\ \A q \in Account : q # p => excuse'[q] = excuse[q]
  <2>1. CASE Busy(p)
    <3>1. crowd' = crowd \cup {s} \cup Jobs(p) /\ Excuse(p, {"on", "off"}, {})
      BY <2>1 DEF Begin
    <3>2. excuse \in [Account -> Excuses] /\ {"on", "off"} \in Excuses
      BY <1>2, TypeParts, ExcuseSets
    <3>3. /\ p \in Account => excuse'[p] = (excuse[p] \cup {"on", "off"}) \ {}
          /\ \A q \in Account : q # p => excuse'[q] = excuse[q]
      BY <3>1, <3>2, ExcuseFacts
    <3>4. QED BY <2>1, <3>1, <3>3
  <2>2. CASE ~Busy(p)
    BY <2>2 DEF Begin
  <2>3. QED BY <2>1, <2>2
<1>7. CrowdInv'
  <2>1. \A t \in Staff : pc'[t] = "idle" => who'[t] = NoPid
    BY <1>1, <1>4 DEF StaffInv, CrowdInv
  <2>2. \A t \in crowd' : t \in Staff
    BY <1>3, TypeParts DEF TypeOK
  <2>3. \A t \in crowd' : pc'[t] # "idle" /\ (who'[t] \in Account => {"on", "off"} \subseteq excuse'[who'[t]])
    <3>1. SUFFICES ASSUME NEW t \in crowd'
                   PROVE  pc'[t] # "idle" /\ (who'[t] \in Account => {"on", "off"} \subseteq excuse'[who'[t]])
      OBVIOUS
    <3>2. CASE t \in crowd
      <4>1. pc[t] # "idle" /\ (who[t] \in Account => {"on", "off"} \subseteq excuse[who[t]])
        BY <3>2 DEF StaffInv, CrowdInv
      <4>2. t # s /\ t \in Staff
        BY <4>1, <1>3, <2>2
      <4>3. QED BY <4>1, <4>2, <1>4, <1>6
    <3>3. CASE t \notin crowd
      <4>1. Busy(p) /\ (t = s \/ t \in Jobs(p))
        BY <3>3, <1>6
      <4>2. pc'[t] # "idle" /\ who'[t] = p
        BY <4>1, <1>1, <1>3, <1>4 DEF Jobs
      <4>3. QED BY <4>1, <4>2, <1>6
    <3>4. QED BY <3>2, <3>3
  <2>4. \A t, u \in Staff :
          t # u /\ pc'[t] # "idle" /\ pc'[u] # "idle" /\ who'[t] = who'[u] => t \in crowd'
    <3>1. SUFFICES ASSUME NEW t \in Staff, NEW u \in Staff,
                          t # u, pc'[t] # "idle", pc'[u] # "idle", who'[t] = who'[u]
                   PROVE  t \in crowd'
      OBVIOUS
    <3>2. CASE t # s /\ u # s
      BY <3>1, <3>2, <1>4, <1>6 DEF StaffInv, CrowdInv
    <3>3. CASE t = s
      <4>1. u \in Jobs(p)
        BY <3>1, <3>3, <1>4 DEF Jobs
      <4>2. QED BY <4>1, <3>3, <1>6 DEF Busy
    <3>4. CASE u = s
      <4>1. t \in Jobs(p)
        BY <3>1, <3>4, <1>4 DEF Jobs
      <4>2. QED BY <4>1, <1>6 DEF Busy
    <3>5. QED BY <3>2, <3>3, <3>4
  <2>5. QED BY <2>1, <2>3, <2>4 DEF CrowdInv
<1>8. PageInv'
  BY <1>3, <1>4, <1>12 DEF StaffInv, PageInv
<1>9. \A q \in Account : AccountInv(q)'
  <2>1. SUFFICES ASSUME NEW q \in Account PROVE AccountInv(q)'
    OBVIOUS
  <2>2. AccountInv(q)
    BY DEF StaffInv
  <2>3. \A t \in Staff : pc[t] \in Banning \cup Lifting => pc'[t] = pc[t] /\ who'[t] = who[t]
    BY <1>3, <1>4 DEF Banning, Lifting
  <2>4. (OnOK(q) => OnOK(q)') /\ (OffOK(q) => OffOK(q)')
    BY <1>3, <1>5, <1>6 DEF OnOK, OffOK
  <2>5. QED BY <2>2, <2>3, <2>4 DEF AccountInv
<1>10. \A t \in Staff : JobInv(t)'
  <2>1. SUFFICES ASSUME NEW t \in Staff, t \notin crowd', who'[t] \in Account PROVE JobInv(t)'
    BY DEF JobInv
  <2>2. CASE t = s
    BY <2>2, <1>3, <1>4, <1>12 DEF JobInv
  <2>3. CASE t # s
    <3>1. JobInv(t) /\ t \notin crowd /\ who[t] \in Account
      BY <2>1, <2>3, <1>4, <1>6 DEF StaffInv
    <3>2. QED BY <2>3, <3>1, <1>3, <1>4, <1>5, <1>6 DEF JobInv
  <2>4. QED BY <2>2, <2>3
<1>11. QED BY <1>3, <1>7, <1>8, <1>9, <1>10 DEF StaffInv

\* A job ends: only its own account may have changed, and when the job was
\* alone that is as it should be; a job among others leaves it excused.
LEMMA EndKeeps ==
  ASSUME StaffInv, NEW s \in Staff, End(s), pc[s] # "idle", NEW p, p = who[s],
         RowType', flag' \in [Account -> BOOLEAN], excuse' \in [Account -> Excuses],
         \A t \in Staff : t # s => \A b \in page[t] : row'[b].pid = row[b].pid,
         \A q \in Account : q # p => /\ Active(q)' = Active(q) /\ flag'[q] = flag[q]
                                     /\ excuse'[q] = excuse[q],
         p \in Account /\ s \in crowd => {"on", "off"} \subseteq excuse'[p],
         p \in Account /\ s \notin crowd => OnOK(p)' /\ OffOK(p)'
  PROVE  StaffInv'
<1>1. TypeOK /\ JobType
  BY TypeParts DEF StaffInv
<1>2. /\ JobType'
      /\ pc' = [pc EXCEPT ![s] = "idle"] /\ who' = [who EXCEPT ![s] = NoPid]
      /\ page' = [page EXCEPT ![s] = {}] /\ seen' = [seen EXCEPT ![s] = FALSE]
      /\ crowd' = crowd \ {s}
  BY <1>1, EndType
<1>3. /\ pc'[s] = "idle" /\ who'[s] = NoPid /\ page'[s] = {}
      /\ \A t \in Staff : t # s => /\ pc'[t] = pc[t] /\ who'[t] = who[t]
                                   /\ page'[t] = page[t] /\ seen'[t] = seen[t]
  BY <1>1, <1>2 DEF JobType
<1>4. TypeOK'
  BY <1>2, TypeParts DEF TypeOK, RowType, JobType, Row, Excuses
<1>5. CrowdInv
  BY DEF StaffInv
<1>6. CrowdInv'
  <2>1. \A t \in Staff : pc'[t] = "idle" => who'[t] = NoPid
    BY <1>3, <1>5 DEF CrowdInv
  <2>2. ASSUME NEW t \in crowd'
        PROVE  pc'[t] # "idle" /\ (who'[t] \in Account => {"on", "off"} \subseteq excuse'[who'[t]])
    <3>1. t \in crowd /\ t # s /\ t \in Staff
      BY <1>1, <1>2 DEF JobType
    <3>2. pc'[t] # "idle" /\ who'[t] = who[t]
      BY <3>1, <1>3, <1>5 DEF CrowdInv
    <3>3. who[t] \in Account => {"on", "off"} \subseteq excuse[who[t]]
      BY <3>1, <1>5 DEF CrowdInv
    <3>4. who[t] = who[s] => s \in crowd
      BY <3>1, <3>2, <1>3, <1>5 DEF CrowdInv
    <3>5. QED BY <3>2, <3>3, <3>4
  <2>3. \A t, u \in Staff :
          t # u /\ pc'[t] # "idle" /\ pc'[u] # "idle" /\ who'[t] = who'[u] => t \in crowd'
    BY <1>2, <1>3, <1>5 DEF CrowdInv
  <2>4. QED BY <2>1, <2>2, <2>3 DEF CrowdInv
<1>7. PageInv'
  BY <1>3 DEF StaffInv, PageInv
<1>8. ASSUME NEW q \in Account PROVE AccountInv(q)'
  <2>1. CASE q = who[s]
    <3>1. CASE s \in crowd
      <4>1. {"on", "off"} \subseteq excuse'[q]
        BY <2>1, <3>1
      <4>2. QED BY <4>1 DEF AccountInv, OnOK, OffOK
    <3>2. CASE s \notin crowd
      BY <2>1, <3>2 DEF AccountInv
    <3>3. QED BY <3>1, <3>2
  <2>2. CASE q # who[s]
    <3>1. AccountInv(q)
      BY DEF StaffInv
    <3>2. (OnOK(q) => OnOK(q)') /\ (OffOK(q) => OffOK(q)')
      BY <2>2 DEF OnOK, OffOK
    <3>3. \A t \in Staff : who[t] = q => pc'[t] = pc[t] /\ who'[t] = q
      BY <2>2, <1>3
    <3>4. QED BY <3>1, <3>2, <3>3 DEF AccountInv
  <2>3. QED BY <2>1, <2>2
<1>9. ASSUME NEW t \in Staff PROVE JobInv(t)'
  <2>1. SUFFICES ASSUME t \notin crowd', who'[t] \in Account PROVE JobInv(t)'
    BY DEF JobInv
  <2>2. t # s
    BY <2>1, <1>3, ModerationAssumption
  <2>3. t \notin crowd /\ who'[t] = who[t] /\ pc'[t] = pc[t] /\ seen'[t] = seen[t]
    BY <2>1, <2>2, <1>2, <1>3
  <2>4. pc[t] # "idle"
    BY <2>1, <2>3, <1>5, ModerationAssumption DEF CrowdInv
  <2>5. who[t] # who[s]
    BY <2>2, <2>3, <2>4, <1>5 DEF CrowdInv
  <2>6. JobInv(t)
    BY DEF StaffInv
  <2>7. QED BY <2>1, <2>3, <2>5, <2>6 DEF JobInv
<1>10. QED BY <1>4, <1>6, <1>7, <1>8, <1>9 DEF StaffInv

\* One statement changes the account p.
LEMMA SettleNowKeeps ==
  ASSUME StaffInv, NEW p \in Account, NEW in \in Excuses, NEW out, SettleNow(p, in, out),
         RowType', flag' \in [Account -> BOOLEAN],
         \A t \in Staff : \A b \in page[t] : row'[b].pid = row[b].pid,
         \A q \in Account : q # p => Active(q)' = Active(q) /\ flag'[q] = flag[q],
         excuse'[p] = (excuse[p] \cup in) \ out => OnOK(p)' /\ OffOK(p)'
  PROVE  StaffInv'
<1>1. TypeOK /\ JobType /\ excuse \in [Account -> Excuses] /\ CrowdInv
  BY TypeParts DEF StaffInv
<1>2. /\ UNCHANGED <<pc, who, left, page, seen>> /\ crowd' = crowd \cup Jobs(p)
      /\ Busy(p) => Excuse(p, {"on", "off"}, {})
      /\ ~Busy(p) => Excuse(p, in, out)
  BY DEF SettleNow, job
<1>3. JobType'
  BY <1>1, <1>2 DEF JobType, Jobs
<1>4. /\ excuse' \in [Account -> Excuses]
      /\ \A q \in Account : q # p => excuse'[q] = excuse[q]
      /\ Busy(p) => excuse'[p] = (excuse[p] \cup {"on", "off"}) \ {}
      /\ ~Busy(p) => excuse'[p] = (excuse[p] \cup in) \ out
  <2>1. CASE Busy(p)
    BY <2>1, <1>1, <1>2, ExcuseFacts, ExcuseSets
  <2>2. CASE ~Busy(p)
    BY <2>2, <1>1, <1>2, ExcuseFacts
  <2>3. QED BY <2>1, <2>2
<1>5. TypeOK'
  BY <1>3, <1>4, TypeParts DEF TypeOK, RowType, JobType, Row, Excuses
<1>6. \A t \in Staff : pc[t] # "idle" /\ who[t] = p => t \in crowd' /\ Busy(p)
  BY <1>2 DEF Jobs, Busy
<1>7. OnOK(p)' /\ OffOK(p)'
  BY <1>4 DEF OnOK, OffOK
<1>8. CrowdInv'
  <2>1. \A t \in crowd' : t \in crowd \/ (pc[t] # "idle" /\ who[t] = p /\ Busy(p))
    BY <1>2 DEF Jobs, Busy
  <2>2. ASSUME NEW t \in crowd'
        PROVE  pc'[t] # "idle" /\ (who'[t] \in Account => {"on", "off"} \subseteq excuse'[who'[t]])
    <3>1. CASE who[t] = p
      <4>1. pc[t] # "idle" /\ t \in Staff
        BY <2>1, <1>1, <1>3 DEF CrowdInv, JobType
      <4>2. Busy(p)
        BY <4>1, <3>1, <1>6
      <4>3. QED BY <4>1, <4>2, <3>1, <1>2, <1>4
    <3>2. CASE who[t] # p
      <4>1. pc[t] # "idle" /\ (who[t] \in Account => {"on", "off"} \subseteq excuse[who[t]])
        BY <2>1, <3>2, <1>1 DEF CrowdInv
      <4>2. QED BY <4>1, <3>2, <1>2, <1>4
    <3>3. QED BY <3>1, <3>2
  <2>3. QED BY <2>2, <1>1, <1>2 DEF CrowdInv
<1>9. PageInv'
  BY <1>2 DEF StaffInv, PageInv
<1>10. ASSUME NEW q \in Account PROVE AccountInv(q)'
  <2>1. CASE q = p
    BY <2>1, <1>7 DEF AccountInv
  <2>2. CASE q # p
    <3>1. AccountInv(q)
      BY DEF StaffInv
    <3>2. (OnOK(q) => OnOK(q)') /\ (OffOK(q) => OffOK(q)')
      BY <2>2, <1>4 DEF OnOK, OffOK
    <3>3. QED BY <3>1, <3>2, <1>2 DEF AccountInv
  <2>3. QED BY <2>1, <2>2
<1>11. ASSUME NEW t \in Staff PROVE JobInv(t)'
  <2>1. SUFFICES ASSUME t \notin crowd', who'[t] \in Account PROVE JobInv(t)'
    BY DEF JobInv
  <2>2. t \notin crowd /\ who[t] \in Account /\ pc[t] # "idle"
    BY <2>1, <1>1, <1>2, ModerationAssumption DEF CrowdInv
  <2>3. who[t] # p
    BY <2>1, <2>2, <1>6
  <2>4. JobInv(t)
    BY DEF StaffInv
  <2>5. QED BY <2>2, <2>3, <2>4, <1>2, <1>4 DEF JobInv
<1>12. QED BY <1>5, <1>8, <1>9, <1>10, <1>11 DEF StaffInv

\* A job goes on to its next statement: it may have changed the bans of its own
\* account, and when it is alone the next statement can rely on them.
LEMMA WorkKeeps ==
  ASSUME StaffInv, NEW s \in Staff, pc[s] # "idle", NEW p \in Account, p = who[s],
         NEW step \in {"creating", "deactivating", "checking", "activating"},
         pc' = [pc EXCEPT ![s] = step],
         UNCHANGED <<who, page, seen, crowd, flag, excuse>>,
         left' \in [Staff -> SUBSET (Device \cup {NoDevice})], RowType',
         \A t \in Staff : \A b \in page[t] : t # s /\ row'[b].pid = row[b].pid,
         \A q \in Account : q # p => Active(q)' = Active(q),
         s \notin crowd => AccountInv(p)' /\ JobInv(s)'
  PROVE  StaffInv'
<1>1. TypeOK /\ JobType /\ CrowdInv
  BY TypeParts DEF StaffInv
<1>2. step \in Statement /\ step # "idle"
  BY DEF Statement
<1>3. who[s] # NoPid
  BY ModerationAssumption
<1>4. JobType'
  BY <1>1, <1>2, <1>3 DEF JobType
<1>5. TypeOK'
  BY <1>1, <1>4 DEF TypeOK, RowType, JobType, Row, Excuses
<1>6. pc'[s] = step /\ \A t \in Staff : t # s => pc'[t] = pc[t]
  BY <1>1 DEF JobType
<1>7. CrowdInv'
  BY <1>1, <1>2, <1>6 DEF CrowdInv, JobType
<1>8. PageInv'
  BY <1>6 DEF StaffInv, PageInv
<1>9. ASSUME NEW q \in Account PROVE AccountInv(q)'
  <2>1. CASE q = who[s] /\ s \in crowd
    <3>1. {"on", "off"} \subseteq excuse[q]
      BY <2>1, <1>1 DEF CrowdInv
    <3>2. QED BY <3>1 DEF AccountInv, OnOK, OffOK
  <2>2. CASE q # who[s]
    <3>1. AccountInv(q)
      BY DEF StaffInv
    <3>2. (OnOK(q) => OnOK(q)') /\ (OffOK(q) => OffOK(q)')
      BY <2>2 DEF OnOK, OffOK
    <3>3. QED BY <2>2, <3>1, <3>2, <1>6 DEF AccountInv
  <2>3. QED BY <2>1, <2>2
<1>10. ASSUME NEW t \in Staff PROVE JobInv(t)'
  <2>1. SUFFICES ASSUME t \notin crowd, who[t] \in Account PROVE JobInv(t)'
    BY DEF JobInv
  <2>2. CASE t # s
    <3>1. pc[t] # "idle"
      BY <2>1, <1>1, ModerationAssumption DEF CrowdInv
    <3>2. who[t] # who[s]
      BY <2>1, <2>2, <3>1, <1>1 DEF CrowdInv
    <3>3. JobInv(t)
      BY DEF StaffInv
    <3>4. QED BY <2>1, <2>2, <3>2, <3>3, <1>6 DEF JobInv
  <2>3. QED BY <2>1, <2>2
<1>11. QED BY <1>5, <1>7, <1>8, <1>9, <1>10 DEF StaffInv

\* Bans of any accounts are lifted in one statement that leaves the accounts
\* as they are.
LEMMA LiftAllKeeps ==
  ASSUME StaffInv, NEW bs \in SUBSET Ban, Lift(bs),
         \A b \in bs : row[b].active,
         ExcuseAll({row[b].pid : b \in bs}, {"off"}, {}), UNCHANGED <<flag, job, crowd>>
  PROVE  StaffInv'
<1>1. TypeOK /\ JobType /\ RowType /\ excuse \in [Account -> Excuses] /\ CrowdInv
  BY TypeParts DEF StaffInv
<1>2. /\ RowType'
      /\ \A b \in Ban : row'[b].pid = row[b].pid
      /\ \A q : Active(q)' = Active(q) \ bs
  BY <1>1, LiftFacts
<1>3. /\ excuse' \in [Account -> Excuses]
      /\ \A q \in Account : q \in {row[b].pid : b \in bs} => excuse'[q] = (excuse[q] \cup {"off"}) \ {}
      /\ \A q \in Account : q \notin {row[b].pid : b \in bs} => excuse'[q] = excuse[q]
  BY <1>1, ExcuseAllFacts, ExcuseSets
<1>4. ASSUME NEW q \in Account
      PROVE  /\ excuse[q] \subseteq excuse'[q]
             /\ Active(q)' # Active(q) => "off" \in excuse'[q]
  <2>1. excuse[q] \subseteq excuse'[q]
    BY <1>3
  <2>2. ASSUME Active(q)' # Active(q) PROVE "off" \in excuse'[q]
    <3>1. PICK b \in bs : b \in Active(q)
      BY <2>2, <1>2
    <3>2. q \in {row[c].pid : c \in bs}
      BY <3>1 DEF Active
    <3>3. QED BY <3>2, <1>3
  <2>3. QED BY <2>1, <2>2
<1>5. UNCHANGED <<pc, who, left, page, seen>>
  BY DEF job
<1>6. TypeOK'
  BY <1>1, <1>2, <1>3, <1>5, TypeParts DEF TypeOK, RowType, JobType, Row, Excuses
<1>7. CrowdInv'
  BY <1>1, <1>4, <1>5 DEF CrowdInv
<1>8. PageInv'
  BY <1>1, <1>2, <1>5 DEF StaffInv, PageInv, JobType
<1>9. ASSUME NEW q \in Account PROVE AccountInv(q)'
  <2>1. AccountInv(q)
    BY DEF StaffInv
  <2>2. (OnOK(q) => OnOK(q)') /\ (OffOK(q) => OffOK(q)')
    BY <1>2, <1>4 DEF OnOK, OffOK
  <2>3. QED BY <2>1, <2>2, <1>5 DEF AccountInv
<1>10. ASSUME NEW t \in Staff PROVE JobInv(t)'
  <2>1. JobInv(t)
    BY DEF StaffInv
  <2>2. QED BY <2>1, <1>2, <1>4, <1>5 DEF JobInv
<1>11. QED BY <1>6, <1>7, <1>8, <1>9, <1>10 DEF StaffInv

-----------------------------------------------------------------------------
(* Every step keeps the invariant *)

LEMMA StaffFacts ==
  ASSUME StaffInv
  PROVE  /\ JobType /\ RowType /\ CrowdInv /\ PageInv
         /\ flag \in [Account -> BOOLEAN] /\ excuse \in [Account -> Excuses]
BY TypeParts DEF StaffInv

\* No ban's page is open in a job that is doing something else.
LEMMA OtherPages ==
  ASSUME StaffInv, NEW s \in Staff, pc[s] # "ban"
  PROVE  \A t \in Staff : \A b \in page[t] : b \in Ban /\ t # s
BY StaffFacts DEF PageInv, JobType

\* An account that only a job at s is about, at a statement of its own.
LEMMA AloneFacts ==
  ASSUME StaffInv, NEW s \in Staff, s \notin crowd, pc[s] # "idle", who[s] \in Account
  PROVE  /\ pc[s] \notin Banning => OnOK(who[s])
         /\ pc[s] \notin Lifting => OffOK(who[s])
         /\ JobInv(s)
<1>1. \A t \in Staff : pc[t] # "idle" /\ who[t] = who[s] => t = s
  BY StaffFacts DEF CrowdInv
<1>2. \A x \in Banning \cup Lifting : x # "idle"
  BY DEF Banning, Lifting
<1>3. AccountInv(who[s])
  BY DEF StaffInv
<1>4. QED BY <1>1, <1>2, <1>3 DEF AccountInv, StaffInv

\* What Settle does, alone and among others.
LEMMA SettleFacts ==
  ASSUME StaffInv, NEW s \in Staff, pc[s] # "idle", NEW p, p = who[s],
         NEW in \in Excuses, NEW out, Settle(s, in, out)
  PROVE  /\ excuse' \in [Account -> Excuses]
         /\ \A q \in Account : q # p => excuse'[q] = excuse[q]
         /\ p \in Account /\ s \in crowd => {"on", "off"} \subseteq excuse'[p]
         /\ p \in Account /\ s \notin crowd => excuse'[p] = (excuse[p] \cup in) \ out
<1> DEFINE o == IF s \in crowd THEN {} ELSE out
<1>1. Excuse(p, in, o)
  BY DEF Settle
<1>2. excuse \in [Account -> Excuses]
  BY StaffFacts
<1>3. s \in crowd /\ p \in Account => {"on", "off"} \subseteq excuse[p]
  BY StaffFacts DEF CrowdInv
<1>4. s \in crowd => o = {}
  OBVIOUS
<1>5. s \notin crowd => o = out
  OBVIOUS
<1> HIDE DEF o
<1>6. /\ excuse' \in [Account -> Excuses]
      /\ p \in Account => excuse'[p] = (excuse[p] \cup in) \ o
      /\ \A q \in Account : q # p => excuse'[q] = excuse[q]
  BY <1>1, <1>2, ExcuseFacts
<1>7. p \in Account /\ o = {} => excuse[p] \subseteq excuse'[p]
  BY <1>6
<1>8. QED BY <1>3, <1>4, <1>5, <1>6, <1>7

LEMMA SetFlagFacts ==
  ASSUME flag \in [Account -> BOOLEAN], NEW p, NEW v \in BOOLEAN, SetFlag(p, v)
  PROVE  /\ flag' \in [Account -> BOOLEAN]
         /\ p \in Account => flag'[p] = v
         /\ \A q \in Account : q # p => flag'[q] = flag[q]
BY DEF SetFlag

LEMMA SameActive ==
  ASSUME row' = row
  PROVE  \A q : Active(q)' = Active(q)
BY DEF Active

\* The jobs that are only begun.
LEMMA BeginAnyKeeps ==
  ASSUME StaffInv, NEW s \in Staff, BeginAny(s)
  PROVE  StaffInv'
<1>1. ASSUME NEW p \in Account, BeginBan(s, p) PROVE StaffInv'
  <2>1. PICK ids \in Identifiers(p) : Begin(s, "creating", p, ids, {}, FALSE)
    BY <1>1 DEF BeginBan
  <2>2. ids \in SUBSET (Device \cup {NoDevice})
    BY ModerationAssumption DEF Identifiers
  <2>3. Beginning("creating", p, {}, FALSE)
    BY ModerationAssumption DEF Beginning
  <2>4. QED BY <2>1, <2>2, <2>3, BeginKeeps
<1>2. ASSUME NEW p \in Account, ReadAccount(s, p) PROVE StaffInv'
  <2>1. Begin(s, "saving", p, {}, {}, flag[p]) /\ flag[p] \in BOOLEAN
    BY <1>2, StaffFacts DEF ReadAccount
  <2>2. Beginning("saving", p, {}, flag[p])
    BY ModerationAssumption DEF Beginning
  <2>3. QED BY <2>1, <2>2, BeginKeeps
<1>3. ASSUME NEW p \in Account \cup {NoPid}, BeginLift(s, p) PROVE StaffInv'
  <2>1. p # NoPid /\ Begin(s, "lifting", p, {}, {}, FALSE)
    BY <1>3, ModerationAssumption DEF BeginLift, Liftable
  <2>2. Beginning("lifting", p, {}, FALSE)
    BY <2>1 DEF Beginning
  <2>3. QED BY <2>1, <2>2, BeginKeeps
<1>4. ASSUME NEW p \in Account \cup {NoPid}, NEW d \in Device, CheckRaw(s, p, d) PROVE StaffInv'
  <2>1. Begin(s, "raw", p, {d}, {}, FALSE)
    BY <1>4 DEF CheckRaw
  <2>2. Beginning("raw", p, {}, FALSE)
    BY DEF Beginning
  <2>3. QED BY <2>1, <2>2, BeginKeeps
<1>5. ASSUME NEW b \in Ban, OpenBan(s, b) PROVE StaffInv'
  <2>1. Begin(s, "ban", row[b].pid, {}, {b}, row[b].active)
    BY <1>5 DEF OpenBan
  <2>2. row[b].pid \in Account \cup {NoPid} /\ row[b].active \in BOOLEAN
    BY StaffFacts, RowFacts DEF RowType
  <2>3. Beginning("ban", row[b].pid, {b}, row[b].active)
    BY DEF Beginning
  <2>4. QED BY <2>1, <2>2, <2>3, BeginKeeps
<1>6. QED BY <1>1, <1>2, <1>3, <1>4, <1>5 DEF BeginAny

LEMMA CreateBanKeeps ==
  ASSUME StaffInv, NEW s \in Staff, CreateBan(s)
  PROVE  StaffInv'
<1>1. PICK d \in left[s], b \in Spare : \E t \in Expiry(d) :
        /\ row' = [row EXCEPT ![b] = NewBan(who[s], d, t)]
        /\ left' = [left EXCEPT ![s] = @ \ {d}]
        /\ pc' = [pc EXCEPT ![s] = IF left[s] = {d} THEN "deactivating" ELSE "creating"]
  BY DEF CreateBan
<1>2. PICK t \in Expiry(d) :
        /\ row' = [row EXCEPT ![b] = NewBan(who[s], d, t)]
        /\ left' = [left EXCEPT ![s] = @ \ {d}]
        /\ pc' = [pc EXCEPT ![s] = IF left[s] = {d} THEN "deactivating" ELSE "creating"]
  BY <1>1
<1>3. pc[s] = "creating" /\ UNCHANGED <<flag, who, page, seen, crowd, excuse>>
  BY DEF CreateBan, At
<1>4. PICK p : p = who[s]
  OBVIOUS
<1>5. p \in Account
  BY <1>3, <1>4, StaffFacts DEF JobType
<1>6. d \in Device \cup {NoDevice} /\ t \in BOOLEAN
  BY StaffFacts DEF JobType, Expiry
<1>7. row' = [row EXCEPT ![b] = NewBan(p, d, t)]
  BY <1>2, <1>4
<1>8. /\ RowType'
      /\ \A u \in Staff : \A c \in page[u] \cap Ban : row'[c] = row[c]
      /\ Active(p)' # {}
      /\ \A q : q # p => Active(q)' = Active(q)
  BY <1>5, <1>6, <1>7, CreateFacts, StaffFacts
<1>9. left' \in [Staff -> SUBSET (Device \cup {NoDevice})]
  BY <1>2, StaffFacts DEF JobType
<1>10. PICK step \in {"creating", "deactivating"} : pc' = [pc EXCEPT ![s] = step]
  BY <1>2
<1>11. \A u \in Staff : \A c \in page[u] : u # s /\ row'[c].pid = row[c].pid
  BY <1>3, <1>8, OtherPages
<1>12. pc'[s] = step
  BY <1>10, StaffFacts DEF JobType
<1>13. ASSUME s \notin crowd PROVE AccountInv(p)' /\ JobInv(s)'
  <2>1. OffOK(p)'
    BY <1>8 DEF OffOK
  <2>2. AccountInv(p)'
    BY <2>1, <1>3, <1>4, <1>12 DEF AccountInv, Banning
  <2>3. JobInv(s)'
    BY <1>3, <1>4, <1>8, <1>12 DEF JobInv, Lifting
  <2>4. QED BY <2>2, <2>3
<1>14. step \in {"creating", "deactivating", "checking", "activating"} /\ pc[s] # "idle"
  BY <1>3
<1>15. QED BY <1>3, <1>4, <1>5, <1>8, <1>9, <1>10, <1>11, <1>13, <1>14, WorkKeeps

LEMMA DeactivateKeeps ==
  ASSUME StaffInv, NEW s \in Staff, Deactivate(s)
  PROVE  StaffInv'
<1>1. /\ pc[s] = "deactivating" /\ SetFlag(who[s], FALSE) /\ Settle(s, {}, {"on"})
      /\ End(s) /\ row' = row
  BY DEF Deactivate, At
<1>2. PICK p : p = who[s]
  OBVIOUS
<1>3. p \in Account
  BY <1>1, <1>2, StaffFacts DEF JobType
<1>4. flag' \in [Account -> BOOLEAN] /\ flag'[p] = FALSE /\ \A q \in Account : q # p => flag'[q] = flag[q]
  BY <1>1, <1>2, <1>3, StaffFacts, SetFlagFacts
<1>5. /\ excuse' \in [Account -> Excuses]
      /\ \A q \in Account : q # p => excuse'[q] = excuse[q]
      /\ s \in crowd => {"on", "off"} \subseteq excuse'[p]
      /\ s \notin crowd => excuse'[p] = (excuse[p] \cup {}) \ {"on"}
  BY <1>1, <1>2, <1>3, SettleFacts, ExcuseSets
<1>6. \A q : Active(q)' = Active(q)
  BY <1>1, SameActive
<1>7. ASSUME s \notin crowd PROVE OnOK(p)' /\ OffOK(p)'
  <2>1. Active(p) # {} \/ "off" \in excuse[p]
    BY <1>1, <1>2, <1>3, <1>7, AloneFacts DEF JobInv
  <2>2. "off" \in excuse[p] => "off" \in excuse'[p]
    BY <1>5, <1>7
  <2>3. QED BY <2>1, <2>2, <1>4, <1>6 DEF OnOK, OffOK
<1>8. RowType'
  BY <1>1, StaffFacts DEF RowType
<1>9. QED BY <1>1, <1>2, <1>3, <1>4, <1>5, <1>6, <1>7, <1>8, EndKeeps

LEMMA BanRawKeeps ==
  ASSUME StaffInv, NEW s \in Staff, BanRaw(s)
  PROVE  StaffInv'
<1>1. /\ pc[s] = "raw" /\ End(s) /\ Settle(s, {}, {"on"})
      /\ IF who[s] = NoPid THEN UNCHANGED flag ELSE SetFlag(who[s], FALSE)
  BY DEF BanRaw, At
<1>2. PICK p : p = who[s]
  OBVIOUS
<1>3. p \in Account \cup {NoPid}
  BY <1>2, StaffFacts DEF JobType
<1>4. PICK d \in left[s], b \in Spare : row' = [row EXCEPT ![b] = NewBan(p, d, FALSE)]
  BY <1>2 DEF BanRaw
<1>5. d \in Device \cup {NoDevice}
  BY StaffFacts DEF JobType
<1>6. /\ RowType'
      /\ \A u \in Staff : \A c \in page[u] \cap Ban : row'[c] = row[c]
      /\ Active(p)' # {}
      /\ \A q : q # p => Active(q)' = Active(q)
  BY <1>3, <1>4, <1>5, CreateFacts, StaffFacts
<1>7. /\ flag' \in [Account -> BOOLEAN]
      /\ p \in Account => flag'[p] = FALSE
      /\ \A q \in Account : q # p => flag'[q] = flag[q]
  <2>1. CASE who[s] = NoPid
    BY <2>1, <1>1, <1>2, StaffFacts, ModerationAssumption
  <2>2. CASE who[s] # NoPid
    <3>1. SetFlag(p, FALSE)
      BY <2>2, <1>1, <1>2
    <3>2. QED BY <3>1, StaffFacts, SetFlagFacts
  <2>3. QED BY <2>1, <2>2
<1>8. /\ excuse' \in [Account -> Excuses]
      /\ \A q \in Account : q # p => excuse'[q] = excuse[q]
      /\ p \in Account /\ s \in crowd => {"on", "off"} \subseteq excuse'[p]
  BY <1>1, <1>2, SettleFacts, ExcuseSets
<1>9. p \in Account => OnOK(p)' /\ OffOK(p)'
  BY <1>6, <1>7 DEF OnOK, OffOK
<1>10. \A u \in Staff : \A c \in page[u] : row'[c].pid = row[c].pid
  BY <1>1, <1>6, OtherPages
<1>11. QED BY <1>1, <1>2, <1>6, <1>7, <1>8, <1>9, <1>10, EndKeeps

LEMMA LiftRowsKeeps ==
  ASSUME StaffInv, NEW s \in Staff, LiftRows(s)
  PROVE  StaffInv'
<1>1. /\ pc[s] = "lifting" /\ Lift(Active(who[s])) /\ Goto(s, "checking")
      /\ UNCHANGED <<flag, excuse>>
  BY DEF LiftRows, At
<1>2. PICK p : p = who[s]
  OBVIOUS
<1>3. p \in Account
  BY <1>1, <1>2, StaffFacts DEF JobType
<1>4. PICK bs : bs = Active(p)
  OBVIOUS
<1>5. Lift(bs)
  BY <1>1, <1>2, <1>4
<1>6. /\ RowType'
      /\ \A b \in Ban : row'[b].pid = row[b].pid
      /\ \A q : Active(q)' = Active(q) \ bs
  BY <1>5, StaffFacts, LiftFacts
<1>7. Active(p)' = {} /\ \A q \in Account : q # p => Active(q)' = Active(q)
  BY <1>4, <1>6 DEF Active
<1>8. pc' = [pc EXCEPT ![s] = "checking"] /\ UNCHANGED <<who, left, page, seen, crowd>>
  BY <1>1 DEF Goto
<1>9. pc'[s] = "checking" /\ left' \in [Staff -> SUBSET (Device \cup {NoDevice})]
  BY <1>8, StaffFacts DEF JobType
<1>10. \A u \in Staff : \A c \in page[u] : u # s /\ row'[c].pid = row[c].pid
  BY <1>1, <1>6, OtherPages
<1>11. AccountInv(p)' /\ JobInv(s)'
  <2>1. OnOK(p)'
    BY <1>7 DEF OnOK
  <2>2. AccountInv(p)'
    BY <2>1, <1>2, <1>8, <1>9 DEF AccountInv, Lifting
  <2>3. JobInv(s)'
    BY <1>2, <1>7, <1>8, <1>9 DEF JobInv
  <2>4. QED BY <2>2, <2>3
<1>12. QED BY <1>1, <1>2, <1>3, <1>6, <1>7, <1>8, <1>9, <1>10, <1>11, WorkKeeps

LEMMA CheckLiftedKeeps ==
  ASSUME StaffInv, NEW s \in Staff, CheckLifted(s)
  PROVE  StaffInv'
<1>1. /\ pc[s] = "checking" /\ UNCHANGED <<flag, row, excuse>>
      /\ IF StillBanned(who[s]) THEN End(s) ELSE Goto(s, "activating")
  BY DEF CheckLifted, At
<1>2. PICK p : p = who[s]
  OBVIOUS
<1>3. p \in Account
  BY <1>1, <1>2, StaffFacts DEF JobType
<1>4. (\A q : Active(q)' = Active(q)) /\ RowType'
  BY <1>1, SameActive, StaffFacts DEF RowType
<1>5. s \notin crowd => Active(p) = {}
  BY <1>1, <1>2, <1>3, AloneFacts DEF JobInv, Lifting
<1>6. \A u \in Staff : \A c \in page[u] : u # s /\ row'[c].pid = row[c].pid
  BY <1>1, OtherPages
<1>7. CASE StillBanned(who[s])
  <2>1. End(s) /\ s \in crowd
    BY <1>1, <1>2, <1>5, <1>7 DEF StillBanned
  <2>2. {"on", "off"} \subseteq excuse[p]
    BY <2>1, <1>2, <1>3, StaffFacts DEF CrowdInv
  <2>3. flag' \in [Account -> BOOLEAN] /\ excuse' \in [Account -> Excuses]
    BY <1>1, StaffFacts
  <2>4. QED BY <2>1, <2>2, <2>3, <1>1, <1>2, <1>4, <1>6, EndKeeps
<1>8. CASE ~StillBanned(who[s])
  <2>1. pc' = [pc EXCEPT ![s] = "activating"] /\ UNCHANGED <<who, left, page, seen, crowd>>
    BY <1>1, <1>8 DEF Goto
  <2>2. pc'[s] = "activating" /\ left' \in [Staff -> SUBSET (Device \cup {NoDevice})]
    BY <2>1, StaffFacts DEF JobType
  <2>3. ASSUME s \notin crowd PROVE AccountInv(p)' /\ JobInv(s)'
    <3>1. Active(p)' = {}
      BY <2>3, <1>4, <1>5
    <3>2. AccountInv(p)'
      BY <3>1, <1>2, <2>1, <2>2 DEF AccountInv, OnOK, Lifting
    <3>3. JobInv(s)'
      BY <3>1, <1>2, <2>1, <2>2 DEF JobInv
    <3>4. QED BY <3>2, <3>3
  <2>4. QED BY <2>1, <2>2, <2>3, <1>1, <1>2, <1>3, <1>4, <1>6, WorkKeeps
<1>9. QED BY <1>7, <1>8

LEMMA ActivateKeeps ==
  ASSUME StaffInv, NEW s \in Staff, Activate(s)
  PROVE  StaffInv'
<1>1. /\ pc[s] = "activating" /\ SetFlag(who[s], TRUE) /\ Settle(s, {}, {"on", "off"})
      /\ End(s) /\ row' = row
  BY DEF Activate, At
<1>2. PICK p : p = who[s]
  OBVIOUS
<1>3. p \in Account
  BY <1>1, <1>2, StaffFacts DEF JobType
<1>4. flag' \in [Account -> BOOLEAN] /\ flag'[p] = TRUE /\ \A q \in Account : q # p => flag'[q] = flag[q]
  BY <1>1, <1>2, <1>3, StaffFacts, SetFlagFacts
<1>5. /\ excuse' \in [Account -> Excuses]
      /\ \A q \in Account : q # p => excuse'[q] = excuse[q]
      /\ s \in crowd => {"on", "off"} \subseteq excuse'[p]
  BY <1>1, <1>2, <1>3, SettleFacts, ExcuseSets
<1>6. (\A q : Active(q)' = Active(q)) /\ RowType'
  BY <1>1, SameActive, StaffFacts DEF RowType
<1>7. ASSUME s \notin crowd PROVE OnOK(p)' /\ OffOK(p)'
  <2>1. Active(p) = {}
    BY <1>1, <1>2, <1>3, <1>7, AloneFacts DEF JobInv, Lifting
  <2>2. QED BY <2>1, <1>4, <1>6 DEF OnOK, OffOK
<1>8. QED BY <1>1, <1>2, <1>3, <1>4, <1>5, <1>6, <1>7, EndKeeps

LEMMA SaveAccountKeeps ==
  ASSUME StaffInv, NEW s \in Staff, NEW v \in BOOLEAN, SaveAccount(s, v)
  PROVE  StaffInv'
<1> DEFINE in == {IF v THEN "on" ELSE "off"}
           out == {IF v THEN "off" ELSE "on"}
<1>1. /\ pc[s] = "saving" /\ SetFlag(who[s], v) /\ End(s) /\ row' = row
      /\ IF v = seen[s] THEN UNCHANGED excuse ELSE Settle(s, in, out)
  BY DEF SaveAccount, At
<1>2. PICK p : p = who[s]
  OBVIOUS
<1>3. p \in Account
  BY <1>1, <1>2, StaffFacts DEF JobType
<1>4. flag' \in [Account -> BOOLEAN] /\ flag'[p] = v /\ \A q \in Account : q # p => flag'[q] = flag[q]
  BY <1>1, <1>2, <1>3, StaffFacts, SetFlagFacts
<1>5. (\A q : Active(q)' = Active(q)) /\ RowType'
  BY <1>1, SameActive, StaffFacts DEF RowType
<1>6. s \notin crowd => OnOK(p) /\ OffOK(p) /\ seen[s] = flag[p]
  BY <1>1, <1>2, <1>3, AloneFacts DEF JobInv, Banning, Lifting
<1>7. s \in crowd => {"on", "off"} \subseteq excuse[p]
  BY <1>2, <1>3, StaffFacts DEF CrowdInv
<1>8. in \in Excuses
  BY ExcuseSets
<1>9. CASE v = seen[s]
  <2>1. s \notin crowd => OnOK(p)' /\ OffOK(p)'
    BY <1>1, <1>4, <1>5, <1>6, <1>9 DEF OnOK, OffOK
  <2>2. excuse' = excuse /\ excuse' \in [Account -> Excuses]
    BY <1>1, <1>9, StaffFacts
  <2>3. QED BY <2>1, <2>2, <1>1, <1>2, <1>4, <1>5, <1>7, EndKeeps
<1>10. CASE v # seen[s]
  <2>1. /\ excuse' \in [Account -> Excuses]
        /\ \A q \in Account : q # p => excuse'[q] = excuse[q]
        /\ s \in crowd => {"on", "off"} \subseteq excuse'[p]
        /\ s \notin crowd => excuse'[p] = (excuse[p] \cup in) \ out
    BY <1>1, <1>2, <1>3, <1>8, <1>10, SettleFacts
  <2>2. ASSUME s \notin crowd PROVE OnOK(p)' /\ OffOK(p)'
    <3>1. CASE v = TRUE
      BY <2>1, <2>2, <3>1, <1>4 DEF OnOK, OffOK
    <3>2. CASE v = FALSE
      BY <2>1, <2>2, <3>2, <1>4 DEF OnOK, OffOK
    <3>3. QED BY <3>1, <3>2
  <2>3. QED BY <2>1, <2>2, <1>1, <1>2, <1>4, <1>5, EndKeeps
<1>11. QED BY <1>9, <1>10

LEMMA SaveBanKeeps ==
  ASSUME StaffInv, NEW s \in Staff, NEW v \in BOOLEAN, SaveBan(s, v)
  PROVE  StaffInv'
<1> DEFINE in == {IF v THEN "on" ELSE "off"}
<1>1. pc[s] = "ban" /\ End(s) /\ flag' = flag
  BY DEF SaveBan, At
<1>2. PICK p : p = who[s]
  OBVIOUS
<1>3. PICK b \in page[s] :
        /\ row' = [row EXCEPT ![b].active = v]
        /\ IF v = row[b].active THEN UNCHANGED excuse ELSE Excuse(who[s], in, {})
  BY DEF SaveBan
<1>4. b \in Ban /\ row[b].pid = p /\ row[b].active \in BOOLEAN
  <2>1. b \in Ban /\ row[b].pid = p
    BY <1>2, StaffFacts DEF PageInv, JobType
  <2>2. QED BY <2>1, StaffFacts, RowFacts DEF RowType
<1>5. /\ RowType'
      /\ \A c \in Ban : row'[c].pid = row[c].pid
      /\ \A q : q # p => Active(q)' = Active(q)
      /\ ~v => Active(p)' \subseteq Active(p)
      /\ v => Active(p)' # {}
      /\ v = row[b].active => \A q : Active(q)' = Active(q)
  BY <1>3, <1>4, StaffFacts, SaveBanFacts
<1>6. \A u \in Staff : u # s => \A c \in page[u] : row'[c].pid = row[c].pid
  BY <1>5, StaffFacts DEF JobType
<1>7. p \in Account /\ s \notin crowd => OnOK(p) /\ OffOK(p)
  BY <1>1, <1>2, AloneFacts DEF Banning, Lifting
<1>8. p \in Account /\ s \in crowd => {"on", "off"} \subseteq excuse[p]
  BY <1>2, StaffFacts DEF CrowdInv
<1>9. in \in Excuses
  BY ExcuseSets
<1>10. CASE v = row[b].active
  <2>1. p \in Account /\ s \notin crowd => OnOK(p)' /\ OffOK(p)'
    BY <1>1, <1>3, <1>5, <1>7, <1>10 DEF OnOK, OffOK
  <2>2. excuse' = excuse /\ excuse' \in [Account -> Excuses] /\ flag' \in [Account -> BOOLEAN]
    BY <1>1, <1>3, <1>10, StaffFacts
  <2>3. QED BY <2>1, <2>2, <1>1, <1>2, <1>4, <1>5, <1>6, <1>8, EndKeeps
<1>11. CASE v # row[b].active
  <2>1. Excuse(p, in, {})
    BY <1>2, <1>3, <1>11
  <2>2. /\ excuse' \in [Account -> Excuses]
        /\ p \in Account => excuse'[p] = (excuse[p] \cup in) \ {}
        /\ \A q \in Account : q # p => excuse'[q] = excuse[q]
    BY <2>1, <1>9, StaffFacts, ExcuseFacts
  <2>3. p \in Account => in \subseteq excuse'[p] /\ excuse[p] \subseteq excuse'[p]
    BY <2>2
  <2>4. ASSUME p \in Account, s \notin crowd PROVE OnOK(p)' /\ OffOK(p)'
    <3>1. CASE v = TRUE
      BY <2>3, <2>4, <3>1, <1>5 DEF OnOK, OffOK
    <3>2. CASE v = FALSE
      BY <2>3, <2>4, <3>2, <1>1, <1>5, <1>7 DEF OnOK, OffOK
    <3>3. QED BY <3>1, <3>2
  <2>5. flag' \in [Account -> BOOLEAN]
    BY <1>1, StaffFacts
  <2>6. QED BY <2>2, <2>3, <2>4, <2>5, <1>1, <1>2, <1>4, <1>5, <1>6, <1>8, EndKeeps
<1>12. QED BY <1>10, <1>11

LEMMA DieKeeps ==
  ASSUME StaffInv, NEW s \in Staff, Die(s)
  PROVE  StaffInv'
<1>1. pc[s] # "idle" /\ End(s) /\ flag' = flag /\ row' = row
  BY DEF Die, At
<1>2. PICK p : p = who[s]
  OBVIOUS
<1>3. /\ pc[s] \in Banning => Excuse(p, {"on"}, {})
      /\ pc[s] \in Lifting => Excuse(p, {"off"}, {})
      /\ pc[s] \notin Banning \cup Lifting => excuse' = excuse
  BY <1>2 DEF Die, Banning, Lifting
<1>4. (\A q : Active(q)' = Active(q)) /\ RowType' /\ flag' \in [Account -> BOOLEAN]
  BY <1>1, SameActive, StaffFacts DEF RowType
<1>5. /\ excuse' \in [Account -> Excuses]
      /\ \A q \in Account : q # p => excuse'[q] = excuse[q]
      /\ p \in Account => /\ excuse[p] \subseteq excuse'[p]
                          /\ pc[s] \in Banning => "on" \in excuse'[p]
                          /\ pc[s] \in Lifting => "off" \in excuse'[p]
  <2>1. CASE pc[s] \in Banning
    <3>1. /\ excuse' \in [Account -> Excuses]
          /\ p \in Account => excuse'[p] = (excuse[p] \cup {"on"}) \ {}
          /\ \A q \in Account : q # p => excuse'[q] = excuse[q]
      BY <1>3, <2>1, StaffFacts, ExcuseFacts, ExcuseSets
    <3>2. pc[s] \notin Lifting
      BY <2>1 DEF Banning, Lifting
    <3>3. QED BY <3>1, <3>2
  <2>2. CASE pc[s] \in Lifting
    <3>1. /\ excuse' \in [Account -> Excuses]
          /\ p \in Account => excuse'[p] = (excuse[p] \cup {"off"}) \ {}
          /\ \A q \in Account : q # p => excuse'[q] = excuse[q]
      BY <1>3, <2>2, StaffFacts, ExcuseFacts, ExcuseSets
    <3>2. pc[s] \notin Banning
      BY <2>2 DEF Banning, Lifting
    <3>3. QED BY <3>1, <3>2
  <2>3. CASE pc[s] \notin Banning \cup Lifting
    BY <1>3, <2>3, StaffFacts
  <2>4. QED BY <2>1, <2>2, <2>3
<1>6. p \in Account /\ s \in crowd => {"on", "off"} \subseteq excuse'[p]
  BY <1>2, <1>5, StaffFacts DEF CrowdInv
<1>7. p \in Account /\ s \notin crowd => OnOK(p)' /\ OffOK(p)'
  BY <1>1, <1>2, <1>4, <1>5, AloneFacts DEF OnOK, OffOK
<1>8. QED BY <1>1, <1>2, <1>4, <1>5, <1>6, <1>7, EndKeeps

LEMMA BanByFormKeeps ==
  ASSUME StaffInv, NEW p \in Account, BanByForm(p)
  PROVE  StaffInv'
<1>1. SetFlag(p, FALSE) /\ SettleNow(p, {}, {"on"})
  BY DEF BanByForm
<1>2. PICK ids \in Identifiers(p) : \E new \in [ids -> Spare], t \in [ids -> BOOLEAN] :
        row' = WithBans(p, ids, new, t)
  BY DEF BanByForm
<1>9. PICK new \in [ids -> Spare], t \in [ids -> BOOLEAN] : row' = WithBans(p, ids, new, t)
  BY <1>2
<1>3. ids \in SUBSET (Device \cup {NoDevice}) /\ ids # {}
  BY ModerationAssumption DEF Identifiers
<1>4. /\ RowType'
      /\ \A s \in Staff : \A c \in page[s] \cap Ban : row'[c] = row[c]
      /\ Active(p)' # {}
      /\ \A q : q # p => Active(q)' = Active(q)
  BY <1>9, <1>3, StaffFacts, CreateAllFacts
<1>5. flag' \in [Account -> BOOLEAN] /\ flag'[p] = FALSE /\ \A q \in Account : q # p => flag'[q] = flag[q]
  BY <1>1, StaffFacts, SetFlagFacts
<1>6. \A s \in Staff : \A c \in page[s] : row'[c].pid = row[c].pid
  BY <1>4, StaffFacts DEF JobType
<1>7. OnOK(p)' /\ OffOK(p)'
  BY <1>4, <1>5 DEF OnOK, OffOK
<1>8. QED BY <1>1, <1>4, <1>5, <1>6, <1>7, ExcuseSets, SettleNowKeeps

LEMMA SwitchKeeps ==
  ASSUME StaffInv, NEW p \in Account, NEW v \in BOOLEAN, Switch(p, v)
  PROVE  StaffInv'
<1> DEFINE in == {IF v THEN "on" ELSE "off"}
           out == {IF v THEN "off" ELSE "on"}
<1>1. SetFlag(p, v) /\ SettleNow(p, in, out) /\ row' = row
  BY DEF Switch
<1>2. flag' \in [Account -> BOOLEAN] /\ flag'[p] = v /\ \A q \in Account : q # p => flag'[q] = flag[q]
  BY <1>1, StaffFacts, SetFlagFacts
<1>3. (\A q : Active(q)' = Active(q)) /\ RowType'
  BY <1>1, SameActive, StaffFacts DEF RowType
<1>4. ASSUME excuse'[p] = (excuse[p] \cup in) \ out PROVE OnOK(p)' /\ OffOK(p)'
  <2>1. CASE v = TRUE
    BY <1>2, <1>4, <2>1 DEF OnOK, OffOK
  <2>2. CASE v = FALSE
    BY <1>2, <1>4, <2>2 DEF OnOK, OffOK
  <2>3. QED BY <2>1, <2>2
<1>5. in \in Excuses
  BY ExcuseSets
<1> HIDE DEF in, out
<1>6. \A t \in Staff : \A b \in page[t] : row'[b].pid = row[b].pid
  BY <1>1
<1>7. QED BY <1>1, <1>2, <1>3, <1>4, <1>5, <1>6, SettleNowKeeps

LEMMA LiftDeviceKeeps ==
  ASSUME StaffInv, NEW d \in Device, LiftDevice(d)
  PROVE  StaffInv'
<1> DEFINE bs == {b \in Ban : row[b].active /\ row[b].device = d}
<1>1. Lift(bs) /\ ExcuseAll({row[b].pid : b \in bs}, {"off"}, {}) /\ UNCHANGED <<flag, job, crowd>>
  BY DEF LiftDevice
<1>2. bs \in SUBSET Ban /\ \A b \in bs : row[b].active
  OBVIOUS
<1> HIDE DEF bs
<1>3. QED BY <1>1, <1>2, LiftAllKeeps

LEMMA ExpireKeeps ==
  ASSUME StaffInv, Expire
  PROVE  StaffInv'
<1>1. PICK bs \in SUBSET {b \in Ban : row[b].active /\ row[b].timed} :
        /\ Lift(bs) /\ ExcuseAll({row[b].pid : b \in bs}, {"off"}, {})
        /\ UNCHANGED <<flag, job, crowd>>
  BY DEF Expire
<1>2. bs \in SUBSET Ban /\ \A b \in bs : row[b].active
  OBVIOUS
<1>3. QED BY <1>1, <1>2, LiftAllKeeps

LEMMA StaffStep == StaffInv /\ [Next]_vars => StaffInv'
<1> SUFFICES ASSUME StaffInv, [Next]_vars PROVE StaffInv'
  OBVIOUS
<1>1. ASSUME NEW s \in Staff, BeginAny(s) PROVE StaffInv'
  BY <1>1, BeginAnyKeeps
<1>2. ASSUME NEW s \in Staff, Step(s) PROVE StaffInv'
  BY <1>2, CreateBanKeeps, DeactivateKeeps, BanRawKeeps, LiftRowsKeeps, CheckLiftedKeeps,
     ActivateKeeps, SaveAccountKeeps, SaveBanKeeps, DieKeeps DEF Step
<1>3. ASSUME NEW p \in Account, BanByForm(p) \/ \E v \in BOOLEAN : Switch(p, v) PROVE StaffInv'
  BY <1>3, BanByFormKeeps, SwitchKeeps
<1>4. ASSUME NEW d \in Device, LiftDevice(d) PROVE StaffInv'
  BY <1>4, LiftDeviceKeeps
<1>5. ASSUME UNCHANGED vars PROVE StaffInv'
  BY <1>5 DEF vars, job, StaffInv, TypeOK, CrowdInv, PageInv, AccountInv, JobInv, OnOK, OffOK, Active
<1>6. QED BY <1>1, <1>2, <1>3, <1>4, <1>5, ExpireKeeps DEF Next

-----------------------------------------------------------------------------
(* Theorems *)

\* The invariant holds in every reachable state.
LEMMA StaffAlways == Spec => []StaffInv
BY StaffInit, StaffStep, PTL DEF Spec

\* Type correctness of accounts, bans and jobs.
THEOREM TypeCorrect == Spec => []TypeOK
<1>1. StaffInv => TypeOK
  BY DEF StaffInv
<1>2. QED BY <1>1, StaffAlways, PTL

\* Banned accounts are off and the others on, but for the excuses the
\* properties name.
THEOREM BansCorrect == Spec => [](BannedIsOff /\ OffForAReason)
<1>1. StaffInv => BannedIsOff /\ OffForAReason
  <2>1. SUFFICES ASSUME StaffInv, NEW p \in Account, ~Busy(p) PROVE OnOK(p) /\ OffOK(p)
    BY DEF BannedIsOff, OffForAReason, OnOK, OffOK
  <2>2. \A s \in Staff : who[s] = p => pc[s] \notin Banning \cup Lifting
    BY <2>1 DEF Busy, Jobs, Banning, Lifting
  <2>3. AccountInv(p)
    BY <2>1 DEF StaffInv
  <2>4. QED BY <2>2, <2>3 DEF AccountInv
<1>2. QED BY <1>1, StaffAlways, PTL
=============================================================================
