------------------------------- MODULE Moderation -------------------------------
(***************************************************************************)
(* Bans of player accounts (eshop/accountsdb/moderation.py) as the staff   *)
(* issue and lift them from the pages of eshop/accountsdb/admin.py.        *)
(*                                                                         *)
(* A ban is a row of account_bans, and the account it is about is switched *)
(* off in another table.  The actions of the list pages run in autocommit, *)
(* so each of their SQL statements is a step; the pages that add or edit   *)
(* one row run in a transaction.  Some jobs write back a whole row that    *)
(* was read earlier: before a mail was sent, or when a page was opened.    *)
(*                                                                         *)
(* A job is about one account: what a list action does to several accounts *)
(* it does one after the other.  Reasons, names, mails and passwords are   *)
(* left out, and so are edits of a ban other than of its active box.       *)
(***************************************************************************)
EXTENDS FiniteSets

CONSTANTS Account,  \* players, by pid
          NoPid,    \* the pid "0" of a ban of a bare device
          Device,   \* device ids and serial hashes
          NoDevice, \* the device id of a ban of an account
          Known,    \* [Account -> the device identifiers on record for it]
          Ban,      \* rows of account_bans; bound: one that was lifted is reused
          Staff,    \* requests and open pages of the staff
          Crash     \* TRUE: a job can die between two statements

ASSUME ModerationAssumption == /\ NoPid \notin Account /\ NoDevice \notin Device
                               /\ Known \in [Account -> SUBSET Device]
                               /\ Crash \in BOOLEAN

VARIABLES flag,   \* Account.flag_active
          row,    \* AccountBan
          pc,     \* the statement each job is at
          who,    \* the account it is about
          left,   \* what it has still to ban: device ids, or the account
          page,   \* the ban whose page is open, if any
          seen,   \* the flag_active, or the active, that it read
          crowd,  \* for the properties: the jobs that another one about the
                  \* same account was in progress with
          excuse  \* for the properties: the accounts whose flag_active the staff,
                  \* a job that died or such jobs left at odds with the bans

job == <<pc, who, left, page, seen>>
vars == <<flag, row, job, crowd, excuse>>

NoBan == [pid |-> NoPid, device |-> NoDevice, timed |-> FALSE, active |-> FALSE]

Init ==
  /\ flag = [p \in Account |-> TRUE]
  /\ row = [b \in Ban |-> NoBan]
  /\ pc = [s \in Staff |-> "idle"]
  /\ who = [s \in Staff |-> NoPid]
  /\ left = [s \in Staff |-> {}]
  /\ page = [s \in Staff |-> {}]
  /\ seen = [s \in Staff |-> FALSE]
  /\ crowd = {}
  /\ excuse = [p \in Account |-> {}]

At(s, step) == pc[s] = step
\* The jobs about p.
Jobs(p) == {s \in Staff : pc[s] # "idle" /\ who[s] = p}
Busy(p) == Jobs(p) # {}

Active(p) == {b \in Ban : row[b].active /\ row[b].pid = p}

\* Rows for new bans.
Spare == {b \in Ban : ~row[b].active /\ \A s \in Staff : b \notin page[s]}

\* For the properties: the accounts ps may be ("in") or no longer be ("out") on
\* in spite of a ban, or off without one.
ExcuseAll(ps, in, out) ==
  excuse' = [p \in Account |-> IF p \in ps THEN (excuse[p] \cup in) \ out ELSE excuse[p]]
Excuse(p, in, out) == ExcuseAll({p}, in, out)

\* A job begins, alone or among others.
Begin(s, step, p, ids, bs, v) ==
  /\ At(s, "idle")
  /\ pc' = [pc EXCEPT ![s] = step]
  /\ who' = [who EXCEPT ![s] = p]
  /\ left' = [left EXCEPT ![s] = ids]
  /\ page' = [page EXCEPT ![s] = bs]
  /\ seen' = [seen EXCEPT ![s] = v]
  /\ IF Busy(p) THEN /\ crowd' = crowd \cup {s} \cup Jobs(p)
                     /\ Excuse(p, {"on", "off"}, {})
                ELSE UNCHANGED <<crowd, excuse>>
  /\ UNCHANGED <<flag, row>>

\* The job goes on to a step.
Goto(s, step) ==
  /\ pc' = [pc EXCEPT ![s] = step]
  /\ UNCHANGED <<who, left, page, seen, crowd>>

\* The job is over and leaves nothing behind.
End(s) ==
  /\ pc' = [pc EXCEPT ![s] = "idle"]
  /\ who' = [who EXCEPT ![s] = NoPid]
  /\ left' = [left EXCEPT ![s] = {}]
  /\ page' = [page EXCEPT ![s] = {}]
  /\ seen' = [seen EXCEPT ![s] = FALSE]
  /\ crowd' = crowd \ {s}

SetFlag(p, v) == flag' = [flag EXCEPT ![p] = v]

\* What a job, alone to its end, makes of the account it is about.
Settle(s, in, out) == Excuse(who[s], in, IF s \in crowd THEN {} ELSE out)

\* The same of what one statement does.
SettleNow(p, in, out) ==
  /\ IF Busy(p) THEN Excuse(p, {"on", "off"}, {}) ELSE Excuse(p, in, out)
  /\ crowd' = crowd \cup Jobs(p)
  /\ UNCHANGED job

\* The bans in bs are lifted in one UPDATE.
Lift(bs) == row' = [b \in Ban |-> [row[b] EXCEPT !.active = @ /\ b \notin bs]]

-----------------------------------------------------------------------------
(* issue_ban *)

\* What a ban of p can be about: the account, or all devices on record for it.
Identifiers(p) == {{NoDevice}} \cup ({Known[p]} \ {{}})

BeginBan(s, p) == \E ids \in Identifiers(p) : Begin(s, "creating", p, ids, {}, FALSE)

NewBan(p, d, t) == [pid |-> p, device |-> d, timed |-> t, active |-> TRUE]

\* Only a ban of the account can have an expiry.
Expiry(d) == IF d = NoDevice THEN BOOLEAN ELSE {FALSE}

\* AccountBan.objects.create, once for each identifier.
CreateBan(s) ==
  /\ At(s, "creating")
  /\ \E d \in left[s], b \in Spare : \E t \in Expiry(d) :
       /\ row' = [row EXCEPT ![b] = NewBan(who[s], d, t)]
       /\ left' = [left EXCEPT ![s] = @ \ {d}]
       /\ pc' = [pc EXCEPT ![s] = IF left[s] = {d} THEN "deactivating" ELSE "creating"]
  /\ UNCHANGED <<flag, who, page, seen, crowd, excuse>>

\* The account is switched off; the mail that follows changes nothing.
Deactivate(s) ==
  /\ At(s, "deactivating")
  /\ SetFlag(who[s], FALSE)
  /\ Settle(s, {}, {"on"})
  /\ End(s)
  /\ UNCHANGED row

\* The rows once ids were banned, each in its row new[d] and with expires_at t[d].
WithBans(p, ids, new, t) ==
  [b \in Ban |-> IF \E d \in ids : new[d] = b
                 THEN LET d == CHOOSE d \in ids : new[d] = b IN NewBan(p, d, t[d])
                 ELSE row[b]]

\* The page that adds a ban calls issue_ban in a transaction.
BanByForm(p) ==
  /\ \E ids \in Identifiers(p) : \E new \in [ids -> Spare], t \in [ids -> BOOLEAN] :
       /\ \A d \in ids : t[d] \in Expiry(d)
       /\ \A d, e \in ids : new[d] = new[e] => d = e
       /\ row' = WithBans(p, ids, new, t)
  /\ SetFlag(p, FALSE)
  /\ SettleNow(p, {}, {"on"})

\* ban_raw_device, from the same page: what is typed is refused when it has a
\* ban of a device ...
CheckRaw(s, p, d) ==
  /\ ~\E b \in Ban : row[b].active /\ row[b].device = d
  /\ Begin(s, "raw", p, {d}, {}, FALSE)

\* ... and the rest is committed together.
BanRaw(s) ==
  /\ At(s, "raw")
  /\ \E d \in left[s], b \in Spare : row' = [row EXCEPT ![b] = NewBan(who[s], d, FALSE)]
  /\ IF who[s] = NoPid THEN UNCHANGED flag ELSE SetFlag(who[s], FALSE)
  /\ Settle(s, {}, {"on"})
  /\ End(s)

-----------------------------------------------------------------------------
(* lift_bans, of selected accounts or of the accounts of selected bans, and *)
(* lift_device, of selected bans that have no account                       *)

\* Mutant of Liftable: the pid "0" is taken for an account.
LiftableAny == Account \cup {row[b].pid : b \in Ban}

\* The accounts that were selected, or that the selected bans are about.
Liftable == Account \cup ({row[b].pid : b \in Ban} \ {NoPid})

BeginLift(s, p) == p \in Liftable /\ Begin(s, "lifting", p, {}, {}, FALSE)

LiftRows(s) ==
  /\ At(s, "lifting")
  /\ Lift(Active(who[s]))
  /\ Goto(s, "checking")
  /\ UNCHANGED <<flag, excuse>>

\* Mutant of StillBanned: the bans that were lifted count.
StillBannedEver(p) == \E b \in Ban : row[b].pid = p

\* AccountBan.objects.filter(pid=str(pid), active=True).exists()
StillBanned(p) == Active(p) # {}

CheckLifted(s) ==
  /\ At(s, "checking")
  /\ IF StillBanned(who[s]) THEN End(s) ELSE Goto(s, "activating")
  /\ UNCHANGED <<flag, row, excuse>>

Activate(s) ==
  /\ At(s, "activating")
  /\ SetFlag(who[s], TRUE)
  /\ Settle(s, {}, {"on", "off"})
  /\ End(s)
  /\ UNCHANGED row

\* All bans of the device are lifted, those that switched off an account too.
LiftDevice(d) ==
  LET bs == {b \in Ban : row[b].active /\ row[b].device = d} IN
  /\ \E b \in Ban : row[b].pid = NoPid /\ row[b].device = d
  /\ Lift(bs)
  /\ ExcuseAll({row[b].pid : b \in bs}, {"off"}, {})
  /\ UNCHANGED <<flag, job, crowd>>

\* Mutant of Expire: the account is switched on, whatever else bans it.
ExpireActivates ==
  \E bs \in SUBSET {b \in Ban : row[b].active /\ row[b].timed} :
    /\ bs # {}
    /\ Lift(bs)
    /\ flag' = [p \in Account |-> flag[p] \/ \E b \in bs : row[b].pid = p]
    /\ UNCHANGED <<job, crowd, excuse>>

\* expire_stale_bans, in one UPDATE; the account stays as it is.
Expire ==
  \E bs \in SUBSET {b \in Ban : row[b].active /\ row[b].timed} :
    /\ bs # {}
    /\ Lift(bs)
    /\ ExcuseAll({row[b].pid : b \in bs}, {"off"}, {})
    /\ UNCHANGED <<flag, job, crowd>>

-----------------------------------------------------------------------------
(* The account pages *)

\* activate_accounts, deactivate_accounts.
Switch(p, v) ==
  /\ SetFlag(p, v)
  /\ SettleNow(p, {IF v THEN "on" ELSE "off"}, {IF v THEN "off" ELSE "on"})
  /\ UNCHANGED row

\* resend_verification_email and reset_password_and_email read the rows of all
\* selected accounts first, and the page of an account shows its row.
ReadAccount(s, p) == Begin(s, "saving", p, {}, {}, flag[p])

\* The whole row is saved: with flag_active as it was read, however many mails
\* ago, or as the staff changed it on the page.
SaveAccount(s, v) ==
  /\ At(s, "saving")
  /\ SetFlag(who[s], v)
  /\ IF v = seen[s] THEN UNCHANGED excuse
     ELSE Settle(s, {IF v THEN "on" ELSE "off"}, {IF v THEN "off" ELSE "on"})
  /\ End(s)
  /\ UNCHANGED row

\* The page of a ban.
OpenBan(s, b) ==
  /\ row[b] # NoBan
  /\ Begin(s, "ban", row[b].pid, {}, {b}, row[b].active)

\* super().save_model: the account is not touched.
SaveBan(s, v) ==
  /\ At(s, "ban")
  /\ \E b \in page[s] :
       /\ row' = [row EXCEPT ![b].active = v]
       /\ IF v = row[b].active THEN UNCHANGED excuse
          ELSE Excuse(who[s], {IF v THEN "on" ELSE "off"}, {})
  /\ End(s)
  /\ UNCHANGED flag

-----------------------------------------------------------------------------

\* The job dies: an exception of the database, or the server stops.
Die(s) ==
  /\ Crash
  /\ ~At(s, "idle")
  /\ IF pc[s] \in {"creating", "deactivating"} THEN Excuse(who[s], {"on"}, {})
     ELSE IF pc[s] \in {"checking", "activating"} THEN Excuse(who[s], {"off"}, {})
     ELSE UNCHANGED excuse
  /\ End(s)
  /\ UNCHANGED <<flag, row>>

Step(s) ==
  \/ CreateBan(s) \/ Deactivate(s) \/ BanRaw(s)
  \/ LiftRows(s) \/ CheckLifted(s) \/ Activate(s)
  \/ \E v \in BOOLEAN : SaveAccount(s, v) \/ SaveBan(s, v)
  \/ Die(s)

BeginAny(s) ==
  \/ \E p \in Account : BeginBan(s, p) \/ ReadAccount(s, p)
  \/ \E p \in Account \cup {NoPid} : BeginLift(s, p)
  \/ \E p \in Account \cup {NoPid}, d \in Device : CheckRaw(s, p, d)
  \/ \E b \in Ban : OpenBan(s, b)

Next ==
  \/ \E s \in Staff : BeginAny(s) \/ Step(s)
  \/ \E p \in Account : BanByForm(p) \/ \E v \in BOOLEAN : Switch(p, v)
  \/ \E d \in Device : LiftDevice(d)
  \/ Expire

Spec == Init /\ [][Next]_vars

-----------------------------------------------------------------------------
(* Properties *)

Statement == {"idle", "creating", "deactivating", "raw", "lifting", "checking", "activating",
              "saving", "ban"}

\* Type correctness of the two tables and the jobs.
TypeOK ==
  /\ flag \in [Account -> BOOLEAN]
  /\ row \in [Ban -> [pid : Account \cup {NoPid}, device : Device \cup {NoDevice},
                      timed : BOOLEAN, active : BOOLEAN]]
  /\ pc \in [Staff -> Statement]
  /\ who \in [Staff -> Account \cup {NoPid}]
  /\ \A s \in Staff : who[s] = NoPid => pc[s] \in {"idle", "raw", "ban"}
  /\ left \in [Staff -> SUBSET (Device \cup {NoDevice})]
  /\ page \in [Staff -> SUBSET Ban]
  /\ seen \in [Staff -> BOOLEAN]
  /\ crowd \subseteq Staff
  /\ excuse \in [Account -> SUBSET {"on", "off"}]

\* However jobs overlap, die and write back what they read, an account with an
\* active ban is off once the last one to ban it ran alone to its end: only
\* jobs that overlapped or died, and the staff's own hand on the account or on
\* the ban, leave it on, until it is banned once more.
BannedIsOff ==
  \A p \in Account : ~Busy(p) /\ Active(p) # {} /\ flag[p] => "on" \in excuse[p]

\* An account without a ban is on once the last job to lift its bans ran alone
\* to its end, unless the staff switched it off by hand, or its ban expired or
\* was lifted through its device or through its page: lift_bans alone switches
\* an account on.
OffForAReason ==
  \A p \in Account : ~Busy(p) /\ Active(p) = {} /\ ~flag[p] => "off" \in excuse[p]
=============================================================================
