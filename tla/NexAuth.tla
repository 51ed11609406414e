-------------------------------- MODULE NexAuth --------------------------------
(***************************************************************************)
(* From an account to a session: the auth server answers Login and         *)
(* RequestTicket with a Kerberos ticket under the password of the NEX      *)
(* account (protocols/auth.py, db.py), the secure server takes the ticket  *)
(* in a CONNECT (nex/crypto.py, nex/server.py), and Register keeps one     *)
(* row per player in the sessions table (protocols/secure.py, db.py).      *)
(*                                                                         *)
(* The handlers are coroutines whose database calls run in threads: every  *)
(* call is a step of its own.  The account server, which is not in this    *)
(* repository, writes the same nex_accounts table at any time.             *)
(*                                                                         *)
(* Time is relative, as in PrudpConnections: a ticket has an age, which    *)
(* saturates once it is too old to be taken.                               *)
(***************************************************************************)
EXTENDS Naturals

CONSTANTS Addr,      \* client addresses
          Pid,       \* principal ids
          Nobody,    \* the pid of a connection without a ticket
          Password,  \* the passwords of accounts
          Default,   \* "nexpassword", which create_nex_account writes
          Blank,     \* the password column is NULL
          NoRow,     \* the account is not on file
          MaxAge,    \* how old a ticket is taken: 120 seconds
          MaxTries,  \* bound: ticket requests in a behaviour
          MaxRegs,   \* bound: registrations in a behaviour
          Limits     \* bounds on both and on the account server's writes,
                     \* one of which a behaviour keeps

ASSUME ValueAssumption == /\ Nobody \notin Pid
                          /\ Default \in Password
                          /\ Blank \notin Password
                          /\ NoRow \notin Password \cup {Blank}
ASSUME BoundAssumption == /\ MaxAge \in Nat
                          /\ MaxTries \in Nat
                          /\ MaxRegs \in Nat
                          /\ Limits \subseteq [tries : Nat, regs : Nat,
                                         writes : Nat]

VARIABLES file,    \* nex_accounts: pid -> password, Blank or NoRow
          off,     \* history: time since a password was on file for a pid
          at,      \* where each Login or RequestTicket is
          who,     \* the pid it names
          key,     \* the password it goes by
          held,    \* history: what was on file for that pid meanwhile
          erred,   \* history: a database call of it failed
          tickets, \* the tickets issued, under the key of the server
          conns,   \* address -> Connection.pid on the secure server
          lapse,   \* history: how long before its CONNECT a connection's
                   \* password was last on file
          doing,   \* where each Register is
          rpid,    \* the pid it is made for
          before,  \* history: the registrations done when it began
          sess,    \* sessions: pid -> the Register whose addresses it has, 0
                   \* if there is no row
          limit,   \* the bounds of this behaviour
          writes   \* how often the account server wrote

fileVars == <<file, off>>
tryVars  == <<at, who, key, erred>>
connVars == <<conns, lapse>>
regVars  == <<doing, rpid, before>>
boundVars == <<limit, writes>>
vars == <<file, off, at, who, key, held, erred, tickets, conns, lapse,
          doing, rpid, before, sess, limit, writes>>

Try == 1..MaxTries
Reg == 1..MaxRegs
Value == Password \cup {Blank, NoRow}
Age == 0..(MaxAge + 1)

Older(n) == IF n <= MaxAge THEN n + 1 ELSE n

InProgress == {"lookup", "create", "make"}
Registering == {"exists", "add", "update"}

\* Any accounts on file, the server just started.
Init ==
  /\ file \in [Pid -> Value]
  /\ off = [p \in Pid |-> [v \in Password |-> IF v = file[p] THEN 0
                                            ELSE MaxAge + 1]]
  /\ at = [r \in Try |-> "none"]
  /\ who = [r \in Try |-> Nobody]
  /\ key = [r \in Try |-> Default]
  /\ held = [r \in Try |-> {}]
  /\ erred = [r \in Try |-> FALSE]
  /\ tickets = {}
  /\ conns = [a \in Addr |-> Nobody]
  /\ lapse = [a \in Addr |-> 0]
  /\ doing = [n \in Reg |-> "none"]
  /\ rpid = [n \in Reg |-> Nobody]
  /\ before = [n \in Reg |-> {}]
  /\ sess = [p \in Pid |-> 0]
  /\ limit \in Limits
  /\ writes = 0

-----------------------------------------------------------------------------
(* The nex_accounts table *)

\* The row of p is now v: the requests in progress for p saw it change.
Write(p, v) ==
  /\ file' = [file EXCEPT ![p] = v]
  /\ off' = [off EXCEPT ![p] = [w \in Password |-> IF w = v THEN 0 ELSE @[w]]]
  /\ held' = [r \in Try |-> IF at[r] \in InProgress /\ who[r] = p
                            THEN held[r] \cup {v} ELSE held[r]]

\* The account server creates p, gives it another password, or removes it.
AccountServer(p, v) ==
  /\ writes < limit.writes
  /\ writes' = writes + 1
  /\ Write(p, v)
  /\ UNCHANGED <<tryVars, tickets, connVars, regVars, sess, limit>>

-----------------------------------------------------------------------------
(* Login, LoginEx and RequestTicket.  They differ in how the pid is named   *)
(* and in what else the answer says; a user name that is not a number is    *)
(* refused before anything is read.                                         *)

Ask(r, p) ==
  /\ at[r] = "none" /\ r <= limit.tries
  /\ \A s \in Try : s < r => at[s] # "none"
  /\ at' = [at EXCEPT ![r] = "lookup"]
  /\ who' = [who EXCEPT ![r] = p]
  /\ held' = [held EXCEPT ![r] = {file[p]}]
  /\ UNCHANGED <<fileVars, key, erred, tickets, connVars, regVars, sess,
                boundVars>>

\* Mutant of Lookup: a blank password is taken for the default one.
LookupOrDefault(r) ==
  /\ at[r] = "lookup"
  /\ \/ /\ file[who[r]] # NoRow
        /\ at' = [at EXCEPT ![r] = "make"]
        /\ key' = [key EXCEPT ![r] = IF file[who[r]] = Blank THEN Default
                                     ELSE file[who[r]]]
     \/ /\ file[who[r]] = NoRow
        /\ at' = [at EXCEPT ![r] = "create"]
        /\ key' = key
  /\ UNCHANGED <<fileVars, who, held, erred, tickets, connVars, regVars, sess,
                boundVars>>

\* get_nex_account_by_pid
Lookup(r) ==
  /\ at[r] = "lookup"
  /\ \/ /\ file[who[r]] # NoRow
        /\ at' = [at EXCEPT ![r] = "make"]
        /\ key' = [key EXCEPT ![r] = file[who[r]]]
     \/ /\ file[who[r]] = NoRow
        /\ at' = [at EXCEPT ![r] = "create"]
        /\ key' = key
  /\ UNCHANGED <<fileVars, who, held, erred, tickets, connVars, regVars, sess,
                boundVars>>

\* Its query raises: the same answer as for an account that is not there.
LookupFails(r) ==
  /\ at[r] = "lookup"
  /\ at' = [at EXCEPT ![r] = "create"]
  /\ erred' = [erred EXCEPT ![r] = TRUE]
  /\ UNCHANGED <<fileVars, who, key, held, tickets, connVars, regVars, sess,
                boundVars>>

\* INSERT IGNORE: a row that has come in the meantime stays.
Insert(p) ==
  \/ file[p] = NoRow /\ Write(p, Default)
  \/ file[p] # NoRow /\ UNCHANGED <<fileVars, held>>

\* create_nex_account: it answers with the password it meant to write.
Create(r) ==
  /\ at[r] = "create"
  /\ Insert(who[r])
  /\ at' = [at EXCEPT ![r] = "make"]
  /\ key' = [key EXCEPT ![r] = Default]
  /\ UNCHANGED <<who, erred, tickets, connVars, regVars, sess, boundVars>>

\* The insert raises, with or without effect, and is answered all the same.
CreateFails(r) ==
  /\ at[r] = "create"
  /\ \/ Insert(who[r])
     \/ UNCHANGED <<fileVars, held>>
  /\ at' = [at EXCEPT ![r] = "make"]
  /\ key' = [key EXCEPT ![r] = Default]
  /\ erred' = [erred EXCEPT ![r] = TRUE]
  /\ UNCHANGED <<who, tickets, connVars, regVars, sess, boundVars>>

\* Mutant of Issue: a blank password is hashed like any other.
IssueBlank(r) ==
  /\ at[r] = "make"
  /\ at' = [at EXCEPT ![r] = "done"]
  /\ tickets' = tickets \cup
       {[pid |-> who[r], key |-> key[r], age |-> 0, fresh |-> file[who[r]] = key[r]]}
  /\ UNCHANGED <<fileVars, who, key, held, erred, connVars, regVars, sess,
                boundVars>>

\* _make_ticket, once the coroutine is resumed; a blank password raises there.
Issue(r) ==
  /\ at[r] = "make"
  /\ \/ /\ key[r] # Blank
        /\ at' = [at EXCEPT ![r] = "done"]
        /\ tickets' = tickets \cup
             {[pid |-> who[r], key |-> key[r], age |-> 0,
               fresh |-> file[who[r]] = key[r]]}
     \/ /\ key[r] = Blank
        /\ at' = [at EXCEPT ![r] = "failed"]
        /\ tickets' = tickets
  /\ UNCHANGED <<fileVars, who, key, held, erred, connVars, regVars, sess,
                boundVars>>

-----------------------------------------------------------------------------
(* CONNECT on the secure server *)

\* Mutant of Taken: one unit too late.
TakenLate(t) == t.age <= MaxAge + 1

Taken(t) == t.age <= MaxAge

\* A CONNECT from a with ticket t: taken, or the connection is given up.
\* A connection that has a pid gets the one of the new ticket.
Connect(a, t) ==
  /\ \/ /\ Taken(t)
        /\ conns' = [conns EXCEPT ![a] = t.pid]
        /\ lapse' = [lapse EXCEPT ![a] = IF t.fresh THEN off[t.pid][t.key]
                                           ELSE 0]
     \/ /\ ~Taken(t)
        /\ conns' = [conns EXCEPT ![a] = Nobody]
        /\ lapse' = [lapse EXCEPT ![a] = 0]
  /\ UNCHANGED <<fileVars, tryVars, held, tickets, regVars, sess, boundVars>>

\* A CONNECT without a ticket, with one that does not decrypt or that names
\* another pid than its request; SYN, DISCONNECT and idleness.
Drop(a) ==
  /\ conns' = [conns EXCEPT ![a] = Nobody]
  /\ lapse' = [lapse EXCEPT ![a] = 0]
  /\ UNCHANGED <<fileVars, tryVars, held, tickets, regVars, sess, boundVars>>

-----------------------------------------------------------------------------
(* Register and RegisterEx *)

Register(n, a) ==
  /\ conns[a] # Nobody
  /\ doing[n] = "none" /\ n <= limit.regs
  /\ \A m \in Reg : m < n => doing[m] # "none"
  /\ doing' = [doing EXCEPT ![n] = "exists"]
  /\ rpid' = [rpid EXCEPT ![n] = conns[a]]
  /\ before' = [before EXCEPT ![n] = {m \in Reg : doing[m] = "done"}]
  /\ UNCHANGED <<fileVars, tryVars, held, tickets, connVars, sess, boundVars>>

\* session_exists
Exists(n) ==
  /\ doing[n] = "exists"
  /\ \/ sess[rpid[n]] # 0 /\ doing' = [doing EXCEPT ![n] = "update"]
     \/ sess[rpid[n]] = 0 /\ doing' = [doing EXCEPT ![n] = "add"]
  /\ UNCHANGED <<fileVars, tryVars, held, tickets, connVars, rpid, before, sess,
                boundVars>>

\* INSERT OR REPLACE
AddSession(n) ==
  /\ doing[n] = "add"
  /\ doing' = [doing EXCEPT ![n] = "done"]
  /\ sess' = [sess EXCEPT ![rpid[n]] = n]
  /\ UNCHANGED <<fileVars, tryVars, held, tickets, connVars, rpid, before,
                boundVars>>

\* Mutant of UpdateSession: a session that exists is good enough.
UpdateSessionKeeps(n) ==
  /\ doing[n] = "update"
  /\ doing' = [doing EXCEPT ![n] = "done"]
  /\ UNCHANGED <<fileVars, tryVars, held, tickets, connVars, rpid, before, sess,
                boundVars>>

\* UPDATE: it changes nothing when there is no row.
UpdateSession(n) ==
  /\ doing[n] = "update"
  /\ doing' = [doing EXCEPT ![n] = "done"]
  /\ \/ sess[rpid[n]] # 0 /\ sess' = [sess EXCEPT ![rpid[n]] = n]
     \/ sess[rpid[n]] = 0 /\ sess' = sess
  /\ UNCHANGED <<fileVars, tryVars, held, tickets, connVars, rpid, before,
                boundVars>>

\* A query raises, and the console gets an error.
RegisterFails(n) ==
  /\ doing[n] \in Registering
  /\ doing' = [doing EXCEPT ![n] = "failed"]
  /\ UNCHANGED <<fileVars, tryVars, held, tickets, connVars, rpid, before, sess,
                boundVars>>

-----------------------------------------------------------------------------
(* Time, and a restart of the process: both servers are in it.  The key of  *)
(* tickets comes from the configuration, so that those issued stay good;    *)
(* init_sqlite empties the sessions table.                                  *)

Tick ==
  /\ off' = [p \in Pid |-> [v \in Password |-> IF v = file[p] THEN 0
                                               ELSE Older(off[p][v])]]
  /\ tickets' = {[t EXCEPT !.age = Older(@)] : t \in tickets}
  /\ UNCHANGED <<file, tryVars, held, connVars, regVars, sess, boundVars>>

Restart ==
  /\ at' = [r \in Try |-> IF at[r] \in InProgress THEN "failed" ELSE at[r]]
  /\ conns' = [a \in Addr |-> Nobody]
  /\ lapse' = [a \in Addr |-> 0]
  /\ doing' = [n \in Reg |-> IF doing[n] = "none" THEN "none" ELSE "failed"]
  /\ sess' = [p \in Pid |-> 0]
  /\ UNCHANGED <<fileVars, who, key, held, erred, tickets, rpid, before,
                boundVars>>

Next ==
  \/ \E p \in Pid, v \in Value : AccountServer(p, v)
  \/ \E r \in Try, p \in Pid : Ask(r, p)
  \/ \E r \in Try : \/ Lookup(r) \/ LookupFails(r)
                    \/ Create(r) \/ CreateFails(r) \/ Issue(r)
  \/ \E a \in Addr, t \in tickets : Connect(a, t)
  \/ \E a \in Addr : Drop(a)
  \/ \E n \in Reg, a \in Addr : Register(n, a)
  \/ \E n \in Reg : \/ Exists(n) \/ AddSession(n)
                    \/ UpdateSession(n) \/ RegisterFails(n)
  \/ Tick
  \/ Restart

Spec == Init /\ [][Next]_vars

-----------------------------------------------------------------------------
(* Properties *)

TicketType == [pid : Pid, key : Password, age : Age, fresh : BOOLEAN]

\* Every variable has its type: no ticket is made under a blank password.
TypeOK ==
  /\ file \in [Pid -> Value]
  /\ off \in [Pid -> [Password -> Age]]
  /\ at \in [Try -> {"none", "done", "failed"} \cup InProgress]
  /\ who \in [Try -> Pid \cup {Nobody}]
  /\ key \in [Try -> Password \cup {Blank}]
  /\ held \in [Try -> SUBSET Value]
  /\ erred \in [Try -> BOOLEAN]
  /\ tickets \subseteq TicketType
  /\ conns \in [Addr -> Pid \cup {Nobody}]
  /\ lapse \in [Addr -> Age]
  /\ doing \in [Reg -> {"none", "done", "failed"} \cup Registering]
  /\ rpid \in [Reg -> Pid \cup {Nobody}]
  /\ before \in [Reg -> SUBSET Reg]
  /\ sess \in [Pid -> 0..MaxRegs]
  /\ limit \in Limits
  /\ writes \in Nat

\* A ticket is under a password that was on file while it was asked for, so
\* that the console can open it.  Else it is under the default one, and a
\* database call of the request failed (auth.py:61, db.py:89) or the account
\* server filed the account between its look-up and its insert (db.py:102).
OpensWithAccount ==
  \A r \in Try :
    at[r] = "done" =>
      \/ key[r] \in held[r]
      \/ /\ key[r] = Default
         /\ \/ erred[r]
            \/ NoRow \in held[r] /\ held[r] # {NoRow}

\* A password that was replaced stops admitting players: no CONNECT is
\* taken on a ticket whose password was on file when it was issued and has
\* been off file for longer than a ticket lives (crypto.py:99).
PasswordLapses == \A a \in Addr : lapse[a] <= MaxAge

\* A registration that was answered since the server started has left a row
\* of that player, and never the row of a registration that had been
\* answered before it began: however Register calls overlap between
\* session_exists and the write (secure.py:67), the later addresses win.
LatestRegistration ==
  \A n \in Reg :
    doing[n] = "done" => /\ sess[rpid[n]] # 0
                         /\ rpid[sess[rpid[n]]] = rpid[n]
                         /\ sess[rpid[n]] \notin before[n]
=============================================================================
