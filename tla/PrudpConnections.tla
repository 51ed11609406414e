--------------------------- MODULE PrudpConnections ---------------------------
(***************************************************************************)
(* The connection table of one PRUDPServer (nex/server.py): which          *)
(* Connection object answers for which client address, how SYN, CONNECT,   *)
(* DISCONNECT, an address change behind a NAT and idleness change that,    *)
(* and the asyncio tasks that outlive a packet: one _ping_loop per         *)
(* accepted CONNECT and one _dispatch per accepted request.                *)
(*                                                                         *)
(* Connection objects are numbered in order of creation, 0 is "none".      *)
(* Time is relative: a connection has an age (time since last_ack, which   *)
(* saturates one beyond what a watched connection can reach) and a         *)
(* sleeping loop has the time left of its sleep.                           *)
(***************************************************************************)
EXTENDS Naturals

CONSTANTS Addr,          \* client addresses: an (ip, port) pair each
          Host,          \* [Addr -> the ip of that address]
          Pid,           \* principal ids a ticket can name
          NoPid,         \* Connection.pid before a ticket was accepted
          SessionId,     \* the values of secrets.randbits(8) that are drawn
          Secure,        \* TRUE: server_key is set; FALSE: the auth server
          PingInterval,  \* PING_INTERVAL
          IdleTimeout,   \* CONNECTION_IDLE_TIMEOUT
          MaxConn,       \* bound: Connection objects created in a behaviour
          MaxLoops       \* bound: CONNECTs accepted per Connection object;
                         \* 1 says no CONNECT is ever retransmitted

ASSUME TimerAssumption == /\ PingInterval \in Nat \ {0}
                          /\ IdleTimeout \in Nat
                          /\ PingInterval <= IdleTimeout
ASSUME BoundAssumption == MaxConn \in Nat /\ MaxLoops \in Nat \ {0}
ASSUME NameAssumption  == /\ Addr # {}
                          /\ NoPid \notin Pid
                          /\ SessionId \subseteq Nat
                          /\ Secure \in BOOLEAN

VARIABLES conns,   \* PRUDPServer.conns: address -> Connection, 0 if absent
          nconn,   \* how many Connection objects were created
          addr,    \* Connection.addr
          sid,     \* Connection.session_id
          state,   \* Connection.state
          pid,     \* Connection.pid
          age,     \* time since Connection.last_ack
          pc,      \* where each ping loop is
          timer,   \* what is left of its sleep
          tasks    \* _dispatch tasks scheduled and not yet started; with each, a
                   \* history of its connection's players: who it was when the
                   \* request arrived and who was admitted on it since

objVars == <<nconn, addr, sid, state, pid, age>>
loopVars == <<pc, timer>>
vars == <<conns, nconn, addr, sid, state, pid, age, pc, timer, tasks>>

Conn == 1..MaxConn
Loop == Conn \X (1..MaxLoops)
Owner(l) == l[1]

\* The pids parse_server_ticket can return; the auth server takes no ticket.
Ticket == IF Secure THEN Pid ELSE {NoPid}

Init ==
  /\ conns = [a \in Addr |-> 0]
  /\ nconn = 0
  /\ addr \in {[c \in Conn |-> a] : a \in Addr}
  /\ sid = [c \in Conn |-> 0]
  /\ state = [c \in Conn |-> "INIT"]
  /\ pid = [c \in Conn |-> NoPid]
  /\ age = [c \in Conn |-> 0]
  /\ pc = [l \in Loop |-> "none"]
  /\ timer = [l \in Loop |-> 0]
  /\ tasks = {}

-----------------------------------------------------------------------------
(* _route *)

\* The addresses under which a packet from a with header session id s finds
\* its connection: a itself, or else an address of the same host whose
\* connection has that session id.  The code takes the first in dict order;
\* here any of them may be it.
Found(a, s) ==
  IF conns[a] # 0
  THEN {a}
  ELSE {b \in Addr : /\ s # 0
                     /\ conns[b] # 0
                     /\ Host[b] = Host[a]
                     /\ sid[conns[b]] = s}

\* The table once the connection found under b answers for a.
Remapped(a, b) == [conns EXCEPT ![b] = 0, ![a] = conns[b]]

\* Mutant of Heard: the entry moves, conn.addr is forgotten.
HeardUnmoved(a, c) ==
  /\ age' = [age EXCEPT ![c] = 0]
  /\ addr' = addr

\* Connection c was heard from at a.
Heard(a, c) ==
  /\ age' = [age EXCEPT ![c] = 0]
  /\ addr' = [addr EXCEPT ![c] = a]

\* A packet that only keeps the connection alive: PING, an ACK, an aggregate
\* ACK, or a DATA packet that starts no request (duplicate, empty, undecodable,
\* or before CONNECT).
KeepAlive(a, s) ==
  \E b \in Found(a, s) :
    /\ conns' = Remapped(a, b)
    /\ Heard(a, conns[b])
    /\ UNCHANGED <<nconn, sid, state, pid, loopVars, tasks>>

\* A DATA packet whose request is decoded: its _dispatch is scheduled.
Data(a, s) ==
  \E b \in Found(a, s) :
    /\ state[conns[b]] = "CONNECTED"
    /\ conns' = Remapped(a, b)
    /\ Heard(a, conns[b])
    /\ tasks' = tasks \cup {[conn |-> conns[b], as |-> {pid[conns[b]]}]}
    /\ UNCHANGED <<nconn, sid, state, pid, loopVars>>

Disconnect(a, s) ==
  \E b \in Found(a, s) :
    /\ conns' = [Remapped(a, b) EXCEPT ![a] = 0]
    /\ Heard(a, conns[b])
    /\ UNCHANGED <<nconn, sid, state, pid, loopVars, tasks>>

-----------------------------------------------------------------------------
(* _syn and _connect *)

\* Mutant of NewConnection: the session id is drawn from more than 8 bits.
NewConnectionWideSid(a) ==
  /\ nconn < MaxConn
  /\ nconn' = nconn + 1
  /\ conns' = [conns EXCEPT ![a] = nconn + 1]
  /\ addr' = [addr EXCEPT ![nconn + 1] = a]
  /\ \E s \in SessionId : sid' = [sid EXCEPT ![nconn + 1] = s + 256]

\* Connection(addr), entered in the table for a.
NewConnection(a) ==
  /\ nconn < MaxConn
  /\ nconn' = nconn + 1
  /\ conns' = [conns EXCEPT ![a] = nconn + 1]
  /\ addr' = [addr EXCEPT ![nconn + 1] = a]
  /\ \E s \in SessionId : sid' = [sid EXCEPT ![nconn + 1] = s]

\* _route refreshes the connection that _syn then replaces.
Syn(a) ==
  /\ NewConnection(a)
  /\ age' = [c \in Conn |-> IF c = conns[a] THEN 0 ELSE age[c]]
  /\ UNCHANGED <<state, pid, loopVars, tasks>>

\* One more ping loop of c is scheduled.
LoopScheduled(c) ==
  \E l \in Loop : /\ Owner(l) = c
                  /\ pc[l] = "none"
                  /\ pc' = [pc EXCEPT ![l] = "ready"]

\* _connect accepts: c is CONNECTED as p.  The tasks of c are not told, they
\* read the new conn.pid when they start.
Accept(c, p) ==
  /\ state' = [state EXCEPT ![c] = "CONNECTED"]
  /\ pid' = [pid EXCEPT ![c] = p]
  /\ LoopScheduled(c)
  /\ tasks' = {[t EXCEPT !.as = IF t.conn = c THEN @ \cup {p} ELSE @] : t \in tasks}
  /\ UNCHANGED timer

\* A CONNECT accepted for the connection a has, also when that is CONNECTED
\* already: the CONNECT came twice, or it carries another player's ticket.
Connect(a) ==
  /\ conns[a] # 0
  /\ \E p \in Ticket : Accept(conns[a], p)
  /\ age' = [age EXCEPT ![conns[a]] = 0]
  /\ UNCHANGED <<conns, nconn, addr, sid>>

\* A CONNECT accepted from an address that has no connection: it makes one.
ConnectWithoutSyn(a) ==
  /\ conns[a] = 0
  /\ NewConnection(a)
  /\ \E p \in Ticket : Accept(nconn + 1, p)
  /\ UNCHANGED age

\* Mutant of ConnectRefused: conn.pid is assigned before the ticket is checked.
ConnectRefusedLate(a) ==
  /\ Secure
  /\ conns[a] # 0
  /\ conns' = [conns EXCEPT ![a] = 0]
  /\ age' = [age EXCEPT ![conns[a]] = 0]
  /\ \E p \in Pid : pid' = [pid EXCEPT ![conns[a]] = p]
  /\ UNCHANGED <<nconn, addr, sid, state, loopVars, tasks>>

\* A CONNECT with no payload, or with a ticket that does not decrypt, is
\* expired or names another pid: the address loses its connection.
ConnectRefused(a) ==
  /\ Secure
  /\ conns[a] # 0
  /\ conns' = [conns EXCEPT ![a] = 0]
  /\ age' = [age EXCEPT ![conns[a]] = 0]
  /\ UNCHANGED <<nconn, addr, sid, state, pid, loopVars, tasks>>

-----------------------------------------------------------------------------
(* Tasks of the event loop, and time *)

\* _dispatch starts: it reads conn.pid now.
Dispatch(t) ==
  /\ tasks' = tasks \ {t}
  /\ UNCHANGED <<conns, objVars, loopVars>>

\* Mutant of Watching: `is conn' is dropped from the condition.
WatchingAddress(l) == conns[addr[Owner(l)]] # 0

\* The condition of the while loop in _ping_loop.
Watching(l) == conns[addr[Owner(l)]] = Owner(l)

\* The loop tests its condition and sleeps again or returns.
Resume(l) ==
  IF Watching(l)
  THEN /\ pc' = [pc EXCEPT ![l] = "asleep"]
       /\ timer' = [timer EXCEPT ![l] = PingInterval]
  ELSE /\ pc' = [pc EXCEPT ![l] = "done"]
       /\ UNCHANGED timer

LoopStart(l) ==
  /\ pc[l] = "ready"
  /\ Resume(l)
  /\ UNCHANGED <<conns, objVars, tasks>>

Due(l) == pc[l] = "asleep" /\ timer[l] = 0

Idle(c) == age[c] > IdleTimeout

LoopWake(l) ==
  /\ Due(l)
  /\ ~Idle(Owner(l))
  /\ Resume(l)
  /\ UNCHANGED <<conns, objVars, tasks>>

\* Mutant of Evict: the loop ends at the timeout and leaves the entry.
EvictNobody(l) ==
  /\ Due(l)
  /\ Idle(Owner(l))
  /\ pc' = [pc EXCEPT ![l] = "done"]
  /\ UNCHANGED <<conns, objVars, timer, tasks>>

Evict(l) ==
  /\ Due(l)
  /\ Idle(Owner(l))
  /\ conns' = [conns EXCEPT ![addr[Owner(l)]] = 0]
  /\ pc' = [pc EXCEPT ![l] = "done"]
  /\ UNCHANGED <<objVars, timer, tasks>>

\* The silence after which a watched connection is gone.
Patience == IdleTimeout + PingInterval

\* One unit of time.  Tasks that are ready run before time moves on, and a
\* sleep that is over resumes within the unit it ends in.
Tick ==
  /\ tasks = {}
  /\ \A l \in Loop : pc[l] # "ready" /\ ~Due(l)
  /\ age' = [c \in Conn |-> IF c > nconn \/ age[c] > Patience THEN age[c]
                                                        ELSE age[c] + 1]
  /\ timer' = [l \in Loop |->
                 IF pc[l] = "asleep" THEN timer[l] - 1 ELSE timer[l]]
  /\ UNCHANGED <<conns, nconn, addr, sid, state, pid, pc, tasks>>

Packet(a) ==
  \/ Syn(a)
  \/ Connect(a)
  \/ ConnectWithoutSyn(a)
  \/ ConnectRefused(a)
  \/ \E s \in SessionId : KeepAlive(a, s) \/ Data(a, s) \/ Disconnect(a, s)

LoopStep(l) == LoopStart(l) \/ LoopWake(l) \/ Evict(l)

Next ==
  \/ \E a \in Addr : Packet(a)
  \/ \E t \in tasks : Dispatch(t)
  \/ \E l \in Loop : LoopStep(l)
  \/ Tick

Spec == Init /\ [][Next]_vars

\* Time passes without end, however many packets arrive; and with each unit of
\* it the event loop has run what was ready.  Clients owe the server nothing.
FairSpec ==
  /\ Spec
  /\ []<><<Tick>>_vars

-----------------------------------------------------------------------------
(* Properties *)

\* Type correctness of the table, the objects, the loops and the tasks.
TypeOK ==
  /\ nconn \in 0..MaxConn
  /\ conns \in [Addr -> 0..nconn]
  /\ addr \in [Conn -> Addr]
  /\ sid \in [Conn -> SessionId \cup {0}]
  /\ state \in [Conn -> {"INIT", "CONNECTED"}]
  /\ pid \in [Conn -> Pid \cup {NoPid}]
  /\ age \in [Conn -> 0..(Patience + 1)]
  /\ pc \in [Loop -> {"none", "ready", "asleep", "done"}]
  /\ timer \in [Loop -> 0..PingInterval]
  /\ tasks \subseteq [conn : 1..nconn, as : SUBSET (Pid \cup {NoPid})]

\* A connection sits in the table only under the address it believes it has,
\* however often it was moved: replies and evictions go to conn.addr, requests
\* are looked up by the key.
TableConsistent ==
  \A a \in Addr : conns[a] # 0 => addr[conns[a]] = a

\* A request that waits for its task runs as the player who sent it, or as one
\* whose ticket its own connection accepted since (nothing in _connect keeps a
\* connection to one player): never as the player who reconnected from the same
\* address, and never as nobody, whatever SYN, DISCONNECT, refused CONNECT,
\* remap or eviction came in between.
RunsAsAdmitted == \A t \in tasks : pid[t.conn] \in t.as

\* An idle timeout removes nobody but a connection that is itself idle: the
\* loop of a connection that was replaced must not evict its successor, which
\* has taken the same address.  That is the point of `is conn' in _ping_loop;
\* it is not enough for a connection that accepted two CONNECTs.
EvictsOnlyIdle ==
  [][\A l \in Loop : Evict(l) =>
       \A a \in Addr : conns'[a] # conns[a] => Idle(conns[a])]_vars

\* Every connection accepted at most one CONNECT so far.
ConnectsAreSingle ==
  \A k, l \in Loop :
    (Owner(k) = Owner(l) /\ pc[k] # "none" /\ pc[l] # "none") => k = l

\* As long as no connection accepted two CONNECTs, an idle timeout removes
\* nobody but a connection that is itself idle.
SingleEvictsOnlyIdle ==
  [][\A l \in Loop : Evict(l) /\ ConnectsAreSingle =>
       \A a \in Addr : conns'[a] # conns[a] => Idle(conns[a])]_vars

\* No connection that completed CONNECT stays in the table longer than its idle
\* limit and one sleep after it was last heard from: an evicted or replaced
\* connection, a moved one and one whose CONNECT came twice included, the loop
\* that finds it idle is never one sleep behind.
DroppedInTime ==
  \A a \in Addr :
    (conns[a] # 0 /\ state[conns[a]] = "CONNECTED") => age[conns[a]] <= Patience

\* A connected client that goes silent for good does not stay in the table:
\* each connection is infinitely often absent, not connected, or just heard.
SilentIsDropped ==
  \A c \in Conn :
    []<>(\/ state[c] # "CONNECTED"
         \/ \A a \in Addr : conns[a] # c
         \/ age[c] = 0)
=============================================================================
