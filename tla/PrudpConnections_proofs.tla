------------------------ MODULE PrudpConnections_proofs ------------------------
(***************************************************************************)
(* Theorems about PrudpConnections, for every set of addresses, pids and   *)
(* session ids, every pair of timer values and every number of objects.    *)
(***************************************************************************)
EXTENDS PrudpConnections, TLAPS

-----------------------------------------------------------------------------
(* Type correctness *)

\* The bound of the ages is a number of units of time.
LEMMA PatienceType == Patience \in Nat /\ IdleTimeout \in Nat /\ PingInterval \in Nat
  BY TimerAssumption DEF Patience

LEMMA InitType == Init => TypeOK
  <1> SUFFICES ASSUME Init PROVE TypeOK
    OBVIOUS
  <1>1. PICK a \in Addr : addr = [c \in Conn |-> a]
    BY DEF Init
  <1>2. addr \in [Conn -> Addr]
    BY <1>1
  <1> QED
    BY <1>2, PatienceType, BoundAssumption DEF Init, TypeOK

\* What routing a packet from a to the connection under b leaves true.
LEMMA Route ==
  ASSUME TypeOK, NEW a \in Addr, NEW s \in SessionId, NEW b \in Found(a, s)
  PROVE  /\ b \in Addr
         /\ conns[b] # 0
         /\ conns[b] \in 1..nconn
         /\ conns[b] \in Conn
         /\ b # a => conns[a] = 0
         /\ Remapped(a, b) \in [Addr -> 0..nconn]
         /\ \A x \in Addr : Remapped(a, b)[x] =
              IF x = a THEN conns[b] ELSE IF x = b THEN 0 ELSE conns[x]
  <1>1. b \in Addr /\ conns[b] # 0 /\ (b # a => conns[a] = 0)
    BY DEF Found
  <1>2. conns[b] \in 1..nconn /\ conns[b] \in Conn
    BY <1>1, BoundAssumption DEF TypeOK, Conn
  <1>3. Remapped(a, b) \in [Addr -> 0..nconn]
    BY <1>1, <1>2 DEF TypeOK, Remapped
  <1>4. \A x \in Addr : Remapped(a, b)[x] =
              IF x = a THEN conns[b] ELSE IF x = b THEN 0 ELSE conns[x]
    BY <1>1, <1>2 DEF TypeOK, Remapped
  <1> QED
    BY <1>1, <1>2, <1>3, <1>4

\* Hearing from a connection keeps ages and addresses well typed.
LEMMA HeardType ==
  ASSUME TypeOK, NEW a \in Addr, NEW c \in Conn, Heard(a, c)
  PROVE  /\ addr' \in [Conn -> Addr]
         /\ age' \in [Conn -> 0..(Patience + 1)]
  BY PatienceType DEF TypeOK, Heard

\* Hearing from any connection keeps the ages well typed.
LEMMA AgeReset ==
  ASSUME TypeOK, NEW c
  PROVE  [age EXCEPT ![c] = 0] \in [Conn -> 0..(Patience + 1)]
  <1>1. 0 \in 0..(Patience + 1)
    BY PatienceType
  <1>2. age \in [Conn -> 0..(Patience + 1)]
    BY DEF TypeOK
  <1> QED
    BY <1>1, <1>2

\* A new object gets the next number and sits under its address.
LEMMA NewConnectionType ==
  ASSUME TypeOK, NEW a \in Addr, NewConnection(a)
  PROVE  /\ nconn + 1 \in Conn
         /\ nconn' = nconn + 1
         /\ nconn' \in 0..MaxConn
         /\ conns' \in [Addr -> 0..nconn']
         /\ addr' \in [Conn -> Addr]
         /\ sid' \in [Conn -> SessionId \cup {0}]
  <1>1. nconn + 1 \in Conn /\ nconn' \in 0..MaxConn /\ nconn' = nconn + 1
    BY BoundAssumption DEF TypeOK, NewConnection, Conn
  <1> QED
    BY <1>1, BoundAssumption DEF TypeOK, NewConnection

\* A request accepted on c is a well-typed task.
LEMMA TaskType ==
  ASSUME TypeOK, NEW c \in Conn, c \in 1..nconn
  PROVE  tasks \cup {[conn |-> c, as |-> {pid[c]}]}
           \subseteq [conn : 1..nconn, as : SUBSET (Pid \cup {NoPid})]
  BY DEF TypeOK

\* A task after p was admitted on c.
Told(t, c, p) == [t EXCEPT !.as = IF t.conn = c THEN @ \cup {p} ELSE @]

LEMMA ToldTask ==
  ASSUME TypeOK, NEW t \in tasks, NEW c \in Conn, NEW p
  PROVE  /\ Told(t, c, p).conn = t.conn
         /\ t.conn = c => Told(t, c, p).as = t.as \cup {p}
         /\ t.conn # c => Told(t, c, p).as = t.as
  BY DEF TypeOK, Told

LEMMA ToldType ==
  ASSUME TypeOK, NEW c \in Conn, NEW p \in Pid \cup {NoPid}
  PROVE  {Told(t, c, p) : t \in tasks}
           \subseteq [conn : 1..nconn, as : SUBSET (Pid \cup {NoPid})]
  BY DEF TypeOK, Told

LEMMA NextType == TypeOK /\ [Next]_vars => TypeOK'
  <1> SUFFICES ASSUME TypeOK, [Next]_vars PROVE TypeOK'
    OBVIOUS
  <1> USE DEF objVars, loopVars
  <1>1. ASSUME NEW a \in Addr, Syn(a) PROVE TypeOK'
    <2>1. age' \in [Conn -> 0..(Patience + 1)]
      BY <1>1, PatienceType DEF TypeOK, Syn
    <2>2. tasks' \subseteq [conn : 1..nconn', as : SUBSET (Pid \cup {NoPid})]
      BY <1>1, NewConnectionType, BoundAssumption DEF TypeOK, Syn
    <2> QED
      BY <1>1, <2>1, <2>2, NewConnectionType DEF TypeOK, Syn
  <1>2. ASSUME NEW c \in Conn, NEW p \in Ticket, TypeOK, Accept(c, p)
        PROVE  /\ state' \in [Conn -> {"INIT", "CONNECTED"}]
               /\ pid' \in [Conn -> Pid \cup {NoPid}]
               /\ pc' \in [Loop -> {"none", "ready", "asleep", "done"}]
               /\ timer' \in [Loop -> 0..PingInterval]
               /\ tasks' \subseteq [conn : 1..nconn, as : SUBSET (Pid \cup {NoPid})]
    <2>1. p \in Pid \cup {NoPid}
      BY DEF Ticket
    <2>2. tasks' = {Told(t, c, p) : t \in tasks}
      BY <1>2 DEF Accept, Told
    <2>3. tasks' \subseteq [conn : 1..nconn, as : SUBSET (Pid \cup {NoPid})]
      BY <2>1, <2>2, ToldType
    <2> QED
      BY <1>2, <2>1, <2>3 DEF TypeOK, Accept, LoopScheduled
  <1>3. ASSUME NEW a \in Addr, Connect(a) PROVE TypeOK'
    <2>1. conns[a] \in Conn
      BY <1>3, BoundAssumption DEF TypeOK, Conn, Connect
    <2>2. PICK p \in Ticket : Accept(conns[a], p)
      BY <1>3 DEF Connect
    <2>3. age' \in [Conn -> 0..(Patience + 1)]
      BY <1>3, AgeReset DEF Connect
    <2> QED
      BY <1>3, <1>2, <2>1, <2>2, <2>3 DEF TypeOK, Connect
  <1>4. ASSUME NEW a \in Addr, ConnectWithoutSyn(a) PROVE TypeOK'
    <2>1. PICK p \in Ticket : Accept(nconn + 1, p)
      BY <1>4 DEF ConnectWithoutSyn
    <2>2. NewConnection(a)
      BY <1>4 DEF ConnectWithoutSyn
    <2>3. tasks' \subseteq [conn : 1..nconn', as : SUBSET (Pid \cup {NoPid})]
      BY <1>2, <2>1, <2>2, NewConnectionType, BoundAssumption DEF TypeOK
    <2> QED
      BY <1>4, <1>2, <2>1, <2>2, <2>3, NewConnectionType
      DEF TypeOK, ConnectWithoutSyn
  <1>5. ASSUME NEW a \in Addr, ConnectRefused(a) PROVE TypeOK'
    <2>1. conns' \in [Addr -> 0..nconn]
      BY <1>5 DEF TypeOK, ConnectRefused
    <2>2. age' \in [Conn -> 0..(Patience + 1)]
      BY <1>5, AgeReset DEF ConnectRefused
    <2> QED
      BY <1>5, <2>1, <2>2 DEF TypeOK, ConnectRefused
  <1>6. ASSUME NEW a \in Addr, NEW s \in SessionId, KeepAlive(a, s)
        PROVE  TypeOK'
    BY <1>6, Route, HeardType DEF TypeOK, KeepAlive
  <1>7. ASSUME NEW a \in Addr, NEW s \in SessionId, Data(a, s)
        PROVE  TypeOK'
    BY <1>7, Route, HeardType, TaskType DEF TypeOK, Data
  <1>8. ASSUME NEW a \in Addr, NEW s \in SessionId, Disconnect(a, s)
        PROVE  TypeOK'
    BY <1>8, Route, HeardType DEF TypeOK, Disconnect
  <1>9. ASSUME NEW t \in tasks, Dispatch(t) PROVE TypeOK'
    BY <1>9 DEF TypeOK, Dispatch
  <1>10. ASSUME NEW l \in Loop, LoopStep(l) PROVE TypeOK'
    BY <1>10, TimerAssumption
    DEF TypeOK, LoopStep, LoopStart, LoopWake, Evict, Resume
  <1>11. ASSUME Tick PROVE TypeOK'
    <2>1. age' \in [Conn -> 0..(Patience + 1)]
      BY <1>11, PatienceType DEF TypeOK, Tick
    <2>2. timer' \in [Loop -> 0..PingInterval]
      BY <1>11, TimerAssumption DEF TypeOK, Tick, Due
    <2> QED
      BY <1>11, <2>1, <2>2 DEF TypeOK, Tick
  <1>12. CASE UNCHANGED vars
    BY <1>12 DEF TypeOK, vars
  <1> QED
    BY <1>1, <1>3, <1>4, <1>5, <1>6, <1>7, <1>8, <1>9, <1>10, <1>11, <1>12
    DEF Next, Packet

\* Every variable keeps its type in every behaviour of the server.
THEOREM TypeCorrect == Spec => []TypeOK
  BY InitType, NextType, PTL DEF Spec

-----------------------------------------------------------------------------
(* The table, its ping loops and its waiting requests *)

\* An object that was not created yet is as its constructor leaves it.
UnbornInit == \A c \in Conn : c > nconn => state[c] = "INIT"

\* Every connection that completed CONNECT and is still in the table has a
\* ping loop that has not returned, so that its idleness is noticed.
ConnectedIsWatched ==
  \A a \in Addr :
    (conns[a] # 0 /\ state[conns[a]] = "CONNECTED") =>
      \E l \in Loop : Owner(l) = conns[a] /\ pc[l] \in {"ready", "asleep"}

\* The inductive strengthening of the invariants of the table.  A loop that
\* returns has seen its connection gone, which says something of the whole
\* table only because every entry sits under its own address.
TableInv ==
  /\ TableConsistent
  /\ ConnectedIsWatched
  /\ RunsAsAdmitted
  /\ UnbornInit

\* After a packet from a was routed to the connection under b, every entry of
\* the table is an entry of before, and its address is its key.
LEMMA RouteConsistent ==
  ASSUME TypeOK, TableConsistent,
         NEW a \in Addr, NEW s \in SessionId, NEW b \in Found(a, s),
         Heard(a, conns[b]), NEW x \in Addr, Remapped(a, b)[x] # 0
  PROVE  /\ addr'[Remapped(a, b)[x]] = x
         /\ \E y \in Addr : conns[y] = Remapped(a, b)[x]
         /\ Remapped(a, b)[x] \in Conn
  <1>1. CASE x = a
    BY <1>1, Route DEF TypeOK, Heard
  <1>2. CASE x # a
    <2>1. x # b /\ Remapped(a, b)[x] = conns[x]
      BY <1>2, Route
    <2>2. conns[x] # 0 /\ conns[x] \in Conn
      BY <2>1, BoundAssumption DEF TypeOK, Conn
    <2>3. conns[x] # conns[b]
      BY <2>1, <2>2, Route DEF TableConsistent
    <2>4. addr'[conns[x]] = addr[conns[x]]
      BY <2>2, <2>3, Route DEF TypeOK, Heard
    <2> QED
      BY <2>1, <2>2, <2>4 DEF TableConsistent
  <1> QED
    BY <1>1, <1>2

\* Whoever is admitted on c, every request that waits knows its players.
LEMMA AcceptTasks ==
  ASSUME TypeOK, RunsAsAdmitted,
         NEW c \in Conn, NEW p, Accept(c, p)
  PROVE  RunsAsAdmitted'
  <1>1. /\ tasks' = {Told(t, c, p) : t \in tasks}
        /\ pid' = [pid EXCEPT ![c] = p]
    BY DEF Accept, Told
  <1>2. ASSUME NEW u \in tasks'
        PROVE  pid'[u.conn] \in u.as
    <2>1. PICK t \in tasks : u = Told(t, c, p)
      BY <1>1
    <2>2. /\ u.conn = t.conn
          /\ t.conn = c => u.as = t.as \cup {p}
          /\ t.conn # c => u.as = t.as
      BY <2>1, ToldTask
    <2>3. pid[t.conn] \in t.as
      BY DEF RunsAsAdmitted
    <2>4. t.conn = c => pid'[t.conn] = p
      BY <1>1 DEF TypeOK
    <2>5. t.conn # c => pid'[t.conn] = pid[t.conn]
      BY <1>1 DEF TypeOK
    <2> QED
      BY <2>2, <2>3, <2>4, <2>5
  <1> QED
    BY <1>2 DEF RunsAsAdmitted

LEMMA InitTable == Init => TableInv
  BY DEF Init, TableInv, TableConsistent, ConnectedIsWatched, RunsAsAdmitted, UnbornInit

LEMMA NextTable == TypeOK /\ TypeOK' /\ TableInv /\ [Next]_vars => TableInv'
  <1> SUFFICES ASSUME TypeOK, TypeOK', TableInv, [Next]_vars PROVE TableInv'
    OBVIOUS
  <1> USE DEF objVars, loopVars
  <1>0. /\ \A a \in Addr : conns[a] # 0 => conns[a] \in Conn /\ conns[a] \in 1..nconn
        /\ \A t \in tasks : t.conn \in Conn /\ t.conn \in 1..nconn
    <2>1. 1..nconn \subseteq Conn
      BY BoundAssumption DEF TypeOK, Conn
    <2>2. \A t \in tasks : t.conn \in 1..nconn
      BY DEF TypeOK
    <2>3. \A a \in Addr : conns[a] # 0 => conns[a] \in 1..nconn
      BY BoundAssumption DEF TypeOK
    <2> QED
      BY <2>1, <2>2, <2>3
  <1>1. ASSUME NEW a \in Addr, Syn(a) PROVE TableInv'
    <2>1. /\ nconn + 1 \in Conn
          /\ addr' = [addr EXCEPT ![nconn + 1] = a]
          /\ conns' = [conns EXCEPT ![a] = nconn + 1]
          /\ UNCHANGED <<state, pid, pc, tasks>>
      BY <1>1, NewConnectionType DEF Syn, NewConnection
    <2>2. TableConsistent'
      BY <1>0, <2>1 DEF TypeOK, TableInv, TableConsistent
    <2>3. ConnectedIsWatched'
      <3>1. state[nconn + 1] = "INIT"
        BY <2>1 DEF TypeOK, TableInv, UnbornInit
      <3> QED
        BY <1>0, <2>1, <3>1 DEF TypeOK, TableInv, ConnectedIsWatched
    <2>4. RunsAsAdmitted'
      BY <2>1 DEF TableInv, RunsAsAdmitted
    <2>5. UnbornInit'
      BY <1>1, <2>1, BoundAssumption
      DEF TypeOK, TableInv, UnbornInit, Syn, NewConnection, Conn
    <2> QED
      BY <2>2, <2>3, <2>4, <2>5 DEF TableInv
  <1>2. ASSUME NEW a \in Addr, Connect(a) PROVE TableInv'
    <2> DEFINE c == conns[a]
    <2>1. PICK p \in Ticket : Accept(c, p)
      BY <1>2 DEF Connect
    <2>2. c \in Conn /\ c \in 1..nconn
      BY <1>0, <1>2 DEF Connect
    <2>3. PICK l \in Loop : /\ Owner(l) = c
                            /\ pc[l] = "none"
                            /\ pc' = [pc EXCEPT ![l] = "ready"]
      BY <2>1 DEF Accept, LoopScheduled
    <2>4. /\ state' = [state EXCEPT ![c] = "CONNECTED"]
          /\ pid' = [pid EXCEPT ![c] = p]
          /\ UNCHANGED <<conns, nconn, addr>>
      BY <1>2, <2>1 DEF Accept, Connect
    <2> HIDE DEF c
    <2>5. TableConsistent'
      BY <2>4 DEF TableInv, TableConsistent
    <2>6. ConnectedIsWatched'
      BY <1>0, <2>2, <2>3, <2>4 DEF TypeOK, TableInv, ConnectedIsWatched
    <2>7. RunsAsAdmitted'
      BY <2>1, <2>2, AcceptTasks DEF TableInv
    <2>8. UnbornInit'
      BY <2>2, <2>4 DEF TypeOK, TableInv, UnbornInit
    <2> QED
      BY <2>5, <2>6, <2>7, <2>8 DEF TableInv
  <1>3. ASSUME NEW a \in Addr, ConnectWithoutSyn(a) PROVE TableInv'
    <2> DEFINE c == nconn + 1
    <2>1. PICK p \in Ticket : Accept(c, p)
      BY <1>3 DEF ConnectWithoutSyn
    <2>2. c \in Conn /\ c \notin 1..nconn
      BY <1>3, NewConnectionType DEF ConnectWithoutSyn, TypeOK
    <2>3. PICK l \in Loop : /\ Owner(l) = c
                            /\ pc[l] = "none"
                            /\ pc' = [pc EXCEPT ![l] = "ready"]
      BY <2>1 DEF Accept, LoopScheduled
    <2>4. /\ state' = [state EXCEPT ![c] = "CONNECTED"]
          /\ pid' = [pid EXCEPT ![c] = p]
      BY <2>1 DEF Accept
    <2>5. /\ conns' = [conns EXCEPT ![a] = c]
          /\ addr' = [addr EXCEPT ![c] = a]
          /\ nconn' = nconn + 1
      BY <1>3 DEF ConnectWithoutSyn, NewConnection
    <2>6. UnbornInit'
      BY <2>2, <2>4, <2>5, BoundAssumption DEF TypeOK, TableInv, UnbornInit, Conn
    <2> HIDE DEF c
    <2>7. TableConsistent'
      BY <1>0, <2>2, <2>5 DEF TypeOK, TableInv, TableConsistent
    <2>8. ConnectedIsWatched'
      BY <1>0, <2>2, <2>3, <2>4, <2>5 DEF TypeOK, TableInv, ConnectedIsWatched
    <2>9. RunsAsAdmitted'
      BY <2>1, <2>2, AcceptTasks DEF TableInv
    <2> QED
      BY <2>6, <2>7, <2>8, <2>9 DEF TableInv
  <1>4. ASSUME NEW a \in Addr, ConnectRefused(a) PROVE TableInv'
    <2>1. /\ conns' = [conns EXCEPT ![a] = 0]
          /\ UNCHANGED <<nconn, addr, state, pid, pc, tasks>>
      BY <1>4 DEF ConnectRefused
    <2>2. \A x \in Addr : conns'[x] # 0 => conns'[x] = conns[x]
      BY <2>1 DEF TypeOK
    <2>3. TableConsistent' /\ ConnectedIsWatched'
      BY <2>1, <2>2 DEF TableInv, TableConsistent, ConnectedIsWatched
    <2>4. RunsAsAdmitted' /\ UnbornInit'
      BY <2>1 DEF TableInv, RunsAsAdmitted, UnbornInit
    <2> QED
      BY <2>3, <2>4 DEF TableInv
  <1>5. ASSUME NEW a \in Addr, NEW s \in SessionId, NEW b \in Found(a, s),
               Heard(a, conns[b]),
               UNCHANGED <<nconn, state, pid, pc>>,
               \A x \in Addr : conns'[x] # 0 => conns'[x] = Remapped(a, b)[x]
        PROVE  TableConsistent' /\ ConnectedIsWatched' /\ UnbornInit'
    <2>1. TableConsistent'
      BY <1>5, RouteConsistent DEF TableInv, TableConsistent
    <2>2. ASSUME NEW x \in Addr, conns'[x] # 0, state'[conns'[x]] = "CONNECTED"
          PROVE  \E l \in Loop : Owner(l) = conns'[x] /\ pc'[l] \in {"ready", "asleep"}
      <3>1. PICK y \in Addr : conns[y] = conns'[x]
        BY <1>5, <2>2, RouteConsistent DEF TableInv
      <3> QED
        BY <1>5, <2>2, <3>1 DEF TableInv, ConnectedIsWatched
    <2>3. ConnectedIsWatched'
      BY <2>2 DEF ConnectedIsWatched
    <2>4. UnbornInit'
      BY <1>5 DEF TableInv, UnbornInit
    <2> QED
      BY <2>1, <2>3, <2>4
  <1>6. ASSUME NEW a \in Addr, NEW s \in SessionId, KeepAlive(a, s)
        PROVE  TableInv'
    <2>1. PICK b \in Found(a, s) : conns' = Remapped(a, b) /\ Heard(a, conns[b])
      BY <1>6 DEF KeepAlive
    <2>2. UNCHANGED <<nconn, state, pid, pc, tasks>>
      BY <1>6 DEF KeepAlive
    <2>3. RunsAsAdmitted'
      BY <2>2 DEF TableInv, RunsAsAdmitted
    <2> QED
      BY <1>5, <2>1, <2>2, <2>3 DEF TableInv
  <1>7. ASSUME NEW a \in Addr, NEW s \in SessionId, Data(a, s)
        PROVE  TableInv'
    <2>1. PICK b \in Found(a, s) :
            /\ state[conns[b]] = "CONNECTED"
            /\ conns' = Remapped(a, b)
            /\ Heard(a, conns[b])
            /\ tasks' = tasks \cup {[conn |-> conns[b], as |-> {pid[conns[b]]}]}
      BY <1>7 DEF Data
    <2>2. UNCHANGED <<nconn, state, pid, pc>>
      BY <1>7 DEF Data
    <2>3. RunsAsAdmitted'
      BY <2>1, <2>2 DEF TableInv, RunsAsAdmitted
    <2> QED
      BY <1>5, <2>1, <2>2, <2>3 DEF TableInv
  <1>8. ASSUME NEW a \in Addr, NEW s \in SessionId, Disconnect(a, s)
        PROVE  TableInv'
    <2>1. PICK b \in Found(a, s) : /\ conns' = [Remapped(a, b) EXCEPT ![a] = 0]
                                   /\ Heard(a, conns[b])
      BY <1>8 DEF Disconnect
    <2>2. UNCHANGED <<nconn, state, pid, pc, tasks>>
      BY <1>8 DEF Disconnect
    <2>3. \A x \in Addr : conns'[x] # 0 => conns'[x] = Remapped(a, b)[x]
      BY <2>1, Route
    <2>4. RunsAsAdmitted'
      BY <2>2 DEF TableInv, RunsAsAdmitted
    <2> QED
      BY <1>5, <2>1, <2>2, <2>3, <2>4 DEF TableInv
  <1>9. ASSUME NEW t \in tasks, Dispatch(t) PROVE TableInv'
    BY <1>9 DEF Dispatch, TableInv, TableConsistent, ConnectedIsWatched,
                RunsAsAdmitted, UnbornInit
  <1>10. ASSUME NEW l \in Loop, LoopStep(l) PROVE TableInv'
    <2>1. UNCHANGED objVars /\ UNCHANGED tasks
      BY <1>10 DEF LoopStep, LoopStart, LoopWake, Evict
    <2>2. RunsAsAdmitted' /\ UnbornInit'
      BY <2>1 DEF TableInv, RunsAsAdmitted, UnbornInit
    <2>3. CASE Evict(l)
      <3>1. /\ conns' = [conns EXCEPT ![addr[Owner(l)]] = 0]
            /\ pc' = [pc EXCEPT ![l] = "done"]
        BY <2>3 DEF Evict
      <3>2. \A x \in Addr : conns'[x] # 0 => conns'[x] = conns[x] /\ conns[x] # Owner(l)
        BY <3>1 DEF TypeOK, TableInv, TableConsistent
      <3>3. TableConsistent' /\ ConnectedIsWatched'
        BY <2>1, <3>1, <3>2 DEF TypeOK, TableInv, TableConsistent, ConnectedIsWatched
      <3> QED
        BY <2>2, <3>3 DEF TableInv
    <2>4. CASE Resume(l) /\ UNCHANGED conns
      <3>1. \A x \in Addr : conns[x] = Owner(l) /\ conns[x] # 0 => Watching(l)
        BY DEF TableInv, TableConsistent, Watching
      <3>2. /\ Watching(l) => pc' = [pc EXCEPT ![l] = "asleep"]
            /\ ~Watching(l) => pc' = [pc EXCEPT ![l] = "done"]
        BY <2>4 DEF Resume
      <3>3. TableConsistent' /\ ConnectedIsWatched'
        BY <2>1, <2>4, <3>1, <3>2
        DEF TypeOK, TableInv, TableConsistent, ConnectedIsWatched
      <3> QED
        BY <2>2, <3>3 DEF TableInv
    <2> QED
      BY <1>10, <2>3, <2>4 DEF LoopStep, LoopStart, LoopWake
  <1>11. ASSUME Tick PROVE TableInv'
    BY <1>11 DEF Tick, TableInv, TableConsistent, ConnectedIsWatched,
                 RunsAsAdmitted, UnbornInit
  <1>12. CASE UNCHANGED vars
    BY <1>12 DEF vars, TableInv, TableConsistent, ConnectedIsWatched,
                 RunsAsAdmitted, UnbornInit
  <1> QED
    BY <1>1, <1>2, <1>3, <1>4, <1>6, <1>7, <1>8, <1>9, <1>10, <1>11, <1>12
    DEF Next, Packet

\* A connection answers for an address only if that is its own address, a
\* connected one is watched by a ping loop, and a waiting request runs as its
\* sender or as a player its own connection admitted since: whatever packets
\* arrive, NAT moves and CONNECTs as another player included.
THEOREM TableCorrect == Spec => [](TableConsistent /\ ConnectedIsWatched /\ RunsAsAdmitted)
  <1>1. Init => TypeOK /\ TableInv
    BY InitType, InitTable
  <1>2. TypeOK /\ TableInv /\ [Next]_vars => (TypeOK /\ TableInv)'
    BY NextType, NextTable
  <1>3. TableInv => TableConsistent /\ ConnectedIsWatched /\ RunsAsAdmitted
    BY DEF TableInv
  <1> QED
    BY <1>1, <1>2, <1>3, PTL DEF Spec

-----------------------------------------------------------------------------
(* Eviction *)

\* A sleeping loop whose connection left the table wakes before that connection
\* can look idle: whatever removed the entry had just heard from the address.
\* Not so once some connection has two loops: they evict a successor that is not
\* idle, and then the successor's own loop is asleep for too long.
DetachedInv ==
  ConnectsAreSingle =>
    \A l \in Loop : (pc[l] = "asleep" /\ ~Watching(l)) =>
      age[Owner(l)] + timer[l] <= PingInterval

\* No step takes a loop back: an accepted CONNECT stays accepted.
LEMMA StillSingle ==
  ASSUME ConnectsAreSingle',
         \A l \in Loop : pc[l] # "none" => pc'[l] # "none"
  PROVE  ConnectsAreSingle
  BY DEF ConnectsAreSingle

LEMMA LoopsStay ==
  ASSUME TypeOK, [Next]_vars, NEW l \in Loop, pc[l] # "none"
  PROVE  pc'[l] # "none"
  <1> USE DEF objVars, loopVars
  <1>1. ASSUME NEW a \in Addr, Connect(a) PROVE pc'[l] # "none"
    BY <1>1 DEF Connect, Accept, LoopScheduled, TypeOK
  <1>2. ASSUME NEW a \in Addr, ConnectWithoutSyn(a) PROVE pc'[l] # "none"
    BY <1>2 DEF ConnectWithoutSyn, Accept, LoopScheduled, TypeOK
  <1>3. ASSUME NEW a \in Addr, Syn(a) \/ ConnectRefused(a) PROVE pc'[l] # "none"
    BY <1>3 DEF Syn, ConnectRefused
  <1>4. ASSUME NEW a \in Addr, NEW s \in SessionId,
               KeepAlive(a, s) \/ Data(a, s) \/ Disconnect(a, s)
        PROVE  pc'[l] # "none"
    BY <1>4 DEF KeepAlive, Data, Disconnect
  <1>5. ASSUME NEW t \in tasks, Dispatch(t) PROVE pc'[l] # "none"
    BY <1>5 DEF Dispatch
  <1>6. ASSUME NEW k \in Loop, LoopStep(k) PROVE pc'[l] # "none"
    BY <1>6 DEF LoopStep, LoopStart, LoopWake, Evict, Resume, TypeOK
  <1>7. CASE Tick
    BY <1>7 DEF Tick
  <1>8. CASE UNCHANGED vars
    BY <1>8 DEF vars
  <1> QED
    BY <1>1, <1>2, <1>3, <1>4, <1>5, <1>6, <1>7, <1>8 DEF Next, Packet

\* A connection just heard from, or one that was out of the table already and
\* has not aged, satisfies what DetachedInv asks of its loop.
LEMMA StillDetached ==
  ASSUME TypeOK, DetachedInv, NEW l \in Loop, ConnectsAreSingle,
         pc[l] = "asleep", timer'[l] = timer[l],
         \/ age'[Owner(l)] = 0
         \/ age'[Owner(l)] = age[Owner(l)] /\ ~Watching(l)
  PROVE  age'[Owner(l)] + timer'[l] <= PingInterval
  <1>1. timer[l] \in 0..PingInterval
    BY DEF TypeOK
  <1> QED
    BY <1>1, TimerAssumption DEF DetachedInv

LEMMA NextDetached ==
  TypeOK /\ TypeOK' /\ TableInv /\ DetachedInv /\ [Next]_vars => DetachedInv'
  <1> SUFFICES ASSUME TypeOK, TypeOK', TableInv, DetachedInv, [Next]_vars
               PROVE  DetachedInv'
    OBVIOUS
  <1> USE DEF objVars, loopVars
  <1>0. \A l \in Loop : Owner(l) \in Conn
    BY DEF Owner, Loop
  <1>a. ConnectsAreSingle' => ConnectsAreSingle
    BY StillSingle, LoopsStay
  <1>1. ASSUME NEW a \in Addr, NewConnection(a), UNCHANGED <<pc, timer>>,
               \A l \in Loop : pc[l] = "asleep" =>
                 \/ age'[Owner(l)] = 0
                 \/ age'[Owner(l)] = age[Owner(l)] /\ conns[a] # Owner(l)
        PROVE  DetachedInv'
    <2> SUFFICES ASSUME NEW l \in Loop, pc[l] = "asleep", ~Watching(l)',
                        ConnectsAreSingle'
                 PROVE  age'[Owner(l)] + timer'[l] <= PingInterval
      BY <1>1 DEF DetachedInv
    <2>1. nconn + 1 \in Conn
      BY <1>1, NewConnectionType
    <2>2. Owner(l) # nconn + 1
      BY <1>1, <2>1 DEF NewConnection, Watching, TypeOK
    <2>3. conns[a] # Owner(l) => ~Watching(l)
      BY <1>0, <1>1, <2>1, <2>2 DEF NewConnection, Watching, TypeOK
    <2> QED
      BY <1>1, <2>3, <1>a, StillDetached
  <1>2. ASSUME NEW a \in Addr, Syn(a) PROVE DetachedInv'
    BY <1>0, <1>1, <1>2 DEF Syn, TypeOK
  <1>3. ASSUME NEW a \in Addr, Connect(a) \/ ConnectWithoutSyn(a)
        PROVE  DetachedInv'
    <2> SUFFICES ASSUME NEW l \in Loop, pc'[l] = "asleep", ~Watching(l)',
                        ConnectsAreSingle'
                 PROVE  age'[Owner(l)] + timer'[l] <= PingInterval
      BY DEF DetachedInv
    <2>1. PICK m \in Loop : /\ pc' = [pc EXCEPT ![m] = "ready"]
                            /\ timer' = timer
      BY <1>3 DEF Connect, ConnectWithoutSyn, Accept, LoopScheduled
    <2>2. pc[l] = "asleep" /\ timer'[l] = timer[l]
      BY <2>1 DEF TypeOK
    <2>3. CASE Connect(a)
      <3>1. ~Watching(l)
        BY <2>3 DEF Connect, Watching
      <3>2. age'[Owner(l)] = 0 \/ age'[Owner(l)] = age[Owner(l)]
        BY <1>0, <2>3 DEF Connect, TypeOK
      <3> QED
        BY <2>2, <3>1, <3>2, <1>a, StillDetached
    <2>4. CASE ConnectWithoutSyn(a)
      <3>1. nconn + 1 \in Conn
        BY <2>4, NewConnectionType DEF ConnectWithoutSyn
      <3>2. Owner(l) # nconn + 1
        BY <2>4, <3>1 DEF ConnectWithoutSyn, NewConnection, Watching, TypeOK
      <3>3. Owner(l) # 0
        BY <1>0, BoundAssumption DEF Conn
      <3>4. ~Watching(l)
        BY <1>0, <2>4, <3>1, <3>2, <3>3
        DEF ConnectWithoutSyn, NewConnection, Watching, TypeOK
      <3> QED
        BY <2>2, <2>4, <3>4, <1>a, StillDetached DEF ConnectWithoutSyn
    <2> QED
      BY <1>3, <2>3, <2>4
  <1>4. ASSUME NEW a \in Addr, ConnectRefused(a) PROVE DetachedInv'
    <2> SUFFICES ASSUME NEW l \in Loop, pc[l] = "asleep", ~Watching(l)',
                        ConnectsAreSingle'
                 PROVE  age'[Owner(l)] + timer'[l] <= PingInterval
      BY <1>4 DEF DetachedInv, ConnectRefused
    <2>1. timer'[l] = timer[l]
      BY <1>4 DEF ConnectRefused
    <2>2. CASE Owner(l) = conns[a]
      BY <1>0, <1>4, <2>1, <2>2, <1>a, StillDetached DEF ConnectRefused, TypeOK
    <2>3. CASE Owner(l) # conns[a]
      <3>1. ~Watching(l)
        BY <1>4, <2>3 DEF ConnectRefused, Watching, TypeOK
      <3>2. age'[Owner(l)] = age[Owner(l)]
        BY <1>0, <1>4, <2>3 DEF ConnectRefused, TypeOK
      <3> QED
        BY <2>1, <3>1, <3>2, <1>a, StillDetached
    <2> QED
      BY <2>2, <2>3
  <1>5. ASSUME NEW a \in Addr, NEW s \in SessionId, NEW b \in Found(a, s),
               Heard(a, conns[b]), UNCHANGED <<pc, timer>>,
               \A x \in Addr : x # a => conns'[x] = Remapped(a, b)[x]
        PROVE  DetachedInv'
    <2> SUFFICES ASSUME NEW l \in Loop, pc[l] = "asleep", ~Watching(l)',
                        ConnectsAreSingle'
                 PROVE  age'[Owner(l)] + timer'[l] <= PingInterval
      BY <1>5 DEF DetachedInv
    <2>1. timer'[l] = timer[l]
      BY <1>5
    <2>2. CASE Owner(l) = conns[b]
      BY <1>0, <1>5, <2>1, <2>2, <1>a, StillDetached DEF Heard, TypeOK
    <2>3. CASE Owner(l) # conns[b]
      <3>1. addr'[Owner(l)] = addr[Owner(l)] /\ age'[Owner(l)] = age[Owner(l)]
        BY <1>0, <1>5, <2>3 DEF Heard, TypeOK
      <3>2. addr[Owner(l)] \in Addr /\ Owner(l) # 0
        BY <1>0, BoundAssumption DEF TypeOK, Conn
      <3>3. conns[a] # Owner(l)
        BY <2>3, <3>2, Route
      <3>4. ~Watching(l)
        BY <1>5, <2>3, <3>1, <3>2, <3>3, Route DEF Watching
      <3> QED
        BY <2>1, <3>1, <3>4, <1>a, StillDetached
    <2> QED
      BY <2>2, <2>3
  <1>6. ASSUME NEW a \in Addr, NEW s \in SessionId,
               KeepAlive(a, s) \/ Data(a, s) \/ Disconnect(a, s)
        PROVE  DetachedInv'
    <2>1. PICK b \in Found(a, s) :
            /\ Heard(a, conns[b])
            /\ \/ conns' = Remapped(a, b)
               \/ conns' = [Remapped(a, b) EXCEPT ![a] = 0]
      BY <1>6 DEF KeepAlive, Data, Disconnect
    <2>2. \A x \in Addr : x # a => conns'[x] = Remapped(a, b)[x]
      BY <2>1, Route
    <2>3. UNCHANGED <<pc, timer>>
      BY <1>6 DEF KeepAlive, Data, Disconnect
    <2> QED
      BY <1>5, <2>1, <2>2, <2>3
  <1>7. ASSUME NEW t \in tasks, Dispatch(t) PROVE DetachedInv'
    BY <1>7, <1>a DEF Dispatch, DetachedInv, Watching
  <1>8. ASSUME NEW l \in Loop, LoopStep(l) PROVE DetachedInv'
    <2> SUFFICES ASSUME NEW k \in Loop, pc'[k] = "asleep", ~Watching(k)',
                        ConnectsAreSingle'
                 PROVE  age'[Owner(k)] + timer'[k] <= PingInterval
      BY DEF DetachedInv
    <2>1. UNCHANGED objVars
      BY <1>8 DEF LoopStep, LoopStart, LoopWake, Evict
    <2>2. CASE Evict(l)
      <3>1. k # l /\ pc[k] = "asleep" /\ timer'[k] = timer[k]
        BY <2>2 DEF Evict, TypeOK
      <3>2. Owner(k) # Owner(l)
        BY <1>a, <2>2, <3>1 DEF ConnectsAreSingle, Evict, Due
      <3>3. conns' = [conns EXCEPT ![addr[Owner(l)]] = 0]
        BY <2>2 DEF Evict
      <3>4. conns[addr[Owner(k)]] = Owner(k) => k = l \/ ~Watching(l) \/ conns'[addr[Owner(k)]] = Owner(k)
        BY <1>0, <3>2, <3>3 DEF Watching, TypeOK
      <3>5. CASE Watching(l)
        BY <2>1, <3>1, <3>4, <3>5, <1>a, StillDetached DEF Watching
      <3>6. CASE ~Watching(l)
        <4>1. age[Owner(l)] + timer[l] <= PingInterval
          BY <1>a, <2>2, <3>6 DEF DetachedInv, Evict, Due
        <4> QED
          BY <1>0, <2>2, <4>1, TimerAssumption DEF Evict, Due, Idle, TypeOK
      <3> QED
        BY <3>5, <3>6
    <2>3. CASE Resume(l) /\ UNCHANGED conns
      <3>1. ~Watching(k)
        BY <2>1, <2>3 DEF Watching
      <3>2. k # l
        BY <2>3, <3>1 DEF Resume, TypeOK
      <3>3. pc[k] = "asleep" /\ timer'[k] = timer[k]
        BY <2>3, <3>2 DEF Resume, TypeOK
      <3> QED
        BY <2>1, <3>1, <3>3, <1>a, StillDetached
    <2> QED
      BY <1>8, <2>2, <2>3 DEF LoopStep, LoopStart, LoopWake
  <1>9. ASSUME Tick PROVE DetachedInv'
    <2> SUFFICES ASSUME NEW l \in Loop, pc[l] = "asleep", ~Watching(l),
                        ConnectsAreSingle'
                 PROVE  age'[Owner(l)] + timer'[l] <= PingInterval
      BY <1>9 DEF DetachedInv, Tick, Watching
    <2>1. age[Owner(l)] + timer[l] <= PingInterval
      BY <1>a DEF DetachedInv
    <2>2. timer'[l] = timer[l] - 1 /\ timer[l] \in Nat
      BY <1>9, TimerAssumption DEF Tick, TypeOK
    <2>3. age[Owner(l)] \in Nat
      BY <1>0, TimerAssumption DEF TypeOK
    <2>4. age'[Owner(l)] = age[Owner(l)] \/ age'[Owner(l)] = age[Owner(l)] + 1
      BY <1>0, <1>9 DEF Tick
    <2> QED
      BY <2>1, <2>2, <2>3, <2>4, TimerAssumption
  <1>10. CASE UNCHANGED vars
    BY <1>10, <1>a DEF vars, DetachedInv, Watching
  <1> QED
    BY <1>2, <1>3, <1>4, <1>6, <1>7, <1>8, <1>9, <1>10 DEF Next, Packet

\* As long as no connection accepted two CONNECTs, an idle timeout removes only
\* an idle connection: a ping loop cannot evict the successor of its own
\* connection.
THEOREM EvictionCorrect == Spec => SingleEvictsOnlyIdle
  <1> DEFINE Step == \A l \in Loop : Evict(l) /\ ConnectsAreSingle =>
                       \A a \in Addr : conns'[a] # conns[a] => Idle(conns[a])
  <1>1. Init => TypeOK /\ TableInv /\ DetachedInv
    BY InitType, InitTable DEF Init, DetachedInv
  <1>2. TypeOK /\ TableInv /\ DetachedInv /\ [Next]_vars
          => (TypeOK /\ TableInv /\ DetachedInv)'
    BY NextType, NextTable, NextDetached
  <1>3. TypeOK /\ TableInv /\ DetachedInv => Step
    <2> SUFFICES ASSUME TypeOK, TableInv, DetachedInv, NEW l \in Loop, Evict(l),
                        ConnectsAreSingle,
                        NEW a \in Addr, conns'[a] # conns[a]
                 PROVE  Idle(conns[a])
      OBVIOUS
    <2>1. Owner(l) \in Conn
      BY DEF Owner, Loop
    <2>2. Watching(l)
      <3> SUFFICES ASSUME ~Watching(l) PROVE FALSE
        OBVIOUS
      <3>1. age[Owner(l)] + timer[l] <= PingInterval
        BY DEF DetachedInv, Evict, Due
      <3> QED
        BY <2>1, <3>1, TimerAssumption DEF Evict, Due, Idle, TypeOK
    <2>3. a = addr[Owner(l)]
      BY DEF Evict, TypeOK
    <2> QED
      BY <2>2, <2>3 DEF Evict, Watching
  <1>4. TypeOK /\ TableInv /\ DetachedInv /\ [Next]_vars => [Step]_vars
    BY <1>3
  <1> QED
    BY <1>1, <1>2, <1>4, PTL DEF Spec, SingleEvictsOnlyIdle

-----------------------------------------------------------------------------
(* Eviction in time *)

\* A loop of connection c will find it idle before it was silent for too long.
Timed(c) ==
  \E l \in Loop :
    /\ Owner(l) = c
    /\ \/ pc[l] = "ready" /\ age[c] <= IdleTimeout
       \/ pc[l] = "asleep" /\ age[c] + timer[l] <= Patience

\* Connection c completed CONNECT and is in the table.
Listed(c) == state[c] = "CONNECTED" /\ \E a \in Addr : conns[a] = c

\* Every such connection is timed; an object that was not created yet was never
\* silent.
TimedInv ==
  /\ \A c \in Conn : Listed(c) => Timed(c)
  /\ \A c \in Conn : c > nconn => age[c] = 0

LEMMA InitTimed == Init => TimedInv
  <1> SUFFICES ASSUME Init PROVE TimedInv
    OBVIOUS
  <1>1. \A c \in Conn : state[c] = "INIT" /\ age[c] = 0
    BY DEF Init
  <1> QED
    BY <1>1 DEF TimedInv, Listed

\* A connection stays timed while its loops stay where they are and no time
\* passes.
LEMMA StillTimed ==
  ASSUME TypeOK, NEW c \in Conn, Timed(c),
         age'[c] = 0 \/ age'[c] = age[c],
         \A l \in Loop : pc[l] # "none" => pc'[l] = pc[l] /\ timer'[l] = timer[l]
  PROVE  Timed(c)'
  <1>1. age[c] \in Nat /\ IdleTimeout \in Nat /\ Patience \in Nat
    BY PatienceType DEF TypeOK
  <1>2. \A l \in Loop : timer[l] \in Nat /\ timer[l] <= Patience
    BY PatienceType DEF TypeOK, Patience
  <1>3. PICK l \in Loop : /\ Owner(l) = c
                          /\ \/ pc[l] = "ready" /\ age[c] <= IdleTimeout
                             \/ pc[l] = "asleep" /\ age[c] + timer[l] <= Patience
    BY DEF Timed
  <1>4. pc'[l] = pc[l] /\ timer'[l] = timer[l]
    BY <1>3
  <1>5. \/ pc'[l] = "ready" /\ age'[c] <= IdleTimeout
        \/ pc'[l] = "asleep" /\ age'[c] + timer'[l] <= Patience
    BY <1>1, <1>2, <1>3, <1>4
  <1> QED
    BY <1>3, <1>5 DEF Timed

LEMMA NextTimed == TypeOK /\ TypeOK' /\ TableInv /\ TimedInv /\ [Next]_vars => TimedInv'
  <1> SUFFICES ASSUME TypeOK, TypeOK', TableInv, TimedInv, [Next]_vars PROVE TimedInv'
    OBVIOUS
  <1> USE DEF objVars, loopVars
  <1>0. /\ \A l \in Loop : Owner(l) \in Conn
        /\ \A c \in Conn : c \in Nat /\ c # 0
        /\ nconn \in Nat
    BY BoundAssumption DEF Owner, Loop, Conn, TypeOK
  \* What every step but that of a loop and of time has to show.
  <1>1. ASSUME \A c \in Conn : Listed(c)' => Listed(c) \/ Timed(c)',
               \A c \in Conn : age'[c] = 0 \/ age'[c] = age[c],
               nconn' \in Nat, nconn <= nconn',
               \A l \in Loop : pc[l] # "none" => pc'[l] = pc[l] /\ timer'[l] = timer[l]
        PROVE  TimedInv'
    <2>1. \A c \in Conn : Listed(c)' => Timed(c)'
      BY <1>1, StillTimed DEF TimedInv
    <2>2. \A c \in Conn : c > nconn' => age'[c] = 0
      BY <1>0, <1>1 DEF TimedInv
    <2> QED
      BY <2>1, <2>2 DEF TimedInv
  <1>2. ASSUME NEW a \in Addr, NewConnection(a)
        PROVE  /\ nconn + 1 \in Conn /\ nconn' = nconn + 1 /\ nconn' \in Nat
               /\ \A x \in Addr : conns'[x] = IF x = a THEN nconn + 1 ELSE conns[x]
               /\ state[nconn + 1] = "INIT" /\ age[nconn + 1] = 0
    <2>1. nconn + 1 \in Conn /\ nconn' = nconn + 1
      BY <1>2, NewConnectionType
    <2>2. conns' = [conns EXCEPT ![a] = nconn + 1]
      BY <1>2 DEF NewConnection
    <2>3. state[nconn + 1] = "INIT" /\ age[nconn + 1] = 0
      BY <1>0, <2>1 DEF TableInv, UnbornInit, TimedInv
    <2> QED
      BY <1>0, <2>1, <2>2, <2>3 DEF TypeOK
  <1>3. ASSUME NEW a \in Addr, Syn(a) PROVE TimedInv'
    <2>1. NewConnection(a) /\ UNCHANGED <<state, pc, timer>>
      BY <1>3 DEF Syn
    <2>2. \A c \in Conn : age'[c] = 0 \/ age'[c] = age[c]
      BY <1>3 DEF Syn
    <2>3. \A c \in Conn : Listed(c)' => Listed(c)
      BY <1>2, <2>1 DEF Listed
    <2> QED
      BY <1>0, <1>1, <1>2, <2>1, <2>2, <2>3
  \* An accepted CONNECT: its loop is ready, and nobody was silent.
  <1>4. ASSUME NEW c \in Conn, NEW p, Accept(c, p), age'[c] = 0
        PROVE  /\ Timed(c)'
               /\ \A d \in Conn : state'[d] = "CONNECTED" => d = c \/ state[d] = "CONNECTED"
               /\ \A l \in Loop : pc[l] # "none" => pc'[l] = pc[l] /\ timer'[l] = timer[l]
    <2>1. PICK l \in Loop : /\ Owner(l) = c
                            /\ pc[l] = "none"
                            /\ pc' = [pc EXCEPT ![l] = "ready"]
      BY <1>4 DEF Accept, LoopScheduled
    <2>2. pc'[l] = "ready" /\ \A k \in Loop : k # l => pc'[k] = pc[k]
      BY <2>1 DEF TypeOK
    <2>3. Timed(c)'
      BY <1>4, <2>1, <2>2, PatienceType DEF Timed
    <2>4. timer' = timer /\ state' = [state EXCEPT ![c] = "CONNECTED"]
      BY <1>4 DEF Accept, LoopScheduled
    <2> QED
      BY <2>1, <2>2, <2>3, <2>4 DEF TypeOK
  <1>5. ASSUME NEW a \in Addr, Connect(a) PROVE TimedInv'
    <2>1. /\ conns[a] \in Conn
          /\ UNCHANGED <<conns, nconn>>
          /\ age' = [age EXCEPT ![conns[a]] = 0]
      BY <1>5, BoundAssumption DEF Connect, TypeOK, Conn
    <2>2. PICK p \in Ticket : Accept(conns[a], p)
      BY <1>5 DEF Connect
    <2>3. age'[conns[a]] = 0 /\ \A c \in Conn : age'[c] = 0 \/ age'[c] = age[c]
      BY <2>1 DEF TypeOK
    <2> DEFINE k == conns[a]
    <2> HIDE DEF k
    <2>4. /\ k \in Conn /\ Accept(k, p) /\ age'[k] = 0
      BY <2>1, <2>2, <2>3 DEF k
    <2>5. \A c \in Conn : c = k => Timed(c)'
      BY <1>4, <2>4
    <2>6. \A c \in Conn : Listed(c)' => Listed(c) \/ c = k
      BY <1>4, <2>1, <2>4 DEF Listed
    <2> QED
      BY <1>0, <1>1, <1>4, <2>1, <2>3, <2>4, <2>5, <2>6
  <1>6. ASSUME NEW a \in Addr, ConnectWithoutSyn(a) PROVE TimedInv'
    <2>1. NewConnection(a) /\ age' = age
      BY <1>6 DEF ConnectWithoutSyn
    <2>2. PICK p \in Ticket : Accept(nconn + 1, p)
      BY <1>6 DEF ConnectWithoutSyn
    <2> DEFINE k == nconn + 1
    <2> HIDE DEF k
    <2>3. k \in Conn /\ Accept(k, p) /\ age'[k] = 0
      BY <1>2, <2>1, <2>2 DEF k
    <2>4. \A c \in Conn : c = k => Timed(c)'
      BY <1>4, <2>3
    <2>5. \A c \in Conn : Listed(c)' => Listed(c) \/ c = k
      BY <1>2, <1>4, <2>1, <2>3 DEF Listed, k
    <2> QED
      BY <1>0, <1>1, <1>2, <1>4, <2>1, <2>3, <2>4, <2>5
  <1>7. ASSUME NEW a \in Addr, ConnectRefused(a) PROVE TimedInv'
    <2>1. /\ UNCHANGED <<nconn, state, pc, timer>>
          /\ conns' = [conns EXCEPT ![a] = 0]
          /\ age' = [age EXCEPT ![conns[a]] = 0]
      BY <1>7 DEF ConnectRefused
    <2>2. \A c \in Conn : Listed(c)' => Listed(c)
      BY <1>0, <2>1 DEF Listed, TypeOK
    <2>3. \A c \in Conn : age'[c] = 0 \/ age'[c] = age[c]
      BY <2>1 DEF TypeOK
    <2> QED
      BY <1>0, <1>1, <2>1, <2>2, <2>3
  <1>8. ASSUME NEW a \in Addr, NEW s \in SessionId,
               KeepAlive(a, s) \/ Data(a, s) \/ Disconnect(a, s)
        PROVE  TimedInv'
    <2>1. PICK b \in Found(a, s) :
            /\ Heard(a, conns[b])
            /\ \/ conns' = Remapped(a, b)
               \/ conns' = [Remapped(a, b) EXCEPT ![a] = 0]
      BY <1>8 DEF KeepAlive, Data, Disconnect
    <2>2. UNCHANGED <<nconn, state, pc, timer>>
      BY <1>8 DEF KeepAlive, Data, Disconnect
    <2>3. \A x \in Addr : conns'[x] # 0 => \E y \in Addr : conns[y] = conns'[x]
      BY <2>1, Route
    <2>4. \A c \in Conn : Listed(c)' => Listed(c)
      BY <1>0, <2>2, <2>3 DEF Listed
    <2>5. \A c \in Conn : age'[c] = 0 \/ age'[c] = age[c]
      BY <2>1 DEF Heard, TypeOK
    <2> QED
      BY <1>0, <1>1, <2>2, <2>4, <2>5
  <1>9. ASSUME (\E t \in tasks : Dispatch(t)) \/ UNCHANGED vars PROVE TimedInv'
    <2>1. UNCHANGED <<conns, nconn, state, age, pc, timer>>
      BY <1>9 DEF Dispatch, vars
    <2> QED
      BY <1>0, <1>1, <2>1 DEF Listed
  <1>10. ASSUME NEW l \in Loop, LoopStep(l) PROVE TimedInv'
    <2>1. UNCHANGED objVars
      BY <1>10 DEF LoopStep, LoopStart, LoopWake, Evict
    <2>2. \A c \in Conn : Listed(c)' => Listed(c)
      <3>1. \A x \in Addr : conns'[x] = conns[x] \/ conns'[x] = 0
        BY <1>10 DEF LoopStep, LoopStart, LoopWake, Evict, TypeOK
      <3> QED
        BY <1>0, <2>1, <3>1 DEF Listed
    <2>3. \A k \in Loop : k # l => pc'[k] = pc[k] /\ timer'[k] = timer[k]
      BY <1>10 DEF LoopStep, LoopStart, LoopWake, Evict, Resume, TypeOK
    <2> SUFFICES ASSUME NEW c \in Conn, Listed(c)'
                 PROVE  Timed(c)'
      BY <2>1 DEF TimedInv
    <2>4. PICK k \in Loop : /\ Owner(k) = c
                            /\ \/ pc[k] = "ready" /\ age[c] <= IdleTimeout
                               \/ pc[k] = "asleep" /\ age[c] + timer[k] <= Patience
      BY <2>2 DEF TimedInv, Timed
    <2>5. CASE k # l
      BY <2>1, <2>3, <2>4, <2>5 DEF Timed
    <2>6. CASE k = l
      <3>1. PICK x \in Addr : conns'[x] = c
        BY DEF Listed
      <3>2. conns[x] = c /\ addr[c] = x
        <4>1. conns'[x] = conns[x] \/ conns'[x] = 0
          BY <1>10 DEF LoopStep, LoopStart, LoopWake, Evict, TypeOK
        <4> QED
          BY <1>0, <3>1, <4>1 DEF TableInv, TableConsistent
      <3>3. Watching(l)
        BY <2>4, <2>6, <3>2 DEF Watching
      <3>4. ~Evict(l)
        <4> SUFFICES ASSUME Evict(l) PROVE FALSE
          OBVIOUS
        <4>1. conns'[x] = 0
          BY <2>4, <2>6, <3>2 DEF Evict, TypeOK
        <4> QED
          BY <1>0, <3>1, <4>1
      <3>5. Resume(l) /\ age[c] <= IdleTimeout
        <4>1. CASE LoopStart(l)
          BY <2>4, <2>6, <4>1 DEF LoopStart
        <4>2. CASE LoopWake(l)
          BY <2>4, <2>6, <4>2, PatienceType DEF LoopWake, Idle, TypeOK
        <4> QED
          BY <1>10, <3>4, <4>1, <4>2 DEF LoopStep
      <3>6. pc'[l] = "asleep" /\ timer'[l] = PingInterval /\ age'[c] = age[c]
        BY <2>1, <3>3, <3>5 DEF Resume, TypeOK
      <3>7. age[c] \in Nat
        BY PatienceType DEF TypeOK
      <3>8. age'[c] + timer'[l] <= Patience
        BY <3>5, <3>6, <3>7, PatienceType DEF Patience
      <3> QED
        BY <2>4, <2>6, <3>6, <3>8 DEF Timed
    <2> QED
      BY <2>5, <2>6
  <1>11. ASSUME Tick PROVE TimedInv'
    <2>1. /\ UNCHANGED <<conns, nconn, state, pc>>
          /\ \A l \in Loop : pc[l] # "ready" /\ ~Due(l)
      BY <1>11 DEF Tick
    <2>2. \A c \in Conn : /\ age[c] \in Nat
                          /\ age'[c] = IF c > nconn \/ age[c] > Patience THEN age[c] ELSE age[c] + 1
      BY <1>11, PatienceType DEF Tick, TypeOK
    <2>3. \A l \in Loop : pc[l] = "asleep" => timer[l] \in Nat \ {0} /\ timer'[l] = timer[l] - 1
      BY <1>11, <2>1, PatienceType DEF Tick, TypeOK, Due
    <2>4. ASSUME NEW c \in Conn, Listed(c)' PROVE Timed(c)'
      <3>1. Timed(c)
        BY <2>1, <2>4 DEF TimedInv, Listed
      <3>2. PICK l \in Loop : /\ Owner(l) = c
                              /\ pc[l] = "asleep" /\ age[c] + timer[l] <= Patience
        BY <2>1, <3>1 DEF Timed
      <3>3. age'[c] + timer'[l] <= Patience
        BY <2>2, <2>3, <3>2, PatienceType
      <3>4. pc'[l] = "asleep"
        BY <2>1, <3>2
      <3> QED
        BY <3>2, <3>3, <3>4 DEF Timed
    <2>5. \A c \in Conn : c > nconn' => age'[c] = 0
      BY <2>1, <2>2 DEF TimedInv
    <2> QED
      BY <2>4, <2>5 DEF TimedInv
  <1> QED
    BY <1>3, <1>5, <1>6, <1>7, <1>8, <1>9, <1>10, <1>11 DEF Next, Packet

\* With any number of retransmitted CONNECTs and whatever else arrives: a
\* connection that completed CONNECT leaves the table before it was silent for
\* longer than the idle limit and one ping interval.
THEOREM DropCorrect == Spec => []DroppedInTime
  <1>1. Init => TypeOK /\ TableInv /\ TimedInv
    BY InitType, InitTable, InitTimed
  <1>2. TypeOK /\ TableInv /\ TimedInv /\ [Next]_vars => (TypeOK /\ TableInv /\ TimedInv)'
    BY NextType, NextTable, NextTimed
  <1>3. TypeOK /\ TimedInv => DroppedInTime
    <2> SUFFICES ASSUME TypeOK, TimedInv, NEW a \in Addr,
                        conns[a] # 0, state[conns[a]] = "CONNECTED"
                 PROVE  age[conns[a]] <= Patience
      BY DEF DroppedInTime
    <2>1. conns[a] \in Conn
      BY BoundAssumption DEF TypeOK, Conn
    <2>2. Timed(conns[a])
      BY <2>1 DEF TimedInv, Listed
    <2>3. age[conns[a]] \in Nat /\ \A l \in Loop : timer[l] \in Nat
      BY <2>1, PatienceType DEF TypeOK
    <2> QED
      BY <2>2, <2>3, PatienceType DEF Timed, Patience
  <1> QED
    BY <1>1, <1>2, <1>3, PTL DEF Spec
=============================================================================
