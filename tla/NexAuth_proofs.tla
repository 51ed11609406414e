----------------------------- MODULE NexAuth_proofs -----------------------------
(***************************************************************************)
(* Proofs about NexAuth, for any players, passwords, addresses and bounds. *)
(* The invariant has four parts that do not depend on each other: types,   *)
(* requests for tickets, the ages of passwords and tickets, sessions.      *)
(***************************************************************************)
EXTENDS NexAuth, TLAPS

-----------------------------------------------------------------------------
(* Type correctness *)

FileType == /\ file \in [Pid -> Value]
            /\ off \in [Pid -> [Password -> Age]]
            /\ held \in [Try -> SUBSET Value]
TryType == /\ at \in [Try -> {"none", "done", "failed"} \cup InProgress]
           /\ who \in [Try -> Pid \cup {Nobody}]
           /\ key \in [Try -> Password \cup {Blank}]
           /\ erred \in [Try -> BOOLEAN]
           /\ \A r \in Try : at[r] # "none" => who[r] \in Pid
TicketsType == tickets \subseteq TicketType
ConnType == /\ conns \in [Addr -> Pid \cup {Nobody}]
            /\ lapse \in [Addr -> Age]
RegType == /\ doing \in [Reg -> {"none", "done", "failed"} \cup Registering]
           /\ rpid \in [Reg -> Pid \cup {Nobody}]
           /\ before \in [Reg -> SUBSET Reg]
           /\ \A n \in Reg : doing[n] # "none" => rpid[n] \in Pid
SessType == sess \in [Pid -> 0..MaxRegs]
BoundType == limit \in Limits /\ writes \in Nat

Typed == /\ FileType /\ TryType /\ TicketsType
         /\ ConnType /\ RegType /\ SessType /\ BoundType

LEMMA TypedIsTypeOK == Typed => TypeOK
BY DEF Typed, TypeOK, FileType, TryType, TicketsType, ConnType, RegType,
       SessType, BoundType

LEMMA AgeFacts ==
  /\ 0 \in Age /\ MaxAge + 1 \in Age
  /\ \A n \in Age : Older(n) \in Age
  /\ \A m, n \in Age : m <= n => Older(m) <= Older(n)
BY BoundAssumption DEF Age, Older

LEMMA WriteType ==
  ASSUME FileType, TryType, NEW p \in Pid, NEW v \in Value, Write(p, v)
  PROVE  /\ FileType'
         /\ file' = [file EXCEPT ![p] = v]
<1>1. file' \in [Pid -> Value]
  BY DEF FileType, Write
<1>2. off' \in [Pid -> [Password -> Age]]
  <2>1. [w \in Password |-> IF w = v THEN 0 ELSE off[p][w]] \in [Password -> Age]
    BY AgeFacts DEF FileType
  <2>2. off' = [off EXCEPT ![p] = [w \in Password |-> IF w = v THEN 0 ELSE off[p][w]]]
    BY DEF FileType, Write
  <2>3. QED BY <2>1, <2>2 DEF FileType
<1>3. held' \in [Try -> SUBSET Value]
  <2>1. \A r \in Try : (IF at[r] \in InProgress /\ who[r] = p
                        THEN held[r] \cup {v} ELSE held[r]) \in SUBSET Value
    BY DEF FileType
  <2>2. QED BY <2>1 DEF Write
<1>4. QED BY <1>1, <1>2, <1>3 DEF FileType, Write

LEMMA InsertType ==
  ASSUME FileType, TryType, NEW p \in Pid, Insert(p) \/ UNCHANGED <<fileVars, held>>
  PROVE  FileType'
<1>1. CASE file[p] = NoRow /\ Write(p, Default)
  BY <1>1, WriteType, ValueAssumption DEF Value
<1>2. CASE UNCHANGED <<fileVars, held>>
  BY <1>2 DEF FileType, fileVars
<1>3. QED BY <1>1, <1>2 DEF Insert

LEMMA TypeInit == Init => Typed
<1> SUFFICES ASSUME Init PROVE Typed
  OBVIOUS
<1>1. FileType
  <2>1. file \in [Pid -> Value] /\ held \in [Try -> SUBSET Value]
    BY DEF Init
  <2>2. \A p \in Pid : [v \in Password |-> IF v = file[p] THEN 0 ELSE MaxAge + 1]
                         \in [Password -> Age]
    BY AgeFacts
  <2>3. off \in [Pid -> [Password -> Age]]
    BY <2>2 DEF Init
  <2>4. QED BY <2>1, <2>3 DEF FileType
<1>2. TryType
  BY ValueAssumption DEF Init, TryType
<1>3. TicketsType /\ ConnType
  BY AgeFacts DEF Init, TicketsType, ConnType
<1>4. RegType
  BY DEF Init, RegType
<1>5. SessType /\ BoundType
  BY BoundAssumption DEF Init, SessType, BoundType
<1>6. QED BY <1>1, <1>2, <1>3, <1>4, <1>5 DEF Typed

LEMMA TypeNext == Typed /\ [Next]_vars => Typed'
<1> SUFFICES ASSUME Typed, [Next]_vars PROVE Typed'
  OBVIOUS
<1>a. /\ FileType /\ TryType /\ TicketsType
      /\ ConnType /\ RegType /\ SessType /\ BoundType
  BY DEF Typed
<1>b. UNCHANGED tryVars => TryType'
  BY <1>a DEF TryType, tryVars
<1>c. UNCHANGED <<fileVars, held>> => FileType'
  BY <1>a DEF FileType, fileVars
<1>d. UNCHANGED tickets => TicketsType'
  BY <1>a DEF TicketsType
<1>e. UNCHANGED connVars => ConnType'
  BY <1>a DEF ConnType, connVars
<1>f. UNCHANGED regVars => RegType'
  BY <1>a DEF RegType, regVars
<1>g. UNCHANGED sess => SessType'
  BY <1>a DEF SessType
<1>h. UNCHANGED boundVars => BoundType'
  BY <1>a DEF BoundType, boundVars
<1>1. CASE \E p \in Pid, v \in Value : AccountServer(p, v)
  <2>1. PICK p \in Pid, v \in Value : AccountServer(p, v)
    BY <1>1
  <2>2. FileType'
    BY <1>a, <2>1, WriteType DEF AccountServer
  <2>3. BoundType'
    BY <1>a, <2>1 DEF AccountServer, BoundType
  <2>4. QED BY <1>b, <1>d, <1>e, <1>f, <1>g, <2>1, <2>2, <2>3 DEF AccountServer, Typed
<1>2. CASE \E r \in Try, p \in Pid : Ask(r, p)
  <2>1. PICK r \in Try, p \in Pid : Ask(r, p)
    BY <1>2
  <2>2. FileType'
    BY <1>a, <2>1 DEF Ask, FileType, fileVars
  <2>3. TryType'
    BY <1>a, <2>1 DEF Ask, TryType, InProgress
  <2>4. QED BY <1>d, <1>e, <1>f, <1>g, <1>h, <2>1, <2>2, <2>3 DEF Ask, Typed
<1>3. CASE \E r \in Try : Lookup(r) \/ LookupFails(r)
  <2>1. PICK r \in Try : Lookup(r) \/ LookupFails(r)
    BY <1>3
  <2>2. at[r] = "lookup" /\ who[r] \in Pid /\ UNCHANGED who
    BY <1>a, <2>1 DEF Lookup, LookupFails, TryType
  <2>3. \/ /\ file[who[r]] # NoRow
           /\ at' = [at EXCEPT ![r] = "make"] /\ erred' = erred
           /\ key' = [key EXCEPT ![r] = file[who[r]]]
        \/ /\ at' = [at EXCEPT ![r] = "create"] /\ key' = key
           /\ erred' = erred \/ erred' = [erred EXCEPT ![r] = TRUE]
    BY <2>1 DEF Lookup, LookupFails
  <2>4. file[who[r]] \in Password \cup {Blank, NoRow}
    BY <1>a, <2>2 DEF FileType, Value
  <2>5. TryType'
    BY <1>a, <2>2, <2>3, <2>4 DEF TryType, InProgress
  <2>6. QED BY <1>c, <1>d, <1>e, <1>f, <1>g, <1>h, <2>1, <2>5 DEF Lookup, LookupFails, Typed
<1>4. CASE \E r \in Try : Create(r) \/ CreateFails(r)
  <2>1. PICK r \in Try : Create(r) \/ CreateFails(r)
    BY <1>4
  <2>2. /\ at[r] = "create" /\ who[r] \in Pid /\ UNCHANGED who
        /\ at' = [at EXCEPT ![r] = "make"]
        /\ key' = [key EXCEPT ![r] = Default]
        /\ erred' = erred \/ erred' = [erred EXCEPT ![r] = TRUE]
    BY <1>a, <2>1 DEF Create, CreateFails, TryType
  <2>3. FileType'
    BY <1>a, <2>1, <2>2, InsertType DEF Create, CreateFails
  <2>4. TryType'
    BY <1>a, <2>2, ValueAssumption DEF TryType, InProgress
  <2>5. QED BY <1>d, <1>e, <1>f, <1>g, <1>h, <2>1, <2>3, <2>4 DEF Create, CreateFails, Typed
<1>5. CASE \E r \in Try : Issue(r)
  <2>1. PICK r \in Try : Issue(r)
    BY <1>5
  <2>2. at[r] = "make" /\ who[r] \in Pid /\ key[r] \in Password \cup {Blank}
    BY <1>a, <2>1 DEF Issue, TryType
  <2>3. TryType'
    BY <1>a, <2>1, <2>2 DEF Issue, TryType
  <2>4. TicketsType'
    <3>1. CASE tickets' = tickets
      BY <1>a, <3>1 DEF TicketsType
    <3>2. CASE key[r] # Blank
      <4>1. [pid |-> who[r], key |-> key[r], age |-> 0,
             fresh |-> file[who[r]] = key[r]] \in TicketType
        BY <2>2, <3>2, AgeFacts DEF TicketType
      <4>2. QED BY <1>a, <2>1, <3>2, <4>1 DEF Issue, TicketsType
    <3>3. QED BY <2>1, <3>1, <3>2 DEF Issue
  <2>5. QED BY <1>c, <1>e, <1>f, <1>g, <1>h, <2>1, <2>3, <2>4 DEF Issue, Typed
<1>6. CASE \E a \in Addr, t \in tickets : Connect(a, t)
  <2>1. PICK a \in Addr, t \in tickets : Connect(a, t)
    BY <1>6
  <2>2. t.pid \in Pid /\ t.key \in Password
    BY <1>a DEF TicketsType, TicketType
  <2>3. off[t.pid][t.key] \in Age
    BY <1>a, <2>2 DEF FileType
  <2>4. ConnType'
    BY <1>a, <2>1, <2>2, <2>3, AgeFacts DEF Connect, ConnType
  <2>5. QED BY <1>b, <1>c, <1>d, <1>f, <1>g, <1>h, <2>1, <2>4 DEF Connect, Typed
<1>7. CASE \E a \in Addr : Drop(a)
  <2>1. ConnType'
    BY <1>a, <1>7, AgeFacts DEF Drop, ConnType
  <2>2. QED BY <1>b, <1>c, <1>d, <1>f, <1>g, <1>h, <1>7, <2>1 DEF Drop, Typed
<1>8. CASE \E n \in Reg, a \in Addr : Register(n, a)
  <2>1. PICK n \in Reg, a \in Addr : Register(n, a)
    BY <1>8
  <2>2. conns[a] \in Pid
    BY <1>a, <2>1 DEF Register, ConnType
  <2>3. doing' = [doing EXCEPT ![n] = "exists"] /\ rpid' = [rpid EXCEPT ![n] = conns[a]]
    BY <2>1 DEF Register
  <2>4. before' \in [Reg -> SUBSET Reg]
    BY <1>a, <2>1 DEF Register, RegType
  <2>5. RegType'
    BY <1>a, <2>2, <2>3, <2>4 DEF RegType, Registering
  <2>6. QED BY <1>b, <1>c, <1>d, <1>e, <1>g, <1>h, <2>1, <2>5 DEF Register, Typed
<1>9. CASE \E n \in Reg : Exists(n) \/ RegisterFails(n)
  <2>1. PICK n \in Reg : Exists(n) \/ RegisterFails(n)
    BY <1>9
  <2>2. /\ doing[n] # "none" /\ UNCHANGED <<rpid, before>>
        /\ \/ doing' = [doing EXCEPT ![n] = "update"]
           \/ doing' = [doing EXCEPT ![n] = "add"]
           \/ doing' = [doing EXCEPT ![n] = "failed"]
    BY <2>1 DEF Exists, RegisterFails, Registering
  <2>3. RegType'
    BY <1>a, <2>2 DEF RegType, Registering
  <2>4. QED BY <1>b, <1>c, <1>d, <1>e, <1>g, <1>h, <2>1, <2>3 DEF Exists, RegisterFails, Typed
<1>10. CASE \E n \in Reg : AddSession(n) \/ UpdateSession(n)
  <2>1. PICK n \in Reg : AddSession(n) \/ UpdateSession(n)
    BY <1>10
  <2>2. /\ doing[n] # "none" /\ UNCHANGED <<rpid, before>>
        /\ doing' = [doing EXCEPT ![n] = "done"]
        /\ sess' = sess \/ sess' = [sess EXCEPT ![rpid[n]] = n]
    BY <2>1 DEF AddSession, UpdateSession
  <2>3. RegType'
    BY <1>a, <2>2 DEF RegType
  <2>4. SessType'
    BY <1>a, <2>2, BoundAssumption DEF SessType, Reg
  <2>5. QED BY <1>b, <1>c, <1>d, <1>e, <1>h, <2>1, <2>3, <2>4 DEF AddSession, UpdateSession, Typed
<1>11. CASE Tick
  <2>1. \A p \in Pid : [v \in Password |-> IF v = file[p] THEN 0 ELSE Older(off[p][v])]
                         \in [Password -> Age]
    BY <1>a, AgeFacts DEF FileType
  <2>2. off' \in [Pid -> [Password -> Age]]
    BY <1>11, <2>1 DEF Tick
  <2>3. FileType'
    BY <1>a, <1>11, <2>2 DEF Tick, FileType
  <2>4. TicketsType'
    BY <1>a, <1>11, AgeFacts DEF Tick, TicketsType, TicketType
  <2>5. QED BY <1>b, <1>e, <1>f, <1>g, <1>h, <1>11, <2>3, <2>4 DEF Tick, Typed
<1>12. CASE Restart
  <2>1. TryType'
    <3>1. at' \in [Try -> {"none", "done", "failed"} \cup InProgress]
      BY <1>a, <1>12 DEF Restart, TryType
    <3>2. \A r \in Try : at'[r] # "none" => at[r] # "none"
      BY <1>12 DEF Restart, InProgress
    <3>3. QED BY <1>a, <1>12, <3>1, <3>2 DEF Restart, TryType
  <2>2. ConnType'
    BY <1>12, AgeFacts DEF Restart, ConnType
  <2>3. RegType'
    <3>1. doing' \in [Reg -> {"none", "done", "failed"} \cup Registering]
      BY <1>12 DEF Restart
    <3>2. \A n \in Reg : doing'[n] # "none" => doing[n] # "none"
      BY <1>12 DEF Restart
    <3>3. QED BY <1>a, <1>12, <3>1, <3>2 DEF Restart, RegType
  <2>4. SessType'
    BY <1>12, BoundAssumption DEF Restart, SessType
  <2>5. QED BY <1>c, <1>d, <1>h, <1>12, <2>1, <2>2, <2>3, <2>4 DEF Restart, Typed
<1>13. CASE UNCHANGED vars
  BY <1>b, <1>c, <1>d, <1>e, <1>f, <1>g, <1>h, <1>13
     DEF vars, fileVars, tryVars, connVars, regVars, boundVars, Typed
<1>14. QED
  BY <1>1, <1>2, <1>3, <1>4, <1>5, <1>6, <1>7, <1>8, <1>9, <1>10, <1>11, <1>12, <1>13
     DEF Next

\* Type correctness of accounts, requests, tickets, connections and sessions.
THEOREM TypeCorrect == Spec => []TypeOK
<1>1. Spec => []Typed
  BY TypeInit, TypeNext, PTL DEF Spec
<1>2. QED BY <1>1, TypedIsTypeOK, PTL

-----------------------------------------------------------------------------
(* Requests for tickets *)

Opens(r) == \/ key[r] \in held[r]
            \/ /\ key[r] = Default
               /\ erred[r] \/ (NoRow \in held[r] /\ held[r] # {NoRow})

\* What a request has seen of its account, by how far it has come.
TryOk(r) ==
  /\ at[r] \in InProgress => file[who[r]] \in held[r]
  /\ at[r] = "create" => erred[r] \/ NoRow \in held[r]
  /\ at[r] \in {"make", "done"} => Opens(r)
TryInv == \A r \in Try : TryOk(r)

\* A write is seen by every request that it concerns.
LEMMA WriteSeen ==
  ASSUME Typed, NEW p \in Pid, NEW v \in Value, Write(p, v), NEW r \in Try
  PROVE  /\ held[r] \subseteq held'[r]
         /\ at[r] \in InProgress /\ file[who[r]] \in held[r] => file'[who[r]] \in held'[r]
<1>1. /\ held'[r] = IF at[r] \in InProgress /\ who[r] = p
                    THEN held[r] \cup {v} ELSE held[r]
      /\ file' = [file EXCEPT ![p] = v]
      /\ file \in [Pid -> Value]
  BY DEF Write, Typed, FileType
<1>2. at[r] \in InProgress => who[r] \in Pid
  BY DEF Typed, TryType, InProgress
<1>3. QED BY <1>1, <1>2

\* Requests that do not move stay as they should be when accounts change.
LEMMA TryKept ==
  ASSUME Typed, NEW r \in Try, TryOk(r),
         at'[r] = at[r], who'[r] = who[r], key'[r] = key[r], erred'[r] = erred[r],
         held[r] \subseteq held'[r],
         at[r] \in InProgress => file'[who[r]] \in held'[r]
  PROVE  TryOk(r)'
<1>1. Opens(r) => Opens(r)'
  BY DEF Opens
<1>2. QED BY <1>1 DEF TryOk, InProgress

LEMMA TryAllKept ==
  ASSUME Typed, TryInv, UNCHANGED <<tryVars, file, held>>
  PROVE  TryInv'
<1>1. SUFFICES ASSUME NEW r \in Try PROVE TryOk(r)'
  BY DEF TryInv
<1>2. TryOk(r)
  BY DEF TryInv
<1>3. QED BY <1>2, TryKept DEF tryVars, TryOk

LEMMA TryWritten ==
  ASSUME Typed, TryInv, NEW p \in Pid, NEW v \in Value, Write(p, v),
         NEW r \in Try,
         at'[r] = at[r], who'[r] = who[r], key'[r] = key[r], erred'[r] = erred[r]
  PROVE  TryOk(r)'
<1>1. TryOk(r)
  BY DEF TryInv
<1>2. /\ held[r] \subseteq held'[r]
      /\ at[r] \in InProgress => file'[who[r]] \in held'[r]
  BY <1>1, WriteSeen DEF TryOk
<1>3. QED BY <1>1, <1>2, TryKept

LEMMA TryNext == Typed /\ TryInv /\ [Next]_vars => TryInv'
<1> SUFFICES ASSUME Typed, TryInv, [Next]_vars PROVE TryInv'
  OBVIOUS
<1>a. \A r \in Try : TryOk(r)
  BY DEF TryInv
<1>b. UNCHANGED <<tryVars, file, held>> => TryInv'
  BY TryAllKept
<1>c. FileType /\ TryType
  BY DEF Typed
<1>1. CASE \E p \in Pid, v \in Value : AccountServer(p, v)
  <2>1. PICK p \in Pid, v \in Value : AccountServer(p, v)
    BY <1>1
  <2>2. Write(p, v) /\ UNCHANGED tryVars
    BY <2>1 DEF AccountServer
  <2>3. \A r \in Try : TryOk(r)'
    BY <2>2, TryWritten DEF tryVars
  <2>4. QED BY <2>3 DEF TryInv
<1>2. CASE \E r \in Try, p \in Pid : Ask(r, p)
  <2>1. PICK r \in Try, p \in Pid : Ask(r, p)
    BY <1>2
  <2>2. /\ at' = [at EXCEPT ![r] = "lookup"] /\ who' = [who EXCEPT ![r] = p]
        /\ held' = [held EXCEPT ![r] = {file[p]}]
        /\ UNCHANGED <<file, key, erred>>
    BY <2>1 DEF Ask, fileVars
  <2>3. TryOk(r)'
    BY <1>c, <2>2 DEF TryOk, TryType, FileType, InProgress
  <2>4. \A s \in Try : s # r => TryOk(s)'
    <3>1. SUFFICES ASSUME NEW s \in Try, s # r PROVE TryOk(s)'
      OBVIOUS
    <3>2. /\ at'[s] = at[s] /\ who'[s] = who[s] /\ key'[s] = key[s]
          /\ erred'[s] = erred[s] /\ held'[s] = held[s] /\ file' = file
      BY <1>c, <2>2, <3>1 DEF TryType, FileType
    <3>3. QED BY <1>a, <3>2, TryKept DEF TryOk
  <2>5. QED BY <2>3, <2>4 DEF TryInv
<1>3. CASE \E r \in Try : Lookup(r) \/ LookupFails(r) \/ Issue(r)
  <2>1. PICK r \in Try : Lookup(r) \/ LookupFails(r) \/ Issue(r)
    BY <1>3
  <2>2. UNCHANGED <<file, held, who>>
    BY <2>1 DEF Lookup, LookupFails, Issue, fileVars
  <2>3. TryOk(r)'
    <3>1. CASE Lookup(r)
      <4>1. at[r] = "lookup" /\ file[who[r]] \in held[r] /\ erred' = erred
        BY <1>a, <3>1 DEF Lookup, TryOk, InProgress
      <4>2. CASE /\ at' = [at EXCEPT ![r] = "make"]
                 /\ key' = [key EXCEPT ![r] = file[who[r]]]
        <5>1. at'[r] = "make" /\ key'[r] \in held'[r] /\ file'[who'[r]] \in held'[r]
          BY <1>c, <2>2, <4>1, <4>2 DEF TryType
        <5>2. QED BY <5>1 DEF TryOk, Opens
      <4>3. CASE file[who[r]] = NoRow /\ at' = [at EXCEPT ![r] = "create"]
        <5>1. at'[r] = "create" /\ NoRow \in held'[r] /\ file'[who'[r]] \in held'[r]
          BY <1>c, <2>2, <4>1, <4>3 DEF TryType
        <5>2. QED BY <5>1 DEF TryOk
      <4>4. QED BY <3>1, <4>2, <4>3 DEF Lookup
    <3>2. CASE LookupFails(r)
      <4>1. at[r] = "lookup" /\ file[who[r]] \in held[r]
        BY <1>a, <3>2 DEF LookupFails, TryOk, InProgress
      <4>2. at'[r] = "create" /\ erred'[r] /\ file'[who'[r]] \in held'[r]
        BY <1>c, <2>2, <3>2, <4>1 DEF LookupFails, TryType
      <4>3. QED BY <4>2 DEF TryOk
    <3>3. CASE Issue(r)
      <4>1. at[r] = "make" /\ at'[r] \in {"done", "failed"} /\ UNCHANGED <<key, erred>>
        BY <1>c, <3>3 DEF Issue, TryType
      <4>2. Opens(r)
        BY <1>a, <4>1 DEF TryOk
      <4>3. Opens(r)'
        BY <2>2, <4>1, <4>2 DEF Opens
      <4>4. QED BY <4>1, <4>3 DEF TryOk, InProgress
    <3>4. QED BY <2>1, <3>1, <3>2, <3>3
  <2>4. \A s \in Try : s # r => TryOk(s)'
    <3>1. SUFFICES ASSUME NEW s \in Try, s # r PROVE TryOk(s)'
      OBVIOUS
    <3>2. /\ at'[s] = at[s] /\ key'[s] = key[s] /\ erred'[s] = erred[s]
      BY <1>c, <2>1, <3>1 DEF Lookup, LookupFails, Issue, TryType
    <3>3. QED BY <1>a, <2>2, <3>2, TryKept DEF TryOk
  <2>5. QED BY <2>3, <2>4 DEF TryInv
<1>4. CASE \E r \in Try : Create(r) \/ CreateFails(r)
  <2>1. PICK r \in Try : Create(r) \/ CreateFails(r)
    BY <1>4
  <2>2. /\ at[r] = "create" /\ who' = who
        /\ at' = [at EXCEPT ![r] = "make"] /\ key' = [key EXCEPT ![r] = Default]
        /\ erred' = erred \/ erred' = [erred EXCEPT ![r] = TRUE]
    BY <2>1 DEF Create, CreateFails
  <2>3. /\ who[r] \in Pid /\ file[who[r]] \in held[r]
        /\ erred[r] \/ NoRow \in held[r]
        /\ at'[r] = "make" /\ key'[r] = Default /\ who'[r] = who[r]
        /\ erred[r] => erred'[r]
    BY <1>a, <1>c, <2>1, <2>2 DEF TryOk, TryType, InProgress
  <2>4. Default \in Value /\ Default # NoRow
    BY ValueAssumption DEF Value
  <2>5. \A s \in Try : s # r => /\ at'[s] = at[s] /\ who'[s] = who[s]
                              /\ key'[s] = key[s] /\ erred'[s] = erred[s]
    BY <1>c, <2>1, <2>2 DEF TryType
  <2>6. CASE file[who[r]] = NoRow /\ Write(who[r], Default)
    <3>1. \A s \in Try : s # r => TryOk(s)'
      BY <2>3, <2>4, <2>5, <2>6, TryWritten
    <3>2. held'[r] = held[r] \cup {Default} /\ file'[who'[r]] \in held'[r]
      BY <1>c, <2>2, <2>3, <2>6 DEF Write, InProgress, FileType
    <3>3. TryOk(r)'
      <4>1. key'[r] \in held'[r]
        BY <2>3, <3>2
      <4>2. QED BY <2>3, <3>2, <4>1 DEF TryOk, Opens
    <3>4. QED BY <3>1, <3>3 DEF TryInv
  <2>7. CASE UNCHANGED <<file, held>> /\ (file[who[r]] # NoRow \/ CreateFails(r))
    <3>1. \A s \in Try : s # r => TryOk(s)'
      BY <1>a, <2>5, <2>7, TryKept DEF TryOk
    <3>2. erred'[r] \/ (NoRow \in held'[r] /\ held'[r] # {NoRow})
      <4>1. CASE CreateFails(r)
        BY <1>c, <4>1 DEF CreateFails, TryType
      <4>2. CASE file[who[r]] # NoRow
        BY <2>3, <2>7, <4>2
      <4>3. QED BY <2>7, <4>1, <4>2
    <3>3. TryOk(r)'
      <4>1. held'[r] = held[r] /\ file'[who'[r]] \in held'[r]
        BY <2>3, <2>7
      <4>2. QED BY <2>3, <3>2, <4>1 DEF TryOk, Opens
    <3>4. QED BY <3>1, <3>3 DEF TryInv
  <2>8. QED BY <2>1, <2>6, <2>7 DEF Create, CreateFails, Insert, fileVars
<1>5. CASE \E a \in Addr, t \in tickets : Connect(a, t)
  BY <1>b, <1>5 DEF Connect, fileVars
<1>6. CASE \E a \in Addr : Drop(a)
  BY <1>b, <1>6 DEF Drop, fileVars
<1>7. CASE \E n \in Reg, a \in Addr : Register(n, a)
  BY <1>b, <1>7 DEF Register, fileVars
<1>8. CASE \E n \in Reg : Exists(n) \/ AddSession(n) \/ UpdateSession(n) \/ RegisterFails(n)
  BY <1>b, <1>8 DEF Exists, AddSession, UpdateSession, RegisterFails, fileVars
<1>9. CASE Tick
  BY <1>b, <1>9 DEF Tick
<1>10. CASE Restart
  <2>1. SUFFICES ASSUME NEW r \in Try PROVE TryOk(r)'
    BY DEF TryInv
  <2>2. UNCHANGED <<file, held, who, key, erred>>
    BY <1>10 DEF Restart, fileVars
  <2>3. at'[r] = (IF at[r] \in InProgress THEN "failed" ELSE at[r])
    BY <1>10 DEF Restart
  <2>4. CASE at[r] \in InProgress
    BY <2>3, <2>4 DEF TryOk, InProgress
  <2>5. CASE at[r] \notin InProgress
    BY <1>a, <2>2, <2>3, <2>5, TryKept
  <2>6. QED BY <2>4, <2>5
<1>11. CASE UNCHANGED vars
  BY <1>b, <1>11 DEF vars, tryVars
<1>12. QED
  BY <1>1, <1>2, <1>3, <1>4, <1>5, <1>6, <1>7, <1>8, <1>9, <1>10, <1>11 DEF Next

LEMMA TryInit == Init => TryInv
BY DEF Init, TryInv, TryOk, InProgress

\* Every ticket is under a password that was on file while it was asked for,
\* or under the default one for a reason that the property names.
THEOREM TicketsCorrect == Spec => []OpensWithAccount
<1>1. Init => Typed /\ TryInv
  BY TypeInit, TryInit
<1>2. Typed /\ TryInv /\ [Next]_vars => (Typed /\ TryInv)'
  BY TypeNext, TryNext
<1>3. TryInv => OpensWithAccount
  BY DEF TryInv, TryOk, Opens, OpensWithAccount
<1>4. QED BY <1>1, <1>2, <1>3, PTL DEF Spec

-----------------------------------------------------------------------------
(* The ages of passwords and tickets *)

LapseInv ==
  /\ \A p \in Pid : file[p] \in Password => off[p][file[p]] = 0
  /\ \A t \in tickets : t.fresh => off[t.pid][t.key] <= t.age
  /\ PasswordLapses

LEMMA LapseInit == Init => LapseInv
BY BoundAssumption DEF Init, LapseInv, PasswordLapses

LEMMA LapseKept ==
  ASSUME LapseInv, UNCHANGED <<fileVars, tickets, lapse>>
  PROVE  LapseInv'
BY DEF LapseInv, PasswordLapses, fileVars

LEMMA LapseWritten ==
  ASSUME Typed, LapseInv, NEW p \in Pid, NEW v \in Value, Write(p, v),
         UNCHANGED <<tickets, lapse>>
  PROVE  LapseInv'
<1>1. /\ file' = [file EXCEPT ![p] = v]
      /\ off' = [off EXCEPT ![p] = [w \in Password |-> IF w = v THEN 0 ELSE off[p][w]]]
      /\ file \in [Pid -> Value] /\ off \in [Pid -> [Password -> Age]]
  BY DEF Write, Typed, FileType
<1>2. \A q \in Pid, w \in Password :
        off'[q][w] = IF q = p /\ w = v THEN 0 ELSE off[q][w]
  BY <1>1
<1>3. \A q \in Pid : file'[q] \in Password => off'[q][file'[q]] = 0
  <2>1. SUFFICES ASSUME NEW q \in Pid, file'[q] \in Password PROVE off'[q][file'[q]] = 0
    OBVIOUS
  <2>2. CASE q = p
    BY <1>1, <1>2, <2>1, <2>2
  <2>3. CASE q # p
    BY <1>1, <1>2, <2>1, <2>3 DEF LapseInv
  <2>4. QED BY <2>2, <2>3
<1>4. \A t \in tickets' : t.fresh => off'[t.pid][t.key] <= t.age
  <2>1. SUFFICES ASSUME NEW t \in tickets, t.fresh PROVE off'[t.pid][t.key] <= t.age
    OBVIOUS
  <2>2. t.pid \in Pid /\ t.key \in Password /\ t.age \in Age
    BY DEF Typed, TicketsType, TicketType
  <2>3. 0 <= t.age /\ off[t.pid][t.key] <= t.age
    BY <2>1, <2>2 DEF Age, LapseInv
  <2>4. QED BY <1>2, <2>2, <2>3
<1>5. QED BY <1>3, <1>4 DEF LapseInv, PasswordLapses

LEMMA LapseNext == Typed /\ LapseInv /\ [Next]_vars => LapseInv'
<1> SUFFICES ASSUME Typed, LapseInv, [Next]_vars PROVE LapseInv'
  OBVIOUS
<1>a. UNCHANGED <<fileVars, tickets, lapse>> => LapseInv'
  BY LapseKept
<1>b. /\ file \in [Pid -> Value] /\ off \in [Pid -> [Password -> Age]]
      /\ tickets \subseteq TicketType /\ lapse \in [Addr -> Age]
  BY DEF Typed, FileType, TicketsType, ConnType
<1>1. CASE \E p \in Pid, v \in Value : AccountServer(p, v)
  BY <1>1, LapseWritten DEF AccountServer, connVars
<1>2. CASE \E r \in Try, p \in Pid : Ask(r, p)
  BY <1>a, <1>2 DEF Ask, connVars
<1>3. CASE \E r \in Try : Lookup(r) \/ LookupFails(r)
  BY <1>a, <1>3 DEF Lookup, LookupFails, connVars
<1>4. CASE \E r \in Try : Create(r) \/ CreateFails(r)
  <2>1. PICK r \in Try : Create(r) \/ CreateFails(r)
    BY <1>4
  <2>2. who[r] \in Pid /\ Default \in Value
    BY <2>1, ValueAssumption DEF Create, CreateFails, Typed, TryType, Value
  <2>3. /\ Write(who[r], Default) \/ UNCHANGED fileVars
        /\ UNCHANGED <<tickets, lapse>>
    BY <2>1 DEF Create, CreateFails, Insert, connVars
  <2>4. QED BY <1>a, <2>2, <2>3, LapseWritten
<1>5. CASE \E r \in Try : Issue(r)
  <2>1. PICK r \in Try : Issue(r)
    BY <1>5
  <2>2. UNCHANGED <<fileVars, lapse>>
    BY <2>1 DEF Issue, connVars
  <2>3. who[r] \in Pid /\ key[r] \in Password \cup {Blank}
    BY <2>1 DEF Issue, Typed, TryType
  <2>4. \A t \in tickets' : t.fresh => off[t.pid][t.key] <= t.age
    <3>1. SUFFICES ASSUME NEW t \in tickets', t \notin tickets, t.fresh
                   PROVE  off[t.pid][t.key] <= t.age
      BY DEF LapseInv
    <3>2. /\ key[r] # Blank
          /\ t = [pid |-> who[r], key |-> key[r], age |-> 0,
                  fresh |-> file[who[r]] = key[r]]
      BY <2>1, <3>1 DEF Issue
    <3>3. /\ t.pid = who[r] /\ t.key = key[r] /\ t.age = 0
          /\ t.fresh = (file[who[r]] = key[r])
      BY <3>2
    <3>4. off[who[r]][key[r]] = 0
      BY <2>3, <3>1, <3>2, <3>3 DEF LapseInv
    <3>5. QED BY <3>3, <3>4
  <2>5. QED BY <2>2, <2>4 DEF LapseInv, PasswordLapses, fileVars
<1>6. CASE \E a \in Addr, t \in tickets : Connect(a, t)
  <2>1. PICK a \in Addr, t \in tickets : Connect(a, t)
    BY <1>6
  <2>2. t.pid \in Pid /\ t.key \in Password /\ t.age \in Age
    BY <1>b DEF TicketType
  <2>3. off[t.pid][t.key] \in Age
    BY <1>b, <2>2
  <2>4. Taken(t) /\ t.fresh => off[t.pid][t.key] <= MaxAge
    BY <2>2, <2>3, BoundAssumption DEF LapseInv, Taken, Age
  <2>5. PICK k \in Age : k <= MaxAge /\ lapse' = [lapse EXCEPT ![a] = k]
    <3>1. 0 \in Age /\ 0 <= MaxAge
      BY BoundAssumption DEF Age
    <3>2. QED BY <2>1, <2>3, <2>4, <3>1 DEF Connect
  <2>6. PasswordLapses'
    BY <1>b, <2>5 DEF LapseInv, PasswordLapses
  <2>7. UNCHANGED <<fileVars, tickets>>
    BY <2>1 DEF Connect
  <2>8. QED BY <2>6, <2>7 DEF LapseInv, fileVars
<1>7. CASE \E a \in Addr : Drop(a)
  <2>1. PasswordLapses'
    BY <1>b, <1>7, BoundAssumption DEF Drop, LapseInv, PasswordLapses
  <2>2. QED BY <1>7, <2>1 DEF Drop, LapseInv, fileVars
<1>8. CASE \E n \in Reg, a \in Addr : Register(n, a)
  BY <1>a, <1>8 DEF Register, connVars
<1>9. CASE \E n \in Reg : Exists(n) \/ AddSession(n) \/ UpdateSession(n) \/ RegisterFails(n)
  BY <1>a, <1>9 DEF Exists, AddSession, UpdateSession, RegisterFails, connVars
<1>10. CASE Tick
  <2>1. /\ file' = file /\ lapse' = lapse
        /\ tickets' = {[t EXCEPT !.age = Older(t.age)] : t \in tickets}
    BY <1>10 DEF Tick, connVars
  <2>2. \A p \in Pid, v \in Password :
          off'[p][v] = IF v = file[p] THEN 0 ELSE Older(off[p][v])
    BY <1>10 DEF Tick
  <2>3. \A p \in Pid : file'[p] \in Password => off'[p][file'[p]] = 0
    BY <2>1, <2>2
  <2>4. \A t \in tickets' : t.fresh => off'[t.pid][t.key] <= t.age
    <3>1. SUFFICES ASSUME NEW u \in tickets'
                   PROVE  u.fresh => off'[u.pid][u.key] <= u.age
      OBVIOUS
    <3>2. PICK t \in tickets : u = [t EXCEPT !.age = Older(t.age)]
      BY <2>1, <3>1
    <3>3. t \in TicketType
      BY <1>b
    <3>4. u.pid = t.pid /\ u.key = t.key /\ u.fresh = t.fresh /\ u.age = Older(t.age)
      BY <3>2, <3>3 DEF TicketType
    <3>5. t.pid \in Pid /\ t.key \in Password /\ t.age \in Age
      BY <3>3 DEF TicketType
    <3>6. off[t.pid][t.key] \in Age
      BY <1>b, <3>5
    <3>7. t.fresh => off[t.pid][t.key] <= t.age
      BY DEF LapseInv
    <3>8. t.fresh => Older(off[t.pid][t.key]) <= Older(t.age)
      BY <3>5, <3>6, <3>7, AgeFacts
    <3>9. Older(t.age) \in Nat /\ 0 <= Older(t.age)
      BY <3>5, AgeFacts DEF Age
    <3>10. QED BY <2>2, <3>4, <3>5, <3>8, <3>9
  <2>5. QED BY <2>1, <2>3, <2>4 DEF LapseInv, PasswordLapses
<1>11. CASE Restart
  <2>1. PasswordLapses'
    BY <1>11, BoundAssumption DEF Restart, PasswordLapses
  <2>2. QED BY <1>11, <2>1 DEF Restart, LapseInv, fileVars
<1>12. CASE UNCHANGED vars
  BY <1>a, <1>12 DEF vars, fileVars
<1>13. QED
  BY <1>1, <1>2, <1>3, <1>4, <1>5, <1>6, <1>7, <1>8, <1>9, <1>10, <1>11, <1>12 DEF Next

\* No connection is made under a password that left the file longer ago than
\* a ticket lives, for any length of that life.
THEOREM LapseCorrect == Spec => []PasswordLapses
<1>1. Init => Typed /\ LapseInv
  BY TypeInit, LapseInit
<1>2. Typed /\ LapseInv /\ [Next]_vars => (Typed /\ LapseInv)'
  BY TypeNext, LapseNext
<1>3. LapseInv => PasswordLapses
  BY DEF LapseInv
<1>4. QED BY <1>1, <1>2, <1>3, PTL DEF Spec

-----------------------------------------------------------------------------
(* Sessions *)

RowOk(p) == sess[p] # 0 => /\ sess[p] \in Reg
                           /\ rpid[sess[p]] = p
                           /\ doing[sess[p]] = "done"
RegOk(n) ==
  /\ doing[n] \in Registering \cup {"done"} => \A m \in before[n] : doing[m] = "done"
  /\ doing[n] = "update" => sess[rpid[n]] # 0
  /\ doing[n] = "done" => sess[rpid[n]] # 0 /\ sess[rpid[n]] \notin before[n]

SessInv == (\A p \in Pid : RowOk(p)) /\ (\A n \in Reg : RegOk(n))

LEMMA SessInit == Init => SessInv
BY DEF Init, SessInv, RowOk, RegOk, Registering

LEMMA SessKept ==
  ASSUME SessInv, UNCHANGED <<regVars, sess>>
  PROVE  SessInv'
BY DEF SessInv, RowOk, RegOk, regVars

\* A registration that ends with the row being its own.
LEMMA SessWritten ==
  ASSUME Typed, SessInv, NEW n \in Reg, doing[n] \in {"add", "update"},
         doing' = [doing EXCEPT ![n] = "done"], UNCHANGED <<rpid, before>>,
         sess' = [sess EXCEPT ![rpid[n]] = n]
  PROVE  SessInv'
<1>1. /\ rpid[n] \in Pid /\ n # 0
      /\ sess \in [Pid -> 0..MaxRegs] /\ before \in [Reg -> SUBSET Reg]
      /\ doing \in [Reg -> {"none", "done", "failed"} \cup Registering]
      /\ \A m \in Reg : doing[m] # "none" => rpid[m] \in Pid
  BY BoundAssumption DEF Typed, RegType, SessType, Reg
<1>2. \A p \in Pid : sess'[p] = IF p = rpid[n] THEN n ELSE sess[p]
  BY <1>1
<1>3. \A m \in Reg : doing'[m] = IF m = n THEN "done" ELSE doing[m]
  BY <1>1
<1>4. \A p \in Pid : RowOk(p)'
  BY <1>2, <1>3 DEF SessInv, RowOk
<1>5. ASSUME NEW m \in Reg PROVE RegOk(m)'
  <2>1. RegOk(m) /\ before'[m] = before[m] /\ rpid'[m] = rpid[m] /\ before[m] \subseteq Reg
    BY <1>1 DEF SessInv
  <2>2. doing[n] # "done" /\ doing[n] \in Registering
    BY DEF Registering
  <2>3. doing'[m] \in Registering \cup {"done"} => \A k \in before[m] : doing[k] = "done"
    BY <1>3, <2>1, <2>2 DEF RegOk
  <2>4. doing'[m] \in Registering \cup {"done"} => \A k \in before'[m] : doing'[k] = "done"
    BY <1>3, <2>1, <2>3
  <2>5. doing'[m] = "update" => sess'[rpid'[m]] # 0
    BY <1>1, <1>2, <1>3, <2>1 DEF RegOk
  <2>6. doing'[m] = "done" => sess'[rpid'[m]] # 0 /\ sess'[rpid'[m]] \notin before'[m]
    <3>1. SUFFICES ASSUME doing'[m] = "done"
                   PROVE  sess'[rpid[m]] # 0 /\ sess'[rpid[m]] \notin before[m]
      BY <2>1
    <3>2. n \notin before[m]
      BY <2>2, <2>3, <3>1
    <3>3. CASE rpid[m] = rpid[n]
      BY <1>1, <1>2, <3>2, <3>3
    <3>4. CASE rpid[m] # rpid[n]
      <4>1. m # n /\ doing[m] = "done"
        BY <1>3, <3>1, <3>4
      <4>2. rpid[m] \in Pid /\ sess'[rpid[m]] = sess[rpid[m]]
        BY <1>1, <1>2, <3>4, <4>1
      <4>3. QED BY <2>1, <4>1, <4>2 DEF RegOk
    <3>5. QED BY <3>3, <3>4
  <2>7. QED BY <2>4, <2>5, <2>6 DEF RegOk
<1>6. QED BY <1>4, <1>5 DEF SessInv

LEMMA SessNext == Typed /\ SessInv /\ [Next]_vars => SessInv'
<1> SUFFICES ASSUME Typed, SessInv, [Next]_vars PROVE SessInv'
  OBVIOUS
<1>a. UNCHANGED <<regVars, sess>> => SessInv'
  BY SessKept
<1>b. /\ doing \in [Reg -> {"none", "done", "failed"} \cup Registering]
      /\ rpid \in [Reg -> Pid \cup {Nobody}] /\ before \in [Reg -> SUBSET Reg]
      /\ \A n \in Reg : doing[n] # "none" => rpid[n] \in Pid
      /\ sess \in [Pid -> 0..MaxRegs]
  BY DEF Typed, RegType, SessType
<1>c. (\A p \in Pid : RowOk(p)) /\ (\A n \in Reg : RegOk(n))
  BY DEF SessInv
<1>1. CASE \E p \in Pid, v \in Value : AccountServer(p, v)
  BY <1>a, <1>1 DEF AccountServer
<1>2. CASE \E r \in Try, p \in Pid : Ask(r, p)
  BY <1>a, <1>2 DEF Ask
<1>3. CASE \E r \in Try : \/ Lookup(r) \/ LookupFails(r)
                         \/ Create(r) \/ CreateFails(r) \/ Issue(r)
  BY <1>a, <1>3 DEF Lookup, LookupFails, Create, CreateFails, Issue
<1>4. CASE \E a \in Addr, t \in tickets : Connect(a, t)
  BY <1>a, <1>4 DEF Connect
<1>5. CASE \E a \in Addr : Drop(a)
  BY <1>a, <1>5 DEF Drop
<1>6. CASE \E n \in Reg, a \in Addr : Register(n, a)
  <2>1. PICK n \in Reg, a \in Addr : Register(n, a)
    BY <1>6
  <2>2. /\ doing[n] = "none" /\ sess' = sess
        /\ doing' = [doing EXCEPT ![n] = "exists"]
        /\ rpid' = [rpid EXCEPT ![n] = conns[a]]
        /\ before' = [before EXCEPT ![n] = {m \in Reg : doing[m] = "done"}]
    BY <2>1 DEF Register
  <2>3. \A m \in Reg : m # n => /\ doing'[m] = doing[m] /\ rpid'[m] = rpid[m]
                              /\ before'[m] = before[m]
    BY <1>b, <2>2
  <2>4. \A m \in Reg : doing[m] = "done" => doing'[m] = "done"
    BY <2>2, <2>3
  <2>5. \A p \in Pid : RowOk(p)'
    BY <1>c, <2>2, <2>3 DEF RowOk
  <2>6. RegOk(n)'
    <3>1. doing'[n] = "exists" /\ before'[n] = {m \in Reg : doing[m] = "done"}
      BY <1>b, <2>2
    <3>2. \A m \in before'[n] : doing'[m] = "done"
      BY <2>4, <3>1
    <3>3. QED BY <3>1, <3>2 DEF RegOk
  <2>7. ASSUME NEW m \in Reg, m # n PROVE RegOk(m)'
    <3>1. RegOk(m) /\ before[m] \subseteq Reg
      BY <1>b, <1>c
    <3>2. QED BY <2>2, <2>3, <2>4, <2>7, <3>1 DEF RegOk
  <2>8. QED BY <2>5, <2>6, <2>7 DEF SessInv
<1>7. CASE \E n \in Reg : Exists(n) \/ RegisterFails(n)
  <2>1. PICK n \in Reg : Exists(n) \/ RegisterFails(n)
    BY <1>7
  <2>2. /\ doing[n] \in Registering /\ UNCHANGED <<rpid, before, sess>>
        /\ doing'[n] \in {"update", "add", "failed"}
        /\ doing'[n] = "update" => sess[rpid[n]] # 0
        /\ \A m \in Reg : m # n => doing'[m] = doing[m]
    BY <1>b, <2>1 DEF Exists, RegisterFails, Registering
  <2>3. \A m \in Reg : doing[m] = "done" => doing'[m] = "done"
    BY <2>2 DEF Registering
  <2>4. \A p \in Pid : RowOk(p)'
    BY <1>c, <2>2, <2>3 DEF RowOk
  <2>5. ASSUME NEW m \in Reg PROVE RegOk(m)'
    <3>1. RegOk(m) /\ before[m] \subseteq Reg
      BY <1>b, <1>c
    <3>2. CASE m = n
      BY <2>2, <2>3, <3>1, <3>2 DEF RegOk
    <3>3. CASE m # n
      BY <2>2, <2>3, <3>1, <3>3 DEF RegOk
    <3>4. QED BY <3>2, <3>3
  <2>6. QED BY <2>4, <2>5 DEF SessInv
<1>8. CASE \E n \in Reg : AddSession(n)
  BY <1>8, SessWritten DEF AddSession
<1>9. CASE \E n \in Reg : UpdateSession(n)
  <2>1. PICK n \in Reg : UpdateSession(n)
    BY <1>9
  <2>2. sess[rpid[n]] # 0
    BY <1>c, <2>1 DEF UpdateSession, RegOk
  <2>3. QED BY <2>1, <2>2, SessWritten DEF UpdateSession
<1>10. CASE Tick
  BY <1>a, <1>10 DEF Tick
<1>11. CASE Restart
  <2>1. /\ sess' = [p \in Pid |-> 0]
        /\ \A n \in Reg : doing'[n] \in {"none", "failed"}
    BY <1>11 DEF Restart
  <2>2. QED BY <2>1 DEF SessInv, RowOk, RegOk, Registering
<1>12. CASE UNCHANGED vars
  BY <1>a, <1>12 DEF vars, regVars
<1>13. QED
  BY <1>1, <1>2, <1>3, <1>4, <1>5, <1>6, <1>7, <1>8, <1>9, <1>10, <1>11, <1>12 DEF Next

\* For any number of players and overlapping calls, a registration that was
\* answered has left a row of its player that is no older than itself.
THEOREM SessionsCorrect == Spec => []LatestRegistration
<1>1. Init => Typed /\ SessInv
  BY TypeInit, SessInit
<1>2. Typed /\ SessInv /\ [Next]_vars => (Typed /\ SessInv)'
  BY TypeNext, SessNext
<1>3. Typed /\ SessInv => LatestRegistration
  BY DEF SessInv, RowOk, RegOk, LatestRegistration, Typed, RegType
<1>4. QED BY <1>1, <1>2, <1>3, PTL DEF Spec
=============================================================================
