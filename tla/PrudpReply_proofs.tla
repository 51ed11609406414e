---------------------------- MODULE PrudpReply_proofs ----------------------------
(***************************************************************************)
(* Proofs about PrudpReply, for any number of requests, connections and    *)
(* resends: types, no orphan in pending, and no resending stopped by an    *)
(* ACK of another reply.  That every task ends is liveness and is checked  *)
(* by TLC only.                                                            *)
(***************************************************************************)
EXTENDS PrudpReply, FiniteSetTheorems, TLAPS

Replied == {"sent", "acked", "gave up"}

\* Requests are numbered as they come, and each task has its connection.
TaskInv ==
  /\ \A r \in Req : r > nreq => pc[r] = "none"
  /\ \A r \in Req : pc[r] # "none" => on[r] \in Conn
  /\ \A r \in got : pc[r] \in Replied

Base == TypeOK /\ TaskInv

LEMMA SeqIdFacts ==
  ASSUME NEW n \in Nat
  PROVE  /\ SeqId(n) \in 0..(SeqMod - 1)
         /\ n < SeqMod => SeqId(n) = n
BY ReplyAssumption DEF SeqId

-----------------------------------------------------------------------------
(* Type correctness *)

LEMMA BaseInit == Init => Base
BY ReplyAssumption DEF Init, Base, TypeOK, TaskInv

\* What a step of task r may do to the tasks.
LEMMA TaskFacts ==
  ASSUME Base, NEW r \in Req, TaskStep(r)
  PROVE  /\ pc[r] \in {"handling", "sent"} /\ pc'[r] \in Replied /\ on[r] \in Conn
         /\ \A q \in Req : q # r => pc'[q] = pc[q] /\ nth'[q] = nth[q]
         /\ pc[r] = "sent" => nth'[r] = nth[r]
         /\ UNCHANGED <<cur, nconn, ended, nreq, on, got, acks>>
<1>1. /\ pc \in [Req -> {"none", "handling", "sent", "acked", "gave up"}]
      /\ nth \in [Req -> Nat]
  BY DEF Base, TypeOK
<1>2. CASE Send(r)
  BY <1>1, <1>2 DEF Send, connVars, clientVars, Replied, Base, TaskInv
<1>3. CASE Acked(r)
  BY <1>1, <1>3 DEF Acked, connVars, clientVars, Replied, Base, TaskInv
<1>4. CASE Resend(r)
  BY <1>1, <1>4 DEF Resend, Unacked, connVars, clientVars, Replied, Base, TaskInv
<1>5. CASE GiveUp(r)
  BY <1>1, <1>5 DEF GiveUp, Unacked, connVars, clientVars, Replied, Base, TaskInv
<1>6. QED BY <1>2, <1>3, <1>4, <1>5 DEF TaskStep

LEMMA TaskBase ==
  ASSUME Base, NEW r \in Req, TaskStep(r)
  PROVE  Base'
<1>1. TypeOK /\ TaskInv
  BY DEF Base
<1>2. /\ pc[r] \in {"handling", "sent"} /\ pc'[r] \in Replied /\ on[r] \in Conn
      /\ \A q \in Req : q # r => pc'[q] = pc[q] /\ nth'[q] = nth[q]
      /\ UNCHANGED <<cur, nconn, ended, nreq, on, got, acks>>
  BY TaskFacts
<1>3. TaskInv'
  BY <1>1, <1>2 DEF TaskInv, TypeOK, Replied
<1>4. pc' \in [Req -> {"none", "handling", "sent", "acked", "gave up"}]
  BY <1>1 DEF TaskStep, Send, Acked, Resend, GiveUp, TypeOK
<1>t. /\ replies \in [Conn -> Nat] /\ nth \in [Req -> Nat]
      /\ tries \in [Req -> 0..ResendLimit] /\ ResendLimit \in Nat
      /\ pending \in [Conn -> SUBSET (0..(SeqMod - 1))]
  BY <1>1, ReplyAssumption DEF TypeOK
<1>n. replies[on[r]] + 1 \in Nat /\ tries[r] \in 0..ResendLimit
  BY <1>2, <1>t
<1>5. replies' \in [Conn -> Nat] /\ nth' \in [Req -> Nat]
  <2>1. CASE Send(r)
    BY <1>t, <1>n, <2>1 DEF Send
  <2>2. CASE Acked(r) \/ Resend(r) \/ GiveUp(r)
    BY <1>t, <2>2 DEF Acked, Resend, GiveUp
  <2>3. QED BY <2>1, <2>2 DEF TaskStep
<1>6. tries' \in [Req -> 0..ResendLimit]
  <2>1. CASE Send(r) \/ Acked(r)
    BY <1>t, <2>1 DEF Send, Acked
  <2>2. CASE Resend(r) \/ GiveUp(r)
    <3>1. /\ tries[r] + 1 < ResendLimit \/ tries[r] + 1 = ResendLimit
          /\ tries' = [tries EXCEPT ![r] = tries[r] + 1]
      BY <2>2 DEF Resend, GiveUp
    <3>2. tries[r] + 1 \in 0..ResendLimit
      BY <1>t, <1>n, <3>1
    <3>3. QED BY <1>t, <3>1, <3>2
  <2>3. QED BY <2>1, <2>2 DEF TaskStep
<1>7. pending' \in [Conn -> SUBSET (0..(SeqMod - 1))]
  <2>2. SeqId(replies[on[r]] + 1) \in 0..(SeqMod - 1)
    BY <1>n, SeqIdFacts
  <2>3. pending \in [Conn -> SUBSET (0..(SeqMod - 1))]
    BY <1>t
  <2>4. CASE Send(r)
    BY <2>2, <2>3, <2>4 DEF Send
  <2>5. CASE GiveUp(r)
    BY <2>3, <2>5 DEF GiveUp
  <2>6. CASE Acked(r) \/ Resend(r)
    BY <2>3, <2>6 DEF Acked, Resend
  <2>7. QED BY <2>4, <2>5, <2>6 DEF TaskStep
<1>8. QED BY <1>1, <1>2, <1>3, <1>4, <1>5, <1>6, <1>7 DEF Base, TypeOK

\* The connection of an ACK the client can send.
LEMMA HasFacts ==
  ASSUME Base, NEW c \in Conn, Has(c) # {}
  PROVE  c \in 1..nconn
<1>1. PICK r \in got : on[r] = c
  BY DEF Has
<1>2. c \in 0..nconn /\ nconn \in 0..MaxConn /\ c \in 1..MaxConn
  BY <1>1 DEF Base, TypeOK, Conn
<1>3. QED BY <1>2, ReplyAssumption

LEMMA BaseNext == Base /\ [Next]_vars => Base'
<1> SUFFICES ASSUME Base, [Next]_vars PROVE Base'
  OBVIOUS
<1>a. TypeOK /\ TaskInv
  BY DEF Base
<1>b. /\ nconn \in 0..MaxConn /\ MaxConn \in Nat /\ (cur = 0 \/ cur = nconn)
      /\ nreq \in 0..MaxReq /\ MaxReq \in Nat
      /\ ended \subseteq 1..nconn /\ on \in [Req -> 0..nconn]
      /\ acks \subseteq [conn : 1..nconn, all : BOOLEAN, n : Nat]
  BY <1>a, ReplyAssumption DEF TypeOK
<1>1. CASE Dispatch
  <2>0. cur # 0 /\ nreq < MaxReq /\ nreq' = nreq + 1
    BY <1>1 DEF Dispatch
  <2>1. nreq + 1 \in Req /\ cur \in Conn /\ cur \in 0..nconn /\ nreq' \in 0..MaxReq
    BY <1>b, <2>0 DEF Req, Conn
  <2>2. /\ pc' = [pc EXCEPT ![nreq + 1] = "handling"]
        /\ on' = [on EXCEPT ![nreq + 1] = cur] /\ nreq' = nreq + 1
        /\ UNCHANGED <<cur, nconn, ended, replies, pending, nth, tries, got, acks>>
    BY <1>1 DEF Dispatch, connVars, clientVars
  <2>3. nreq + 1 \notin got
    <3>1. nreq + 1 > nreq
      BY <1>b
    <3>2. pc[nreq + 1] = "none"
      BY <1>a, <2>1, <3>1 DEF TaskInv
    <3>3. QED BY <1>a, <3>2 DEF TaskInv, Replied
  <2>4. TaskInv'
    <3>1. \A r \in Req : r # nreq + 1 => pc'[r] = pc[r] /\ on'[r] = on[r]
      BY <1>a, <2>2 DEF TypeOK
    <3>2. pc'[nreq + 1] = "handling" /\ on'[nreq + 1] = cur
      BY <1>a, <2>1, <2>2 DEF TypeOK
    <3>3. \A r \in Req : r > nreq + 1 => r > nreq /\ r # nreq + 1
      BY <1>b DEF Req
    <3>4. \A r \in got : r \in Req /\ r # nreq + 1
      BY <1>a, <2>3 DEF TypeOK
    <3>5. QED BY <1>a, <2>1, <2>2, <3>1, <3>2, <3>3, <3>4 DEF TaskInv
  <2>5. QED BY <1>a, <2>1, <2>2, <2>4 DEF Base, TypeOK
<1>2. CASE \E r \in Req : TaskStep(r)
  BY <1>2, TaskBase
<1>3. CASE \E r \in Req : ClientGets(r)
  <2>1. PICK r \in Req : ClientGets(r)
    BY <1>3
  <2>2. pc[r] \in Replied
    BY <1>a, <2>1 DEF ClientGets, TypeOK, Replied
  <2>3. QED BY <1>a, <2>1, <2>2 DEF ClientGets, connVars, Base, TypeOK, TaskInv
<1>4. CASE ClientAcks
  <2>1. PICK c \in Conn, n \in 1..MaxReq :
          \/ n \in Has(c) /\ acks' = acks \cup {[conn |-> c, all |-> FALSE, n |-> n]}
          \/ 1..n \subseteq Has(c) /\ acks' = acks \cup {[conn |-> c, all |-> TRUE, n |-> n]}
    BY <1>4 DEF ClientAcks
  <2>2. n \in Nat /\ Has(c) # {}
    BY <2>1, ReplyAssumption
  <2>3. c \in 1..nconn
    BY <2>2, HasFacts
  <2>4. acks' \subseteq [conn : 1..nconn, all : BOOLEAN, n : Nat]
    <3>1. \A b \in BOOLEAN : [conn |-> c, all |-> b, n |-> n]
                               \in [conn : 1..nconn, all : BOOLEAN, n : Nat]
      BY <2>2, <2>3
    <3>2. /\ [conn |-> c, all |-> FALSE, n |-> n] \in [conn : 1..nconn, all : BOOLEAN, n : Nat]
          /\ [conn |-> c, all |-> TRUE, n |-> n] \in [conn : 1..nconn, all : BOOLEAN, n : Nat]
      BY <3>1
    <3>3. QED BY <1>b, <2>1, <3>2
  <2>5. UNCHANGED <<cur, nconn, ended, replies, pending, nreq, pc, on, nth, tries, got>>
    BY <1>4 DEF ClientAcks, connVars
  <2>6. QED BY <1>a, <2>4, <2>5 DEF Base, TypeOK, TaskInv
<1>5. CASE \E m \in acks : Ack(m)
  <2>1. PICK m \in acks : Ack(m)
    BY <1>5
  <2>2. pending' \in [Conn -> SUBSET (0..(SeqMod - 1))]
    BY <1>a, <2>1 DEF Ack, TypeOK
  <2>3. QED BY <1>a, <2>1, <2>2 DEF Ack, connVars, clientVars, Base, TypeOK, TaskInv
<1>6. CASE Connect
  <2>1. pending' \in [Conn -> SUBSET (0..(SeqMod - 1))]
    BY <1>a, <1>6 DEF Connect, TypeOK
  <2>n. nconn < MaxConn /\ nconn' = nconn + 1 /\ cur' = nconn + 1 /\ on' = on
        /\ ended' = ended \cup ({cur} \ {0})
    BY <1>6 DEF Connect
  <2>2. /\ nconn' \in 0..MaxConn /\ cur' \in {0, nconn'} /\ 0..nconn \subseteq 0..nconn'
        /\ 1..nconn \subseteq 1..nconn'
    BY <1>b, <2>n
  <2>e. ended' \subseteq 1..nconn'
    <3>1. {cur} \ {0} \subseteq 1..nconn
      BY <1>b
    <3>2. QED BY <1>b, <2>n, <2>2, <3>1
  <2>3. /\ on \in [Req -> 0..nconn']
        /\ acks \subseteq [conn : 1..nconn', all : BOOLEAN, n : Nat]
    BY <1>b, <2>2
  <2>4. UNCHANGED <<replies, nreq, pc, on, nth, tries, got, acks>>
    BY <1>6 DEF Connect, clientVars
  <2>5. QED BY <1>a, <2>1, <2>2, <2>3, <2>4, <2>e DEF Base, TypeOK, TaskInv
<1>7. CASE Disconnect
  BY <1>a, <1>7 DEF Disconnect, clientVars, Base, TypeOK, TaskInv
<1>8. CASE Evict
  <2>1. pending' \in [Conn -> SUBSET (0..(SeqMod - 1))]
    BY <1>a, <1>8 DEF Evict, TypeOK
  <2>2. cur' = 0 /\ ended' \subseteq 1..nconn
    <3>1. cur # 0 /\ cur' = 0 /\ ended' = ended \cup {cur}
      BY <1>8 DEF Evict
    <3>2. cur \in 1..nconn
      BY <1>b, <3>1
    <3>3. QED BY <1>b, <3>1, <3>2
  <2>3. UNCHANGED <<nconn, replies, nreq, pc, on, nth, tries, got, acks>>
    BY <1>8 DEF Evict, clientVars
  <2>4. QED BY <1>a, <2>1, <2>2, <2>3 DEF Base, TypeOK, TaskInv
<1>9. CASE UNCHANGED vars
  BY <1>a, <1>9 DEF vars, Base, TypeOK, TaskInv
<1>10. QED
  BY <1>1, <1>2, <1>3, <1>4, <1>5, <1>6, <1>7, <1>8, <1>9 DEF Next

\* Type correctness of tasks, connections and ACKs, whatever is lost or late.
THEOREM TypeCorrect == Spec => []TypeOK
<1>1. Spec => []Base
  BY BaseInit, BaseNext, PTL DEF Spec
<1>2. QED BY <1>1, PTL DEF Base

-----------------------------------------------------------------------------
(* Reply numbers *)

\* The replies of a connection that have a number.
Sent(c) == {r \in Req : on[r] = c /\ pc[r] \in Replied}

\* The replies of a connection are numbered from 1, each with a number of its
\* own; there are as many as numbers were taken.
NumInv ==
  /\ \A r \in Req : pc[r] \in Replied => nth[r] \in 1..replies[on[r]]
  /\ \A q, r \in Req : /\ pc[q] \in Replied /\ pc[r] \in Replied
                        /\ on[q] = on[r] /\ nth[q] = nth[r]
                        => q = r
  /\ \A c \in Conn : Cardinality(Sent(c)) = replies[c]

LEMMA NumInit == Init => NumInv
<1> SUFFICES ASSUME Init PROVE NumInv
  OBVIOUS
<1>1. \A r \in Req : pc[r] \notin Replied
  BY DEF Init, Replied
<1>2. \A c \in Conn : Sent(c) = {} /\ replies[c] = 0
  BY <1>1 DEF Init, Sent
<1>3. QED BY <1>1, <1>2, FS_EmptySet DEF NumInv

\* A step after which the same replies have the same numbers.
LEMMA NumKept ==
  ASSUME NumInv, UNCHANGED replies,
         \A r \in Req : pc'[r] \in Replied <=> pc[r] \in Replied,
         \A r \in Req : pc[r] \in Replied => on'[r] = on[r] /\ nth'[r] = nth[r]
  PROVE  NumInv'
<1>1. \A c \in Conn : Sent(c)' = Sent(c)
  BY DEF Sent
<1>2. QED BY <1>1 DEF NumInv

LEMMA NumSend ==
  ASSUME Base, NumInv, NEW r \in Req, Send(r)
  PROVE  NumInv'
<1>1. /\ on[r] \in Conn /\ pc[r] = "handling" /\ on' = on
      /\ replies \in [Conn -> Nat] /\ nth \in [Req -> Nat]
      /\ pc \in [Req -> {"none", "handling", "sent", "acked", "gave up"}]
      /\ pc' = [pc EXCEPT ![r] = "sent"]
      /\ nth' = [nth EXCEPT ![r] = replies[on[r]] + 1]
      /\ replies' = [replies EXCEPT ![on[r]] = replies[on[r]] + 1]
  BY DEF Send, Base, TypeOK, TaskInv
<1>2. /\ pc'[r] \in Replied /\ pc[r] \notin Replied
      /\ nth'[r] = replies[on[r]] + 1 /\ replies'[on[r]] = replies[on[r]] + 1
      /\ \A q \in Req : q # r => pc'[q] = pc[q] /\ nth'[q] = nth[q]
      /\ \A c \in Conn : c # on[r] => replies'[c] = replies[c]
      /\ replies[on[r]] \in Nat
  BY <1>1 DEF Replied
<1>o. \A q \in Req : pc[q] \in Replied => on[q] \in Conn
  BY DEF Base, TaskInv, Replied
<1>3. \A q \in Req : q # r /\ pc[q] \in Replied =>
        /\ nth[q] \in 1..replies[on[q]]
        /\ nth[q] \in 1..replies'[on[q]]
        /\ on[q] = on[r] => nth[q] # nth'[r]
  <2>1. SUFFICES ASSUME NEW q \in Req, q # r, pc[q] \in Replied
                 PROVE  /\ nth[q] \in 1..replies[on[q]]
                        /\ nth[q] \in 1..replies'[on[q]]
                        /\ on[q] = on[r] => nth[q] # nth'[r]
    OBVIOUS
  <2>2. nth[q] \in 1..replies[on[q]]
    BY <2>1 DEF NumInv
  <2>3. CASE on[q] = on[r]
    BY <1>2, <2>2, <2>3
  <2>4. CASE on[q] # on[r]
    BY <1>2, <1>o, <2>1, <2>2, <2>4
  <2>5. QED BY <2>2, <2>3, <2>4
<1>4. \A q \in Req : pc'[q] \in Replied => nth'[q] \in 1..replies'[on'[q]]
  <2>1. SUFFICES ASSUME NEW q \in Req, pc'[q] \in Replied
                 PROVE  nth'[q] \in 1..replies'[on[q]]
    BY <1>1
  <2>2. CASE q = r
    BY <1>2, <2>2
  <2>3. CASE q # r
    BY <1>2, <1>3, <2>1, <2>3
  <2>4. QED BY <2>2, <2>3
<1>5. \A p, q \in Req : /\ pc'[p] \in Replied /\ pc'[q] \in Replied
                        /\ on'[p] = on'[q] /\ nth'[p] = nth'[q]
                        => p = q
  <2>1. SUFFICES ASSUME NEW p \in Req, NEW q \in Req,
                        pc'[p] \in Replied, pc'[q] \in Replied,
                        on[p] = on[q], nth'[p] = nth'[q], p # q
                 PROVE  FALSE
    BY <1>1
  <2>2. CASE p = r
    BY <1>2, <1>3, <2>1, <2>2
  <2>3. CASE q = r
    BY <1>2, <1>3, <2>1, <2>3
  <2>4. CASE p # r /\ q # r
    BY <1>2, <2>1, <2>4 DEF NumInv
  <2>5. QED BY <2>2, <2>3, <2>4
<1>6. \A c \in Conn : Cardinality(Sent(c)') = replies'[c]
  <2>1. SUFFICES ASSUME NEW c \in Conn PROVE Cardinality(Sent(c)') = replies'[c]
    OBVIOUS
  <2>2. CASE c = on[r]
    <3>1. Sent(c)' = Sent(c) \cup {r} /\ r \notin Sent(c)
      BY <1>1, <1>2, <2>2 DEF Sent
    <3>2. IsFiniteSet(Sent(c))
      <4>1. Sent(c) \subseteq 1..MaxReq
        BY DEF Sent, Req
      <4>2. IsFiniteSet(1..MaxReq)
        BY FS_Interval, ReplyAssumption
      <4>3. QED BY <4>1, <4>2, FS_Subset
    <3>3. Cardinality(Sent(c) \cup {r}) = Cardinality(Sent(c)) + 1
      BY <3>1, <3>2, FS_AddElement
    <3>4. QED BY <1>2, <2>2, <3>1, <3>3 DEF NumInv
  <2>3. CASE c # on[r]
    <3>1. Sent(c)' = Sent(c)
      BY <1>1, <1>2, <2>3 DEF Sent
    <3>2. QED BY <1>2, <2>3, <3>1 DEF NumInv
  <2>4. QED BY <2>2, <2>3
<1>7. QED BY <1>4, <1>5, <1>6 DEF NumInv

LEMMA NumNext == Base /\ NumInv /\ [Next]_vars => NumInv'
<1> SUFFICES ASSUME Base, NumInv, [Next]_vars PROVE NumInv'
  OBVIOUS
<1>a. UNCHANGED <<replies, pc, on, nth>> => NumInv'
  BY NumKept
<1>1. CASE Dispatch
  <2>0. nreq + 1 \in 1..MaxReq /\ nreq + 1 > nreq
    <3>1. nreq \in 0..MaxReq /\ MaxReq \in Nat /\ nreq < MaxReq
      BY <1>1, ReplyAssumption DEF Dispatch, Base, TypeOK
    <3>2. QED BY <3>1
  <2>1. nreq + 1 \in Req /\ nreq + 1 > nreq
    BY <2>0 DEF Req
  <2>2. /\ pc \in [Req -> {"none", "handling", "sent", "acked", "gave up"}]
        /\ pc' = [pc EXCEPT ![nreq + 1] = "handling"]
        /\ on' = [on EXCEPT ![nreq + 1] = cur] /\ on \in [Req -> 0..nconn]
        /\ UNCHANGED <<replies, nth>>
    BY <1>1 DEF Dispatch, Base, TypeOK
  <2>3. pc[nreq + 1] = "none"
    BY <2>1 DEF Base, TaskInv
  <2>4. \A r \in Req : /\ pc'[r] \in Replied <=> pc[r] \in Replied
                       /\ pc[r] \in Replied => on'[r] = on[r] /\ nth'[r] = nth[r]
    BY <2>1, <2>2, <2>3 DEF Replied
  <2>5. QED BY <2>2, <2>4, NumKept
<1>2. CASE \E r \in Req : Send(r)
  BY <1>2, NumSend
<1>3. CASE \E r \in Req : Acked(r) \/ Resend(r) \/ GiveUp(r)
  <2>1. PICK r \in Req : Acked(r) \/ Resend(r) \/ GiveUp(r)
    BY <1>3
  <2>2. pc[r] \in Replied /\ UNCHANGED <<replies, on, nth>>
    BY <2>1 DEF Acked, Resend, GiveUp, Unacked, Replied
  <2>3. TaskStep(r)
    BY <2>1 DEF TaskStep
  <2>4. pc'[r] \in Replied /\ \A q \in Req : q # r => pc'[q] = pc[q]
    BY <2>3, TaskFacts
  <2>5. QED BY <2>2, <2>4, NumKept
<1>4. CASE \E r \in Req : ClientGets(r)
  BY <1>a, <1>4 DEF ClientGets
<1>5. CASE ClientAcks \/ Connect \/ Disconnect \/ Evict
  BY <1>a, <1>5 DEF ClientAcks, Connect, Disconnect, Evict
<1>6. CASE \E m \in acks : Ack(m)
  BY <1>a, <1>6 DEF Ack
<1>7. CASE UNCHANGED vars
  BY <1>a, <1>7 DEF vars
<1>8. QED
  BY <1>1, <1>2, <1>3, <1>4, <1>5, <1>6, <1>7 DEF Next, TaskStep

\* While there are fewer requests than sequence ids, a key is a number.
LEMMA KeyIsNumber ==
  ASSUME MaxReq < SeqMod, Base, NumInv, NEW r \in Req, pc[r] \in Replied
  PROVE  Key(r) = nth[r] /\ nth[r] \in Nat
<1>1. on[r] \in Conn
  BY DEF Base, TaskInv, Replied
<1>2. Sent(on[r]) \subseteq 1..MaxReq /\ IsFiniteSet(1..MaxReq)
  BY FS_Interval, ReplyAssumption DEF Sent, Req
<1>3. Cardinality(Sent(on[r])) <= Cardinality(1..MaxReq)
  BY <1>2, FS_Subset
<1>4. Cardinality(1..MaxReq) = MaxReq
  BY FS_Interval, ReplyAssumption
<1>5. replies[on[r]] <= MaxReq /\ replies[on[r]] \in Nat
  BY <1>1, <1>3, <1>4 DEF NumInv, Base, TypeOK
<1>6. nth[r] \in 1..replies[on[r]]
  BY DEF NumInv
<1>7. nth[r] \in Nat /\ nth[r] < SeqMod
  BY <1>5, <1>6, ReplyAssumption
<1>8. QED BY <1>7, SeqIdFacts DEF Key

-----------------------------------------------------------------------------
(* pending *)

LEMMA PendingInit == Init => PendingHasTask
BY DEF Init, PendingHasTask

LEMMA PendingKept ==
  ASSUME PendingHasTask, \A c \in Conn : pending'[c] \subseteq pending[c],
         \A r \in Req : pc[r] = "sent" => pc'[r] = "sent" /\ on'[r] = on[r] /\ nth'[r] = nth[r]
  PROVE  PendingHasTask'
BY DEF PendingHasTask, Key

LEMMA PendingNext == Base /\ PendingHasTask /\ [Next]_vars => PendingHasTask'
<1> SUFFICES ASSUME Base, PendingHasTask, [Next]_vars PROVE PendingHasTask'
  OBVIOUS
<1>a. /\ pending \in [Conn -> SUBSET (0..(SeqMod - 1))]
      /\ pc \in [Req -> {"none", "handling", "sent", "acked", "gave up"}]
      /\ nth \in [Req -> Nat] /\ on \in [Req -> 0..nconn] /\ replies \in [Conn -> Nat]
  BY DEF Base, TypeOK
<1>1. CASE Dispatch
  <2>1. /\ nreq \in Nat /\ nreq + 1 \in Req
        /\ pc' = [pc EXCEPT ![nreq + 1] = "handling"]
        /\ on' = [on EXCEPT ![nreq + 1] = cur]
        /\ UNCHANGED <<pending, nth>>
    <3>1. nreq \in 0..MaxReq /\ MaxReq \in Nat /\ nreq < MaxReq
      BY <1>1, ReplyAssumption DEF Dispatch, Base, TypeOK
    <3>2. nreq \in Nat /\ nreq + 1 \in 1..MaxReq
      BY <3>1
    <3>3. QED BY <1>1, <3>2 DEF Dispatch, Req
  <2>2. nreq + 1 > nreq
    BY <2>1
  <2>3. pc[nreq + 1] = "none"
    BY <2>1, <2>2 DEF Base, TaskInv
  <2>4. QED BY <1>a, <2>1, <2>3, PendingKept
<1>2. CASE \E r \in Req : Send(r)
  <2>1. PICK r \in Req : Send(r)
    BY <1>2
  <2>2. /\ on[r] \in Conn /\ pc[r] = "handling" /\ on' = on
        /\ pc'[r] = "sent" /\ nth'[r] = replies[on[r]] + 1
        /\ \A q \in Req : q # r => pc'[q] = pc[q] /\ nth'[q] = nth[q]
        /\ \A c \in Conn : pending'[c] = IF c = on[r]
                THEN pending[c] \cup {SeqId(replies[on[r]] + 1)} ELSE pending[c]
    BY <1>a, <2>1 DEF Send, Base, TaskInv
  <2>3. SUFFICES ASSUME NEW c \in Conn, NEW s \in pending'[c]
                 PROVE  \E q \in Req : pc'[q] = "sent" /\ on'[q] = c /\ SeqId(nth'[q]) = s
    BY DEF PendingHasTask, Key
  <2>4. CASE s \in pending[c]
    <3>1. PICK q \in Req : pc[q] = "sent" /\ on[q] = c /\ SeqId(nth[q]) = s
      BY <2>4 DEF PendingHasTask, Key
    <3>2. q # r
      BY <2>2, <3>1
    <3>3. pc'[q] = "sent" /\ on'[q] = c /\ nth'[q] = nth[q]
      BY <2>2, <3>1, <3>2
    <3>4. QED BY <3>1, <3>3
  <2>5. CASE s \notin pending[c]
    <3>1. c = on[r] /\ s = SeqId(replies[on[r]] + 1)
      BY <2>2, <2>3, <2>5
    <3>2. pc'[r] = "sent" /\ on'[r] = c /\ nth'[r] = replies[on[r]] + 1
      BY <2>2, <3>1
    <3>3. QED BY <3>1, <3>2
  <2>6. QED BY <2>4, <2>5
<1>3. CASE \E r \in Req : Acked(r)
  <2>1. PICK r \in Req : Acked(r)
    BY <1>3
  <2>2. /\ pc[r] = "sent" /\ Key(r) \notin pending[on[r]]
        /\ UNCHANGED <<pending, on, nth>>
        /\ \A q \in Req : q # r => pc'[q] = pc[q]
    BY <1>a, <2>1 DEF Acked, Unacked
  <2>3. SUFFICES ASSUME NEW c \in Conn, NEW s \in pending[c]
                 PROVE  \E q \in Req : pc'[q] = "sent" /\ on'[q] = c /\ SeqId(nth'[q]) = s
    BY <2>2 DEF PendingHasTask, Key
  <2>4. PICK q \in Req : pc[q] = "sent" /\ on[q] = c /\ Key(q) = s
    BY DEF PendingHasTask
  <2>5. q # r
    BY <2>2, <2>3, <2>4
  <2>6. QED BY <2>2, <2>4, <2>5 DEF Key
<1>4. CASE \E r \in Req : Resend(r)
  BY <1>4, PendingKept DEF Resend
<1>5. CASE \E r \in Req : GiveUp(r)
  <2>1. PICK r \in Req : GiveUp(r)
    BY <1>5
  <2>2. /\ on[r] \in Conn /\ UNCHANGED <<on, nth>>
        /\ \A q \in Req : q # r => pc'[q] = pc[q]
        /\ \A c \in Conn : pending'[c] = IF c = on[r] THEN pending[c] \ {Key(r)}
                                                       ELSE pending[c]
    BY <1>a, <2>1 DEF GiveUp, Unacked, Base, TaskInv
  <2>3. SUFFICES ASSUME NEW c \in Conn, NEW s \in pending'[c]
                 PROVE  \E q \in Req : pc'[q] = "sent" /\ on'[q] = c /\ SeqId(nth'[q]) = s
    BY DEF PendingHasTask, Key
  <2>4. s \in pending[c]
    BY <2>2, <2>3
  <2>5. PICK q \in Req : pc[q] = "sent" /\ on[q] = c /\ Key(q) = s
    BY <2>4 DEF PendingHasTask
  <2>6. q # r
    BY <2>2, <2>3, <2>5
  <2>7. QED BY <2>2, <2>5, <2>6 DEF Key
<1>6. CASE \E r \in Req : ClientGets(r)
  BY <1>6, PendingKept DEF ClientGets
<1>7. CASE ClientAcks \/ Disconnect
  BY <1>7, PendingKept DEF ClientAcks, Disconnect
<1>8. CASE \E m \in acks : Ack(m)
  <2>1. PICK m \in acks : Ack(m)
    BY <1>8
  <2>2. UNCHANGED <<pc, on, nth>> /\ \A c \in Conn : pending'[c] \subseteq pending[c]
    BY <1>a, <2>1 DEF Ack
  <2>3. QED BY <2>2, PendingKept
<1>9. CASE Connect \/ Evict
  <2>1. UNCHANGED <<pc, on, nth>> /\ \A c \in Conn : pending'[c] \subseteq pending[c]
    BY <1>a, <1>9 DEF Connect, Evict
  <2>2. QED BY <2>1, PendingKept
<1>10. CASE UNCHANGED vars
  BY <1>10, PendingKept DEF vars
<1>11. QED
  BY <1>1, <1>2, <1>3, <1>4, <1>5, <1>6, <1>7, <1>8, <1>9, <1>10 DEF Next, TaskStep

\* No key stays in pending without a task that will take it out, for any
\* number of requests and connections, and also when sequence ids wrap.
THEOREM PendingCorrect == Spec => []PendingHasTask
<1>1. Init => Base /\ PendingHasTask
  BY BaseInit, PendingInit
<1>2. Base /\ PendingHasTask /\ [Next]_vars => (Base /\ PendingHasTask)'
  BY BaseNext, PendingNext
<1>3. QED BY <1>1, <1>2, PTL DEF Spec

-----------------------------------------------------------------------------
(* ACKs *)

\* An ACK is of replies that the client has.
AckInv ==
  \A m \in acks : IF m.all THEN 1..m.n \subseteq Has(m.conn) ELSE m.n \in Has(m.conn)

\* What the client has of a connection, it keeps.
LEMMA HasKept ==
  ASSUME got \subseteq got', \A q \in got : on'[q] = on[q] /\ nth'[q] = nth[q]
  PROVE  \A c : Has(c) \subseteq {nth'[q] : q \in {p \in got' : on'[p] = c}}
BY DEF Has

LEMMA AckKept ==
  ASSUME AckInv, acks' = acks, got \subseteq got',
         \A q \in got : on'[q] = on[q] /\ nth'[q] = nth[q]
  PROVE  AckInv'
<1>1. \A m \in acks : Has(m.conn) \subseteq {nth'[q] : q \in {p \in got' : on'[p] = m.conn}}
  BY HasKept
<1>2. QED BY <1>1 DEF AckInv, Has

LEMMA AckNext == Base /\ AckInv /\ [Next]_vars => AckInv'
<1> SUFFICES ASSUME Base, AckInv, [Next]_vars PROVE AckInv'
  OBVIOUS
<1>a. /\ got \subseteq Req /\ on \in [Req -> 0..nconn]
      /\ \A q \in got : pc[q] \in Replied
  BY DEF Base, TypeOK, TaskInv
<1>1. CASE Dispatch
  <2>1. nreq + 1 > nreq
    <3>1. nreq \in 0..MaxReq /\ MaxReq \in Nat
      BY ReplyAssumption DEF Base, TypeOK
    <3>2. QED BY <3>1
  <2>2. \A q \in got : q # nreq + 1
    BY <1>a, <2>1 DEF Base, TaskInv, Replied
  <2>3. on' = [on EXCEPT ![nreq + 1] = cur] /\ UNCHANGED <<nth, got, acks>>
    BY <1>1 DEF Dispatch, clientVars
  <2>4. QED BY <1>a, <2>2, <2>3, AckKept
<1>2. CASE \E r \in Req : TaskStep(r)
  <2>1. PICK r \in Req : TaskStep(r)
    BY <1>2
  <2>2. /\ pc[r] \in {"handling", "sent"} /\ UNCHANGED <<on, got, acks>>
        /\ \A q \in Req : q # r => nth'[q] = nth[q]
        /\ pc[r] = "sent" => nth'[r] = nth[r]
    BY <2>1, TaskFacts
  <2>3. \A q \in got : nth'[q] = nth[q]
    BY <1>a, <2>2 DEF Replied
  <2>4. QED BY <2>2, <2>3, AckKept
<1>3. CASE \E r \in Req : ClientGets(r)
  BY <1>3, AckKept DEF ClientGets
<1>4. CASE ClientAcks
  <2>1. \A m \in acks' : IF m.all THEN 1..m.n \subseteq Has(m.conn) ELSE m.n \in Has(m.conn)
    <3>1. PICK c \in Conn, n \in 1..MaxReq :
            \/ n \in Has(c) /\ acks' = acks \cup {[conn |-> c, all |-> FALSE, n |-> n]}
            \/ 1..n \subseteq Has(c) /\ acks' = acks \cup {[conn |-> c, all |-> TRUE, n |-> n]}
      BY <1>4 DEF ClientAcks
    <3>2. QED BY <3>1 DEF AckInv
  <2>2. UNCHANGED <<got, on, nth>>
    BY <1>4 DEF ClientAcks
  <2>3. QED BY <2>1, <2>2 DEF AckInv, Has
<1>5. CASE (\E m \in acks : Ack(m)) \/ Connect \/ Disconnect \/ Evict
  BY <1>5, AckKept DEF Ack, Connect, Disconnect, Evict, clientVars
<1>6. CASE UNCHANGED vars
  BY <1>6, AckKept DEF vars
<1>7. QED BY <1>1, <1>2, <1>3, <1>4, <1>5, <1>6 DEF Next

\* A reply is still pending, the client has it, or its connection is over.
Settled(r) == \/ pc[r] = "sent" /\ nth[r] \in pending[on[r]]
              \/ r \in got \/ on[r] \in ended
StopInv == \A r \in Req : pc[r] \in {"sent", "acked"} => Settled(r)

\* Reply r is not touched, and keeps its number in pending or is settled.
LEMMA SettledKept ==
  ASSUME NEW r \in Req, Settled(r), pc'[r] = pc[r], on'[r] = on[r], nth'[r] = nth[r],
         got \subseteq got', ended \subseteq ended',
         nth[r] \in pending[on[r]] =>
           nth[r] \in pending'[on[r]] \/ r \in got' \/ on[r] \in ended'
  PROVE  Settled(r)'
BY DEF Settled

LEMMA StopAllKept ==
  ASSUME StopInv, UNCHANGED <<pc, on, nth>>, got \subseteq got', ended \subseteq ended',
         \A r \in Req : pc[r] \in {"sent", "acked"} /\ nth[r] \in pending[on[r]] =>
             nth[r] \in pending'[on[r]] \/ r \in got' \/ on[r] \in ended'
  PROVE  StopInv'
<1>1. SUFFICES ASSUME NEW r \in Req, pc[r] \in {"sent", "acked"} PROVE Settled(r)'
  BY DEF StopInv
<1>2. Settled(r)
  BY <1>1 DEF StopInv
<1>3. QED BY <1>1, <1>2, SettledKept

\* An ACK takes out of pending only replies that the client has.
LEMMA AckTakesReceived ==
  ASSUME ~StaleAcks, MaxReq < SeqMod, Base, NumInv, AckInv,
         NEW m \in acks, Ack(m),
         NEW r \in Req, pc[r] \in Replied, on[r] = cur, nth[r] \in Cleared(m)
  PROVE  r \in got
<1>1. m.conn = cur /\ m.n \in Nat /\ m.all \in BOOLEAN
  BY DEF Ack, Base, TypeOK
<1>2. nth[r] \in Nat
  BY KeyIsNumber
<1>3. nth[r] \in 1..replies[on[r]] /\ nth[r] >= 1
  BY <1>2 DEF NumInv
<1>4. \A k \in Has(cur) : k = nth[r] => r \in got
  <2>1. SUFFICES ASSUME NEW q \in got, on[q] = cur, nth[q] = nth[r] PROVE r \in got
    BY DEF Has
  <2>2. q \in Req /\ pc[q] \in Replied
    BY DEF Base, TypeOK, TaskInv
  <2>3. QED BY <2>1, <2>2 DEF NumInv
<1>5. SeqId(m.n) = m.n
  <2>1. CASE m.n = 0
    BY <2>1, SeqIdFacts, ReplyAssumption
  <2>2. CASE m.n # 0
    <3>1. m.n \in 1..m.n
      BY <1>1, <2>2
    <3>2. m.n \in Has(cur)
      BY <1>1, <3>1 DEF AckInv
    <3>3. PICK q \in got : nth[q] = m.n
      BY <3>2 DEF Has
    <3>4. q \in Req /\ pc[q] \in Replied
      BY DEF Base, TypeOK, TaskInv
    <3>5. Key(q) = nth[q]
      BY <3>4, KeyIsNumber
    <3>6. QED BY <3>3, <3>5 DEF Key
  <2>3. QED BY <2>1, <2>2
<1>6. nth[r] = m.n \/ (m.all /\ nth[r] <= m.n)
  BY <1>5 DEF Cleared
<1>7. nth[r] \in Has(cur)
  <2>1. CASE m.all
    <3>1. nth[r] \in 1..m.n
      BY <1>1, <1>2, <1>3, <1>6
    <3>2. QED BY <1>1, <2>1, <3>1 DEF AckInv
  <2>2. CASE ~m.all
    BY <1>1, <1>6, <2>2 DEF AckInv
  <2>3. QED BY <2>1, <2>2
<1>8. QED BY <1>4, <1>7

\* The number the next reply takes is its sequence id.
LEMMA NextIsNumber ==
  ASSUME MaxReq < SeqMod, Base, NumInv, NEW r \in Req, pc[r] = "handling"
  PROVE  SeqId(replies[on[r]] + 1) = replies[on[r]] + 1
<1> DEFINE S == Sent(on[r])
<1>1. on[r] \in Conn
  BY DEF Base, TaskInv
<1>2. S \subseteq 1..MaxReq /\ r \in 1..MaxReq /\ r \notin S
  BY DEF Sent, Req, Replied
<1>3. IsFiniteSet(1..MaxReq) /\ Cardinality(1..MaxReq) = MaxReq
  BY FS_Interval, ReplyAssumption
<1>4. IsFiniteSet(S)
  BY <1>2, <1>3, FS_Subset
<1>5. Cardinality(S \cup {r}) = Cardinality(S) + 1
  BY <1>2, <1>4, FS_AddElement
<1>6. S \cup {r} \subseteq 1..MaxReq
  BY <1>2
<1>7. Cardinality(S \cup {r}) <= Cardinality(1..MaxReq)
  BY <1>3, <1>6, FS_Subset
<1>8. Cardinality(S) = replies[on[r]] /\ replies[on[r]] \in Nat
  BY <1>1 DEF NumInv, Base, TypeOK
<1>9. replies[on[r]] + 1 \in Nat /\ replies[on[r]] + 1 < SeqMod
  BY <1>3, <1>5, <1>7, <1>8, ReplyAssumption
<1>10. QED BY <1>9, SeqIdFacts

LEMMA StopNext ==
  ASSUME ~StaleAcks, MaxReq < SeqMod, Base, NumInv, AckInv, StopInv, [Next]_vars
  PROVE  StopInv'
<1>a. /\ pending \in [Conn -> SUBSET (0..(SeqMod - 1))]
      /\ pc \in [Req -> {"none", "handling", "sent", "acked", "gave up"}]
      /\ nth \in [Req -> Nat] /\ on \in [Req -> 0..nconn] /\ replies \in [Conn -> Nat]
  BY DEF Base, TypeOK
<1>b. \A r \in Req : pc[r] \in Replied => on[r] \in Conn /\ Key(r) = nth[r]
  BY KeyIsNumber DEF Base, TaskInv, Replied
<1>1. CASE Dispatch
  <2>1. /\ pc' = [pc EXCEPT ![nreq + 1] = "handling"]
        /\ on' = [on EXCEPT ![nreq + 1] = cur]
        /\ UNCHANGED <<nth, pending, got, ended>>
    BY <1>1 DEF Dispatch, connVars, clientVars
  <2>2. SUFFICES ASSUME NEW r \in Req, pc'[r] \in {"sent", "acked"} PROVE Settled(r)'
    BY DEF StopInv
  <2>3. r # nreq + 1
    BY <1>a, <2>1, <2>2
  <2>4. pc'[r] = pc[r] /\ on'[r] = on[r]
    BY <1>a, <2>1, <2>3
  <2>5. Settled(r)
    BY <2>2, <2>4 DEF StopInv
  <2>6. QED BY <2>1, <2>4, <2>5, SettledKept
<1>2. CASE \E r \in Req : TaskStep(r)
  <2>1. PICK r \in Req : TaskStep(r)
    BY <1>2
  <2>2. /\ pc[r] \in {"handling", "sent"} /\ on[r] \in Conn
        /\ \A q \in Req : q # r => pc'[q] = pc[q] /\ nth'[q] = nth[q]
        /\ pc[r] = "sent" => nth'[r] = nth[r]
        /\ UNCHANGED <<ended, on, got>>
    BY <2>1, TaskFacts
  <2>3. ASSUME NEW q \in Req, q # r, pc'[q] \in {"sent", "acked"} PROVE Settled(q)'
    <3>1. pc[q] \in {"sent", "acked"} /\ pc[q] \in Replied /\ Settled(q)
      BY <2>2, <2>3 DEF StopInv, Replied
    <3>2. nth[q] \in pending[on[q]] => nth[q] \in pending'[on[q]]
      <4>1. CASE GiveUp(r)
        <5>1. pc[r] \in Replied /\ pending' = [pending EXCEPT ![on[r]] = pending[on[r]] \ {Key(r)}]
          BY <4>1 DEF GiveUp, Unacked, Replied
        <5>2. on[q] = on[r] => nth[q] # Key(r)
          BY <1>b, <2>3, <3>1, <5>1 DEF NumInv
        <5>3. on[q] \in Conn
          BY <1>b, <3>1
        <5>4. QED BY <1>a, <2>2, <5>1, <5>2, <5>3
      <4>2. CASE Send(r)
        <5>1. on[q] \in Conn
          BY <1>b, <3>1
        <5>2. QED BY <1>a, <2>2, <4>2, <5>1 DEF Send
      <4>3. CASE Acked(r) \/ Resend(r)
        BY <4>3 DEF Acked, Resend
      <4>4. QED BY <2>1, <4>1, <4>2, <4>3 DEF TaskStep
    <3>3. QED BY <2>2, <2>3, <3>1, <3>2, SettledKept
  <2>4. ASSUME pc'[r] \in {"sent", "acked"} PROVE Settled(r)'
    <3>1. CASE Send(r)
      <4>1. /\ pc'[r] = "sent" /\ nth'[r] = replies[on[r]] + 1
            /\ SeqId(replies[on[r]] + 1) \in pending'[on[r]]
        BY <1>a, <2>2, <3>1 DEF Send
      <4>2. SeqId(replies[on[r]] + 1) = replies[on[r]] + 1
        BY <3>1, NextIsNumber DEF Send
      <4>3. QED BY <2>2, <4>1, <4>2 DEF Settled
    <3>2. CASE Acked(r)
      <4>1. pc[r] = "sent" /\ pc[r] \in Replied /\ Key(r) \notin pending[on[r]]
        BY <3>2 DEF Acked, Unacked, Replied
      <4>2. r \in got \/ on[r] \in ended
        BY <1>b, <4>1 DEF StopInv, Settled
      <4>3. QED BY <2>2, <4>2 DEF Settled
    <3>3. CASE Resend(r)
      <4>1. pc[r] = "sent" /\ UNCHANGED <<pc, pending>>
        BY <3>3 DEF Resend, Unacked
      <4>2. Settled(r)
        BY <4>1 DEF StopInv
      <4>3. QED BY <2>2, <4>1, <4>2, SettledKept
    <3>4. CASE GiveUp(r)
      BY <1>a, <2>4, <3>4 DEF GiveUp
    <3>5. QED BY <2>1, <3>1, <3>2, <3>3, <3>4 DEF TaskStep
  <2>5. QED BY <2>3, <2>4 DEF StopInv
<1>3. CASE \E r \in Req : ClientGets(r)
  BY <1>3, StopAllKept DEF ClientGets, connVars
<1>4. CASE ClientAcks
  BY <1>4, StopAllKept DEF ClientAcks, connVars
<1>5. CASE \E m \in acks : Ack(m)
  <2>1. PICK m \in acks : Ack(m)
    BY <1>5
  <2>2. UNCHANGED <<pc, on, nth, got, ended>>
    BY <2>1 DEF Ack, connVars, clientVars
  <2>3. ASSUME NEW r \in Req, pc[r] \in {"sent", "acked"}, nth[r] \in pending[on[r]]
        PROVE  nth[r] \in pending'[on[r]] \/ r \in got'
    <3>1. pc[r] \in Replied
      BY <2>3 DEF Replied
    <3>2. on[r] \in Conn
      BY <1>b, <3>1
    <3>3. pending' = [pending EXCEPT ![cur] = pending[cur] \ Cleared(m)]
      BY <2>1 DEF Ack
    <3>4. CASE on[r] = cur /\ nth[r] \in Cleared(m)
      BY <2>1, <2>2, <3>1, <3>4, AckTakesReceived
    <3>5. CASE ~(on[r] = cur /\ nth[r] \in Cleared(m))
      BY <1>a, <2>3, <3>2, <3>3, <3>5
    <3>6. QED BY <3>4, <3>5
  <2>4. QED BY <2>2, <2>3, StopAllKept
<1>6. CASE Connect \/ Evict
  <2>1. /\ UNCHANGED <<pc, on, nth, got>> /\ ended \subseteq ended'
        /\ \A c \in Conn : c # cur => pending'[c] = pending[c]
        /\ cur # 0 => cur \in ended'
    BY <1>a, <1>6 DEF Connect, Evict, clientVars
  <2>2. ASSUME NEW r \in Req, pc[r] \in {"sent", "acked"}, nth[r] \in pending[on[r]]
        PROVE  nth[r] \in pending'[on[r]] \/ on[r] \in ended'
    <3>1. pc[r] \in Replied
      BY <2>2 DEF Replied
    <3>2. on[r] \in Conn
      BY <1>b, <3>1
    <3>3. on[r] # 0
      BY <3>2, ReplyAssumption DEF Conn
    <3>4. QED BY <2>1, <2>2, <3>2, <3>3
  <2>3. QED BY <2>1, <2>2, StopAllKept
<1>7. CASE Disconnect
  BY <1>7, StopAllKept DEF Disconnect, clientVars
<1>8. CASE UNCHANGED vars
  BY <1>8, StopAllKept DEF vars
<1>9. QED
  BY <1>1, <1>2, <1>3, <1>4, <1>5, <1>6, <1>7, <1>8 DEF Next

LEMMA StopInit == Init => AckInv /\ StopInv
BY DEF Init, AckInv, StopInv

\* With fewer requests than sequence ids, and ACKs that do not outlive their
\* connection, the server stops resending short of the limit only what the
\* client has or what belongs to a connection that is over.
THEOREM StopsCorrect ==
  ASSUME MaxReq < SeqMod, ~StaleAcks
  PROVE  Spec => []StopsOnlyIfReceived
<1> DEFINE Inv == Base /\ NumInv /\ AckInv /\ StopInv
<1>1. Init => Inv
  BY BaseInit, NumInit, StopInit
<1>2. Inv /\ [Next]_vars => Inv'
  BY BaseNext, NumNext, AckNext, StopNext
<1>3. Inv => StopsOnlyIfReceived
  <2>1. SUFFICES ASSUME Inv, NEW r \in Req,
                        \/ pc[r] = "acked"
                        \/ pc[r] = "sent" /\ ~Unacked(r)
                 PROVE  r \in got \/ on[r] \in ended
    BY DEF StopsOnlyIfReceived
  <2>2. pc[r] \in {"sent", "acked"} /\ pc[r] \in Replied
    BY <2>1 DEF Replied
  <2>3. Settled(r) /\ Key(r) = nth[r]
    BY <2>1, <2>2, KeyIsNumber DEF StopInv
  <2>4. QED BY <2>1, <2>3 DEF Settled, Unacked
<1>4. QED BY <1>1, <1>2, <1>3, PTL DEF Spec
=============================================================================
