------------------------------- MODULE PrudpReply -------------------------------
(***************************************************************************)
(* The reply path of the connections of one client address                 *)
(* (nex/server.py, _dispatch, _send_data, _handle_aggregate_ack): one task *)
(* per request, which awaits the handler, takes the next sequence id,      *)
(* sends, and resends while its key is in Connection.pending; the ACKs     *)
(* that empty pending; and SYN, DISCONNECT and the idle timeout, which     *)
(* take the connection away under the tasks.                               *)
(*                                                                         *)
(* A reply sent and not delivered by ClientGets is lost.  An ACK stays in  *)
(* the network: it may arrive late, twice or never.                        *)
(***************************************************************************)
EXTENDS Naturals

CONSTANTS SeqMod,       \* data_seq is modulo this (2^16)
          ResendLimit,  \* PRUDP_RESEND_LIMIT
          StaleAcks,    \* TRUE: an ACK may outlive the connection it is for
          MaxReq,       \* bound: requests dispatched
          MaxConn       \* bound: Connection objects

ASSUME ReplyAssumption == /\ SeqMod \in Nat \ {0}
                          /\ ResendLimit \in Nat \ {0}
                          /\ StaleAcks \in BOOLEAN
                          /\ MaxReq \in Nat /\ MaxConn \in Nat

VARIABLES cur,      \* the Connection in the table, 0 if there is none
          nconn,    \* how many Connections were created
          replies,  \* per Connection, how many replies took a data_seq
          pending,  \* per Connection, the sequence ids in pending
          ended,    \* Connections whose pending was cleared for good
          nreq,     \* how many requests were dispatched
          pc,       \* where the task of each request is
          on,       \* the Connection it holds
          nth,      \* its reply is the nth of that connection
          tries,    \* how often it was resent
          got,      \* requests whose reply reached the client
          acks      \* ACKs in the network

vars == <<cur, nconn, replies, pending, ended, nreq, pc, on, nth, tries, got, acks>>

Conn == 1..MaxConn
Req == 1..MaxReq

Init ==
  /\ cur = 0 /\ nconn = 0 /\ nreq = 0
  /\ replies = [c \in Conn |-> 0]
  /\ pending = [c \in Conn |-> {}]
  /\ ended = {}
  /\ pc = [r \in Req |-> "none"]
  /\ on = [r \in Req |-> 0]
  /\ nth = [r \in Req |-> 0]
  /\ tries = [r \in Req |-> 0]
  /\ got = {}
  /\ acks = {}

connVars == <<cur, nconn, ended>>
clientVars == <<got, acks>>

\* Connection.data_seq of the nth reply: it starts at 1 and wraps to 0.
SeqId(n) == n % SeqMod

-----------------------------------------------------------------------------
(* The tasks *)

\* _data schedules _dispatch for a request, and its handler runs.
Dispatch ==
  /\ cur # 0
  /\ nreq < MaxReq
  /\ nreq' = nreq + 1
  /\ pc' = [pc EXCEPT ![nreq + 1] = "handling"]
  /\ on' = [on EXCEPT ![nreq + 1] = cur]
  /\ UNCHANGED <<connVars, replies, pending, nth, tries, clientVars>>

\* The handler returned or raised: the reply, or the error in its place, takes
\* the next data_seq, is sent, and is pending.  The task uses the Connection it
\* was started with, which may have left the table meanwhile.
Send(r) ==
  /\ pc[r] = "handling"
  /\ pc' = [pc EXCEPT ![r] = "sent"]
  /\ nth' = [nth EXCEPT ![r] = replies[on[r]] + 1]
  /\ replies' = [replies EXCEPT ![on[r]] = @ + 1]
  /\ pending' = [pending EXCEPT ![on[r]] = @ \cup {SeqId(replies[on[r]] + 1)}]
  /\ UNCHANGED <<connVars, nreq, on, tries, clientVars>>

Key(r) == SeqId(nth[r])
Unacked(r) == pc[r] = "sent" /\ Key(r) \in pending[on[r]]

\* A sleep of _send_data ends and the key is gone.
Acked(r) ==
  /\ pc[r] = "sent"
  /\ ~Unacked(r)
  /\ pc' = [pc EXCEPT ![r] = "acked"]
  /\ UNCHANGED <<connVars, replies, pending, nreq, on, nth, tries, clientVars>>

\* Mutant of Resend: one resend too many.
ResendOnceMore(r) ==
  /\ Unacked(r)
  /\ tries[r] <= ResendLimit
  /\ tries' = [tries EXCEPT ![r] = @ + 1]
  /\ UNCHANGED <<connVars, replies, pending, nreq, pc, on, nth, clientVars>>

\* Mutant of Resend: resends are not counted.
ResendUncounted(r) ==
  /\ Unacked(r)
  /\ UNCHANGED vars

\* A sleep ends and the key is still there, with resends left.
Resend(r) ==
  /\ Unacked(r)
  /\ tries[r] + 1 < ResendLimit
  /\ tries' = [tries EXCEPT ![r] = @ + 1]
  /\ UNCHANGED <<connVars, replies, pending, nreq, pc, on, nth, clientVars>>

\* Mutant of GiveUp: the key of a reply given up stays in pending.
GiveUpLeak(r) ==
  /\ Unacked(r)
  /\ tries[r] + 1 = ResendLimit
  /\ tries' = [tries EXCEPT ![r] = @ + 1]
  /\ pc' = [pc EXCEPT ![r] = "gave up"]
  /\ UNCHANGED <<connVars, replies, pending, nreq, on, nth, clientVars>>

\* The last resend: the loop ends without another sleep and drops the key.
GiveUp(r) ==
  /\ Unacked(r)
  /\ tries[r] + 1 = ResendLimit
  /\ tries' = [tries EXCEPT ![r] = @ + 1]
  /\ pc' = [pc EXCEPT ![r] = "gave up"]
  /\ pending' = [pending EXCEPT ![on[r]] = @ \ {Key(r)}]
  /\ UNCHANGED <<connVars, replies, nreq, on, nth, clientVars>>

-----------------------------------------------------------------------------
(* The client, and its ACKs *)

ClientGets(r) ==
  /\ pc[r] \notin {"none", "handling"}
  /\ on[r] = nconn
  /\ got' = got \cup {r}
  /\ UNCHANGED <<connVars, replies, pending, nreq, pc, on, nth, tries, acks>>

\* The replies of connection c, by number, that the client has.
Has(c) == {nth[r] : r \in {q \in got : on[q] = c}}

\* An ACK of one packet, or an aggregate ACK of all up to a number.  The ids
\* an aggregate ACK lists beyond its base are the ACKs of one packet.
ClientAcks ==
  /\ \E c \in Conn, n \in 1..MaxReq :
       \/ n \in Has(c) /\ acks' = acks \cup {[conn |-> c, all |-> FALSE, n |-> n]}
       \/ 1..n \subseteq Has(c) /\ acks' = acks \cup {[conn |-> c, all |-> TRUE, n |-> n]}
  /\ UNCHANGED <<connVars, replies, pending, nreq, pc, on, nth, tries, got>>

\* Mutant of Cleared: every ACK is read as an aggregate one.
ClearedUpTo(m) == {s \in pending[cur] : s <= SeqId(m.n)}

\* The keys an ACK takes out of pending: its own, or kseq <= base_id.
Cleared(m) ==
  {s \in pending[cur] : s = SeqId(m.n) \/ (m.all /\ s <= SeqId(m.n))}

\* An ACK arrives; _route gives it to the connection the address has now.
Ack(m) ==
  /\ cur # 0
  /\ StaleAcks \/ m.conn = cur
  /\ pending' = [pending EXCEPT ![cur] = @ \ Cleared(m)]
  /\ UNCHANGED <<connVars, replies, nreq, pc, on, nth, tries, clientVars>>

-----------------------------------------------------------------------------
(* The connection *)

\* SYN and CONNECT: the old connection's pending is cleared, a new one is in
\* the table.
Connect ==
  /\ nconn < MaxConn
  /\ nconn' = nconn + 1
  /\ cur' = nconn + 1
  /\ pending' = [c \in Conn |-> IF c = cur THEN {} ELSE pending[c]]
  /\ ended' = ended \cup ({cur} \ {0})
  /\ UNCHANGED <<replies, nreq, pc, on, nth, tries, clientVars>>

\* DISCONNECT: the connection leaves the table, its pending stays.
Disconnect ==
  /\ cur # 0
  /\ cur' = 0
  /\ UNCHANGED <<nconn, ended, replies, pending, nreq, pc, on, nth, tries, clientVars>>

\* The idle timeout: the connection leaves the table and pending is cleared.
Evict ==
  /\ cur # 0
  /\ cur' = 0
  /\ pending' = [pending EXCEPT ![cur] = {}]
  /\ ended' = ended \cup {cur}
  /\ UNCHANGED <<nconn, replies, nreq, pc, on, nth, tries, clientVars>>

TaskStep(r) == Send(r) \/ Acked(r) \/ Resend(r) \/ GiveUp(r)

Next ==
  \/ Dispatch
  \/ \E r \in Req : TaskStep(r) \/ ClientGets(r)
  \/ ClientAcks
  \/ \E m \in acks : Ack(m)
  \/ Connect \/ Disconnect \/ Evict

Spec == Init /\ [][Next]_vars

\* Handlers return and sleeps end; nothing is asked of the client.
FairSpec == Spec /\ \A r \in Req : WF_vars(TaskStep(r))

-----------------------------------------------------------------------------
(* Properties *)

\* Type correctness of the tasks, the connections and the ACKs.
TypeOK ==
  /\ nconn \in 0..MaxConn
  /\ cur \in {0, nconn}
  /\ ended \subseteq 1..nconn
  /\ replies \in [Conn -> Nat]
  /\ pending \in [Conn -> SUBSET (0..(SeqMod - 1))]
  /\ nreq \in 0..MaxReq
  /\ pc \in [Req -> {"none", "handling", "sent", "acked", "gave up"}]
  /\ on \in [Req -> 0..nconn]
  /\ nth \in [Req -> Nat]
  /\ tries \in [Req -> 0..ResendLimit]
  /\ got \subseteq Req
  /\ acks \subseteq [conn : 1..nconn, all : BOOLEAN, n : Nat]

\* pending holds no key that nobody will take out: each belongs to a task that
\* is still resending, also after the connection was replaced or left.
PendingHasTask ==
  \A c \in Conn : \A s \in pending[c] :
    \E r \in Req : pc[r] = "sent" /\ on[r] = c /\ Key(r) = s

\* The server stops resending a reply short of the limit only if the client
\* has it or the connection's pending was cleared: no ACK of another reply,
\* single or aggregate, stands for it.
StopsOnlyIfReceived ==
  \A r \in Req :
    (\/ pc[r] = "acked"
     \/ pc[r] = "sent" /\ ~Unacked(r)) => r \in got \/ on[r] \in ended

\* Every request is answered and every task ends, whatever becomes of the
\* connection and of the client: nothing waits for an ACK for ever.
TasksEnd ==
  \A r \in Req : (pc[r] # "none") ~> (pc[r] \in {"acked", "gave up"})
=============================================================================
