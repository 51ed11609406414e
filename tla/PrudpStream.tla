------------------------------ MODULE PrudpStream ------------------------------
(***************************************************************************)
(* The request path of one CONNECTED Connection (nex/server.py, _data):    *)
(* the window of sequence ids already seen, the position of the RC4 stream *)
(* that decrypts in order of arrival, the acknowledgement sent before      *)
(* either is looked at, and the requests that come out of it.              *)
(*                                                                         *)
(* The client enciphers its requests 1, 2, ... one after the other, so     *)
(* that each has an offset in the key stream.  UDP may deliver any packet  *)
(* sent so far, at any time, any number of times or never.  A payload      *)
(* decrypted at another position than its own is noise, which              *)
(* decode_request rejects by its length field.                             *)
(***************************************************************************)
EXTENDS Naturals, Sequences, FiniteSets

CONSTANTS Size,       \* payload sizes; 0 is a packet without a request
          SeqMod,     \* sequence ids are modulo this (2^16)
          SeenLimit,  \* seen_data_seqs is cut when it is over this (256) ...
          SeenKeep,   \* ... to this many (128)
          InOrder,    \* TRUE: no packet overtakes or is lost for good
          MaxLag,     \* with InOrder, how many requests a duplicate may be late
          MaxReq,     \* bound: requests made in a behaviour
          MaxPos,     \* bound: how far the key stream is followed
          MaxRekey    \* bound: late CONNECTs accepted in a behaviour

ASSUME SizeAssumption == Size \subseteq Nat
ASSUME LimitAssumption == /\ SeqMod \in Nat \ {0}
                          /\ SeenLimit \in Nat /\ SeenKeep \in Nat
                          /\ MaxLag \in Nat /\ MaxReq \in Nat
                          /\ MaxPos \in Nat /\ MaxRekey \in Nat
                          /\ InOrder \in BOOLEAN

VARIABLES size,        \* size of the payload of each request made
          off,         \* its offset in the client's key stream
          clientPos,   \* where that stream is
          seen,        \* Connection.seen_data_seqs
          decPos,      \* where the server's rc4._dec is
          acked,       \* requests the server has acknowledged
          dispatched,  \* requests handed to _dispatch, in order
          rekeys       \* late CONNECTs accepted so far

vars == <<size, off, clientPos, seen, decPos, acked, dispatched, rekeys>>

Made == 1..Len(size)
Dispatched == {dispatched[i] : i \in 1..Len(dispatched)}

Init ==
  /\ size = <<>>
  /\ off = <<>>
  /\ clientPos = 0
  /\ seen = {}
  /\ decPos = 0
  /\ acked = {}
  /\ dispatched = <<>>
  /\ rekeys = 0

-----------------------------------------------------------------------------
(* The client *)

\* The client numbers, enciphers and sends one more request.
Make(n) ==
  /\ Len(size) < MaxReq
  /\ size' = Append(size, n)
  /\ off' = Append(off, clientPos)
  /\ clientPos' = clientPos + n
  /\ UNCHANGED <<seen, decPos, acked, dispatched, rekeys>>

\* Mutant of SeqId: the id is not cut to the width of the header field.
SeqIdWide(r) == r

\* The sequence id in the header of request r.
SeqId(r) == r % SeqMod

\* What the network may deliver now.  In order means that the packets before
\* r have arrived, and that a copy of r comes before MaxLag later ones.
Deliverable(r) ==
  InOrder => /\ \A q \in Made : q < r => q \in acked
             /\ \A q \in acked : q <= r + MaxLag

-----------------------------------------------------------------------------
(* _data *)

\* The k largest sequence ids of S: sorted(S)[-k:].
Largest(S, k) == {x \in S : Cardinality({y \in S : y > x}) < k}

\* Mutant of Remember: the set is cut to its smallest ids, sorted()[:128].
RememberSmallest(s) ==
  IF Cardinality(seen \cup {s}) > SeenLimit
  THEN {x \in seen \cup {s} : Cardinality({y \in seen \cup {s} : y < x}) < SeenKeep}
  ELSE seen \cup {s}

\* seen_data_seqs once s was added to it.
Remember(s) ==
  IF Cardinality(seen \cup {s}) > SeenLimit
  THEN Largest(seen \cup {s}, SeenKeep)
  ELSE seen \cup {s}

\* Mutant of Ack: the acknowledgement names the next request.
AckNext(r) == acked' = acked \cup {r + 1}

\* A DATA packet that asks for it (FLAG_NEED_ACK) is acknowledged first; those of
\* a console are taken to ask always.
Ack(r) == acked' = acked \cup {r}

\* An empty payload is acknowledged and leaves everything else alone.
ReceiveEmpty(r) ==
  /\ Deliverable(r)
  /\ size[r] = 0
  /\ Ack(r)
  /\ UNCHANGED <<size, off, clientPos, seen, decPos, dispatched, rekeys>>

\* The test that makes _data drop a packet.
Duplicate(r) == size[r] # 0 /\ SeqId(r) \in seen

\* A known sequence id: acknowledged, and dropped before it is decrypted.
ReceiveDuplicate(r) ==
  /\ Deliverable(r)
  /\ Duplicate(r)
  /\ Ack(r)
  /\ UNCHANGED <<size, off, clientPos, seen, decPos, dispatched, rekeys>>

\* Mutant of Decodes: noise is taken for a request.
DecodesAlways(r) == TRUE

\* The payload is in step with the stream, so that decode_request accepts it.
Decodes(r) == decPos = off[r]

\* Mutant of ReceiveNew: decrypted before the duplicate check.
ReceiveNewUnchecked(r) ==
  /\ Deliverable(r)
  /\ size[r] # 0
  /\ decPos + size[r] <= MaxPos
  /\ Ack(r)
  /\ seen' = Remember(SeqId(r))
  /\ decPos' = decPos + size[r]
  /\ dispatched' = IF Decodes(r) /\ ~Duplicate(r)
                   THEN Append(dispatched, r) ELSE dispatched
  /\ UNCHANGED <<size, off, clientPos, rekeys>>

\* A new sequence id: the stream moves on by the payload in any case, and the
\* request is dispatched or, if it does not decode, forgotten.
ReceiveNew(r) ==
  /\ Deliverable(r)
  /\ size[r] # 0
  /\ ~Duplicate(r)
  /\ decPos + size[r] <= MaxPos
  /\ Ack(r)
  /\ seen' = Remember(SeqId(r))
  /\ decPos' = decPos + size[r]
  /\ dispatched' = IF Decodes(r) THEN Append(dispatched, r) ELSE dispatched
  /\ UNCHANGED <<size, off, clientPos, rekeys>>

\* Mutant of Rekey: the late CONNECT also empties the seen set.
RekeyForgets ==
  /\ rekeys < MaxRekey
  /\ rekeys' = rekeys + 1
  /\ decPos' = 0
  /\ seen' = {}
  /\ UNCHANGED <<size, off, clientPos, acked, dispatched>>

\* A duplicate of the client's CONNECT arrives late: _connect makes a new
\* RC4Stream and leaves seen_data_seqs as it is.
Rekey ==
  /\ rekeys < MaxRekey
  /\ rekeys' = rekeys + 1
  /\ decPos' = 0
  /\ UNCHANGED <<size, off, clientPos, seen, acked, dispatched>>

Next ==
  \/ \E n \in Size : Make(n)
  \/ \E r \in Made : ReceiveEmpty(r) \/ ReceiveDuplicate(r) \/ ReceiveNew(r)
  \/ Rekey

Spec == Init /\ [][Next]_vars

-----------------------------------------------------------------------------
(* Properties *)

\* Type correctness of the stream.
TypeOK ==
  /\ size \in Seq(Size)
  /\ off \in Seq(Nat)
  /\ Len(off) = Len(size)
  /\ clientPos \in Nat
  /\ seen \subseteq 0..(SeqMod - 1)
  /\ decPos \in 0..MaxPos
  /\ acked \subseteq Made
  /\ dispatched \in Seq(Nat)
  /\ Dispatched \subseteq Made
  /\ rekeys \in 0..MaxRekey

\* Until a CONNECT comes late, requests reach the dispatcher in the order the
\* client made them and none of them twice, although the seen set forgets old
\* sequence ids and sequence ids come again: it is the key stream, not the set,
\* that guarantees it.
InOrderAtMostOnce ==
  rekeys = 0 =>
    \A i, j \in 1..Len(dispatched) : i < j => dispatched[i] < dispatched[j]

\* No request runs twice even when late CONNECTs rewind the key stream: now it
\* is the seen set that prevents it, as long as it holds every request made.
AtMostOnce ==
  Len(size) < SeqMod /\ Len(size) <= SeenLimit =>
    \A i, j \in 1..Len(dispatched) : dispatched[i] = dispatched[j] => i = j

\* No CONNECT came late, and no sequence id came again.
Fresh == rekeys = 0 /\ Len(size) < SeqMod

\* Over a network that neither loses for good nor reorders, but duplicates,
\* every acknowledged request has been dispatched: no duplicate moves the key
\* stream, also while the seen set is being cut.
AckedIsDispatched ==
  Fresh => \A r \in acked : size[r] # 0 => r \in Dispatched

\* What _data logs of a duplicate, "ignored (already processed)", is true.
DuplicateWasProcessed ==
  Fresh => \A r \in Made : Deliverable(r) /\ Duplicate(r) => r \in Dispatched

\* Until a CONNECT comes late, the request path implements the channel that
\* keeps order: each of its steps is one of the channel or leaves it alone.
Channel == INSTANCE RequestChannel WITH made <- Len(size)
ChannelSpec == Channel!Init /\ [][rekeys = 0 => Channel!Next]_(Channel!vars)
=============================================================================
