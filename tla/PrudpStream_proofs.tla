--------------------------- MODULE PrudpStream_proofs ---------------------------
(***************************************************************************)
(* Theorems about PrudpStream, for payloads of every size, windows and     *)
(* sequence-id widths of every size and behaviours of every length.        *)
(***************************************************************************)
EXTENDS MCPrudpStream, TLAPS, FiniteSetTheorems, SequenceTheorems

-----------------------------------------------------------------------------
(* Type correctness *)

\* Sequence ids stay within the width of their field.
LEMMA SeqIdType == \A r \in Nat : SeqId(r) \in 0..(SeqMod - 1)
  BY LimitAssumption DEF SeqId

\* Cutting the seen set adds nothing to it.
LEMMA RememberSubset == \A s : Remember(s) \subseteq seen \cup {s}
  BY DEF Remember, Largest

\* Each request made has a number, a size and an offset.
LEMMA MadeType ==
  ASSUME TypeOK
  PROVE  /\ Len(size) \in Nat /\ Len(off) = Len(size)
         /\ \A r \in Made : r \in Nat /\ size[r] \in Nat /\ off[r] \in Nat
  <1>1. Len(size) \in Nat /\ Len(off) = Len(size)
    BY LenProperties DEF TypeOK
  <1>2. ASSUME NEW r \in Made PROVE r \in Nat /\ size[r] \in Nat /\ off[r] \in Nat
    <2>1. r \in 1..Len(size) /\ r \in 1..Len(off) /\ r \in Nat
      BY <1>1 DEF Made
    <2>2. size[r] \in Size /\ off[r] \in Nat
      BY <2>1, ElementOfSeq DEF TypeOK
    <2> QED
      BY <2>1, <2>2, SizeAssumption
  <1> QED
    BY <1>1, <1>2

\* What making one more request does to the client's record of them.
LEMMA MakeFacts ==
  ASSUME TypeOK, NEW n \in Size, Make(n)
  PROVE  /\ size' \in Seq(Size) /\ off' \in Seq(Nat)
         /\ n \in Nat /\ clientPos \in Nat /\ clientPos' = clientPos + n
         /\ Len(size') = Len(size) + 1 /\ Len(off') = Len(off) + 1
         /\ \A q \in Made : size'[q] = size[q] /\ off'[q] = off[q]
         /\ size'[Len(size) + 1] = n
         /\ off'[Len(size) + 1] = clientPos
         /\ Made' = Made \cup {Len(size) + 1}
  <1>1. n \in Nat /\ clientPos \in Nat /\ clientPos' = clientPos + n
    BY SizeAssumption DEF TypeOK, Make
  <1>2. /\ size' \in Seq(Size)
        /\ Len(size') = Len(size) + 1
        /\ \A q \in 1..Len(size) : size'[q] = size[q]
        /\ size'[Len(size) + 1] = n
    BY AppendProperties DEF TypeOK, Make
  <1>3. /\ off' \in Seq(Nat)
        /\ Len(off') = Len(off) + 1
        /\ \A q \in 1..Len(off) : off'[q] = off[q]
        /\ off'[Len(off) + 1] = clientPos
    BY <1>1, AppendProperties DEF TypeOK, Make
  <1> QED
    BY <1>1, <1>2, <1>3, MadeType DEF Made

LEMMA InitType == Init => TypeOK
  BY LimitAssumption DEF Init, TypeOK, Made, Dispatched

LEMMA NextType == TypeOK /\ [Next]_vars => TypeOK'
  <1> SUFFICES ASSUME TypeOK, [Next]_vars PROVE TypeOK'
    OBVIOUS
  <1>1. ASSUME NEW n \in Size, Make(n) PROVE TypeOK'
    <2>1. /\ size' \in Seq(Size) /\ off' \in Seq(Nat) /\ clientPos' \in Nat
          /\ Len(size') = Len(off') /\ Made \subseteq Made'
      BY <1>1, MakeFacts, MadeType
    <2> QED
      BY <1>1, <2>1 DEF TypeOK, Make, Dispatched
  <1>2. ASSUME NEW r \in Made, ReceiveEmpty(r) \/ ReceiveDuplicate(r)
        PROVE  TypeOK'
    BY <1>2 DEF TypeOK, ReceiveEmpty, ReceiveDuplicate, Ack, Made, Dispatched
  <1>3. ASSUME NEW r \in Made, ReceiveNew(r) PROVE TypeOK'
    <2>1. r \in Nat /\ size[r] \in Nat
      BY MadeType
    <2>2. seen' \subseteq 0..(SeqMod - 1)
      <3>1. seen' = Remember(SeqId(r))
        BY <1>3 DEF ReceiveNew
      <3>2. Remember(SeqId(r)) \subseteq seen \cup {SeqId(r)}
        BY RememberSubset
      <3>3. SeqId(r) \in 0..(SeqMod - 1)
        BY <2>1, SeqIdType
      <3>4. seen \subseteq 0..(SeqMod - 1)
        BY DEF TypeOK
      <3> QED
        BY <3>1, <3>2, <3>3, <3>4
    <2>3. decPos' \in 0..MaxPos
      BY <1>3, <2>1, LimitAssumption DEF TypeOK, ReceiveNew
    <2>4. dispatched' \in Seq(Nat) /\ Dispatched' \subseteq Dispatched \cup {r}
      BY <1>3, <2>1 DEF TypeOK, ReceiveNew, Dispatched
    <2> QED
      BY <1>3, <2>2, <2>3, <2>4 DEF TypeOK, ReceiveNew, Ack, Made
  <1>4. ASSUME Rekey PROVE TypeOK'
    BY <1>4, LimitAssumption DEF TypeOK, Rekey, Made, Dispatched
  <1>5. CASE UNCHANGED vars
    BY <1>5 DEF TypeOK, vars, Made, Dispatched
  <1> QED
    BY <1>1, <1>2, <1>3, <1>4, <1>5 DEF Next

\* Every variable of the stream keeps its type.
THEOREM TypeCorrect == Spec => []TypeOK
  BY InitType, NextType, PTL DEF Spec

-----------------------------------------------------------------------------
(* Order *)

\* The client's requests occupy disjoint stretches of the key stream, in order.
OffsetInv ==
  /\ \A q \in Made : off[q] + size[q] <= clientPos
  /\ \A q, r \in Made : q < r => off[q] + size[q] <= off[r]

\* Until a CONNECT comes late, whatever was dispatched lies behind the position
\* of the server's stream.
BehindInv ==
  rekeys = 0 =>
    \A i \in 1..Len(dispatched) :
      /\ size[dispatched[i]] # 0
      /\ off[dispatched[i]] + size[dispatched[i]] <= decPos

OrderInv == OffsetInv /\ BehindInv /\ InOrderAtMostOnce

LEMMA InitOrder == Init => OrderInv
  BY DEF Init, OrderInv, OffsetInv, BehindInv, InOrderAtMostOnce, Made

\* A request that decodes is later than every request dispatched before it.
LEMMA DecodesIsLater ==
  ASSUME TypeOK, OrderInv, rekeys = 0, NEW r \in Made, Decodes(r),
         NEW i \in 1..Len(dispatched)
  PROVE  dispatched[i] < r
  <1> DEFINE d == dispatched[i]
  <1>1. d \in Made
    BY DEF TypeOK, Dispatched
  <1>2. size[d] \in Nat \ {0} /\ off[d] \in Nat /\ off[r] \in Nat /\ size[r] \in Nat
    BY <1>1, MadeType DEF OrderInv, BehindInv
  <1>3. off[d] + size[d] <= off[r]
    BY DEF OrderInv, BehindInv, Decodes
  <1>4. r < d => off[r] + size[r] <= off[d]
    BY <1>1 DEF OrderInv, OffsetInv
  <1>5. d # r /\ ~(r < d)
    BY <1>2, <1>3, <1>4
  <1> QED
    BY <1>1, <1>5 DEF Made, TypeOK

LEMMA NextOrder == TypeOK /\ OrderInv /\ [Next]_vars => OrderInv'
  <1> SUFFICES ASSUME TypeOK, OrderInv, [Next]_vars PROVE OrderInv'
    OBVIOUS
  <1>1. ASSUME NEW n \in Size, Make(n) PROVE OrderInv'
    <2>1. /\ Made' = Made \cup {Len(size) + 1}
          /\ \A q \in Made : /\ size'[q] = size[q] /\ off'[q] = off[q]
                             /\ q \in Nat /\ q < Len(size) + 1
                             /\ size[q] \in Nat /\ off[q] \in Nat
          /\ size'[Len(size) + 1] = n
          /\ off'[Len(size) + 1] = clientPos
          /\ n \in Nat /\ clientPos \in Nat /\ clientPos' = clientPos + n
          /\ Len(size) \in Nat
      BY <1>1, MakeFacts, MadeType DEF Made
    <2>2. OffsetInv'
      BY <2>1 DEF OrderInv, OffsetInv
    <2>3. \A i \in 1..Len(dispatched) : dispatched[i] \in Made
      BY DEF TypeOK, Dispatched
    <2>4. BehindInv'
      BY <1>1, <2>1, <2>3 DEF OrderInv, BehindInv, Make
    <2>5. InOrderAtMostOnce'
      BY <1>1 DEF OrderInv, InOrderAtMostOnce, Make
    <2> QED
      BY <2>2, <2>4, <2>5 DEF OrderInv
  <1>2. ASSUME NEW r \in Made, ReceiveEmpty(r) \/ ReceiveDuplicate(r)
        PROVE  OrderInv'
    BY <1>2 DEF OrderInv, OffsetInv, BehindInv, InOrderAtMostOnce, Made,
                ReceiveEmpty, ReceiveDuplicate
  <1>3. ASSUME NEW r \in Made, ReceiveNew(r) PROVE OrderInv'
    <2>1. OffsetInv'
      BY <1>3 DEF OrderInv, OffsetInv, Made, ReceiveNew
    <2>2. /\ size[r] \in Nat \ {0} /\ off[r] \in Nat /\ decPos \in Nat
          /\ decPos' = decPos + size[r]
          /\ UNCHANGED <<size, off>>
      BY <1>3, MadeType DEF TypeOK, ReceiveNew
    <2>3. \A i \in 1..Len(dispatched) :
            /\ dispatched[i] \in Made
            /\ size[dispatched[i]] \in Nat /\ off[dispatched[i]] \in Nat
      BY MadeType DEF TypeOK, Dispatched
    <2>4. CASE Decodes(r)
      <3>1. /\ dispatched' = Append(dispatched, r)
            /\ Len(dispatched') = Len(dispatched) + 1
            /\ Len(dispatched) \in Nat
            /\ dispatched'[Len(dispatched) + 1] = r
            /\ \A i \in 1..Len(dispatched) : dispatched'[i] = dispatched[i]
        BY <1>3, <2>4 DEF ReceiveNew, TypeOK, Made
      <3>2. BehindInv'
        BY <1>3, <2>2, <2>3, <2>4, <3>1 DEF OrderInv, BehindInv, Decodes, ReceiveNew
      <3>3. rekeys = 0 => \A i \in 1..Len(dispatched) : dispatched[i] < r
        BY <2>4, DecodesIsLater
      <3>4. InOrderAtMostOnce'
        BY <1>3, <3>1, <3>3 DEF OrderInv, InOrderAtMostOnce, ReceiveNew
      <3> QED
        BY <2>1, <3>2, <3>4 DEF OrderInv
    <2>5. CASE ~Decodes(r)
      <3>1. dispatched' = dispatched /\ rekeys' = rekeys
        BY <1>3, <2>5 DEF ReceiveNew
      <3>2. BehindInv'
        BY <2>2, <2>3, <3>1 DEF OrderInv, BehindInv
      <3> QED
        BY <2>1, <3>1, <3>2 DEF OrderInv, InOrderAtMostOnce
    <2> QED
      BY <2>4, <2>5
  <1>4. ASSUME Rekey PROVE OrderInv'
    <2>1. rekeys' # 0 /\ UNCHANGED <<size, off, clientPos, dispatched>>
      BY <1>4 DEF Rekey, TypeOK
    <2> QED
      BY <2>1 DEF OrderInv, OffsetInv, BehindInv, InOrderAtMostOnce, Made
  <1>5. CASE UNCHANGED vars
    BY <1>5 DEF OrderInv, OffsetInv, BehindInv, InOrderAtMostOnce, Made, vars
  <1> QED
    BY <1>1, <1>2, <1>3, <1>4, <1>5 DEF Next

\* Over any network, and with any seen set and any width of the sequence ids,
\* requests are dispatched in the client's order and at most once, until a late
\* CONNECT rewinds the key stream.
THEOREM OrderCorrect == Spec => []InOrderAtMostOnce
  <1>1. Init => TypeOK /\ OrderInv
    BY InitType, InitOrder
  <1>2. TypeOK /\ OrderInv /\ [Next]_vars => (TypeOK /\ OrderInv)'
    BY NextType, NextOrder
  <1>3. OrderInv => InOrderAtMostOnce
    BY DEF OrderInv
  <1> QED
    BY <1>1, <1>2, <1>3, PTL DEF Spec

\* The request path implements RequestChannel until then.
THEOREM ImplementsChannel == Spec => ChannelSpec
  <1>1. Init => Channel!Init
    BY DEF Init, Channel!Init
  <1>2. TypeOK /\ OrderInv /\ [Next]_vars
          => [rekeys = 0 => Channel!Next]_(Channel!vars)
    <2> SUFFICES ASSUME TypeOK, OrderInv, [Next]_vars, rekeys = 0
                 PROVE  Channel!Next \/ UNCHANGED Channel!vars
      OBVIOUS
    <2>1. ASSUME NEW n \in Size, Make(n) PROVE Channel!Next
      BY <2>1, SizeAssumption DEF Make, TypeOK, Channel!Next, Channel!Make
    <2>2. ASSUME NEW r \in Made, ReceiveNew(r), Decodes(r) PROVE Channel!Next
      <3>1. Channel!Dispatch(r)
        BY <2>2, DecodesIsLater DEF ReceiveNew, Channel!Dispatch
      <3> QED
        BY <3>1 DEF Channel!Next, Made
    <2>3. ASSUME NEW r \in Made,
                 \/ ReceiveEmpty(r)
                 \/ ReceiveDuplicate(r)
                 \/ ReceiveNew(r) /\ ~Decodes(r)
          PROVE  UNCHANGED Channel!vars
      BY <2>3 DEF ReceiveEmpty, ReceiveDuplicate, ReceiveNew, Channel!vars
    <2>4. CASE Rekey \/ UNCHANGED vars
      BY <2>4 DEF Rekey, vars, Channel!vars
    <2> QED
      BY <2>1, <2>2, <2>3, <2>4 DEF Next
  <1>3. Init => TypeOK /\ OrderInv
    BY InitType, InitOrder
  <1>4. TypeOK /\ OrderInv /\ [Next]_vars => (TypeOK /\ OrderInv)'
    BY NextType, NextOrder
  <1> QED
    BY <1>1, <1>2, <1>3, <1>4, PTL DEF Spec, ChannelSpec

-----------------------------------------------------------------------------
(* At most once, with late CONNECTs *)

\* The seen set has not been cut and sequence ids have not wrapped.
Roomy == Len(size) < SeqMod /\ Len(size) <= SeenLimit

\* Until then the seen set holds the id of every request that was dispatched.
SeenInv ==
  Roomy => /\ seen \subseteq Made
           /\ Dispatched \subseteq seen
           /\ AtMostOnce

LEMMA InitSeen == Init => SeenInv
  BY DEF Init, SeenInv, Roomy, Made, Dispatched, AtMostOnce

\* A set of numbers of requests made is too small to be cut.
LEMMA NoCut ==
  ASSUME TypeOK, SeenInv, Roomy, NEW r \in Made
  PROVE  Remember(r) = seen \cup {r}
  <1>1. /\ IsFiniteSet(1..Len(size))
        /\ Cardinality(1..Len(size)) = Len(size)
    <2>1. Len(size) \in Nat /\ 1 \in Int /\ Len(size) \in Int
      BY MadeType
    <2>2. /\ IsFiniteSet(1..Len(size))
          /\ Cardinality(1..Len(size)) = IF 1 > Len(size) THEN 0 ELSE Len(size) - 1 + 1
      BY <2>1, FS_Interval
    <2> QED
      BY <2>1, <2>2
  <1>2. seen \cup {r} \subseteq 1..Len(size)
    BY DEF SeenInv, Made
  <1>3. Cardinality(seen \cup {r}) <= Len(size)
    BY <1>1, <1>2, FS_Subset
  <1>4. Cardinality(seen \cup {r}) \in Nat
    BY <1>1, <1>2, FS_Subset, FS_CardinalityType
  <1> QED
    BY <1>3, <1>4, MadeType, LimitAssumption DEF Remember, Roomy

LEMMA NextSeen == TypeOK /\ SeenInv /\ [Next]_vars => SeenInv'
  <1> SUFFICES ASSUME TypeOK, SeenInv, [Next]_vars PROVE SeenInv'
    OBVIOUS
  <1>1. ASSUME NEW n \in Size, Make(n) PROVE SeenInv'
    <2>1. /\ Made \subseteq Made'
          /\ UNCHANGED <<seen, dispatched>>
      BY <1>1, MakeFacts DEF Make
    <2>2. Roomy' => Roomy
      BY <1>1, MakeFacts, MadeType, LimitAssumption DEF Roomy
    <2>3. AtMostOnce /\ Roomy => AtMostOnce'
      BY <2>1 DEF AtMostOnce, Roomy
    <2> QED
      BY <2>1, <2>2, <2>3 DEF SeenInv, Dispatched
  <1>2. ASSUME NEW r \in Made, ReceiveEmpty(r) \/ ReceiveDuplicate(r)
        PROVE  SeenInv'
    <2>1. UNCHANGED <<size, seen, dispatched>>
      BY <1>2 DEF ReceiveEmpty, ReceiveDuplicate
    <2> QED
      BY <2>1 DEF SeenInv, Roomy, Made, Dispatched, AtMostOnce
  <1>3. ASSUME NEW r \in Made, ReceiveNew(r) PROVE SeenInv'
    <2> SUFFICES ASSUME Roomy
                 PROVE  SeenInv'
      BY <1>3 DEF SeenInv, Roomy, ReceiveNew
    <2>1. SeqId(r) = r
      <3>1. r \in Nat /\ r < SeqMod
        BY MadeType, LimitAssumption DEF Roomy, Made
      <3> QED
        BY <3>1, LimitAssumption DEF SeqId
    <2>2. seen' = seen \cup {r} /\ r \notin seen
      BY <1>3, <2>1, NoCut DEF ReceiveNew, Duplicate
    <2>3. r \notin Dispatched
      BY <2>2 DEF SeenInv
    <2>4. UNCHANGED size
      BY <1>3 DEF ReceiveNew
    <2>5. CASE dispatched' = dispatched
      BY <2>2, <2>4, <2>5 DEF SeenInv, Roomy, Made, Dispatched, AtMostOnce
    <2>6. CASE dispatched' = Append(dispatched, r)
      <3>1. /\ Len(dispatched') = Len(dispatched) + 1
            /\ Len(dispatched) \in Nat
            /\ dispatched'[Len(dispatched) + 1] = r
            /\ \A i \in 1..Len(dispatched) : dispatched'[i] = dispatched[i]
        BY <2>6, MadeType, AppendProperties, LenProperties DEF TypeOK
      <3>2. Dispatched' \subseteq Dispatched \cup {r}
        BY <3>1 DEF Dispatched
      <3>3. AtMostOnce'
        BY <2>3, <2>4, <3>1 DEF SeenInv, Roomy, AtMostOnce, Dispatched
      <3> QED
        BY <2>2, <2>4, <3>2, <3>3 DEF SeenInv, Made
    <2> QED
      BY <1>3, <2>5, <2>6 DEF ReceiveNew
  <1>4. CASE Rekey \/ UNCHANGED vars
    <2>1. UNCHANGED <<size, seen, dispatched>>
      BY <1>4 DEF Rekey, vars
    <2> QED
      BY <2>1 DEF SeenInv, Roomy, Made, Dispatched, AtMostOnce
  <1> QED
    BY <1>1, <1>2, <1>3, <1>4 DEF Next

\* However many late CONNECTs rewind the key stream, no request runs twice as
\* long as the seen set and the sequence ids have room for all of them.
THEOREM AtMostOnceCorrect == Spec => []AtMostOnce
  <1>1. Init => TypeOK /\ SeenInv
    BY InitType, InitSeen
  <1>2. TypeOK /\ SeenInv /\ [Next]_vars => (TypeOK /\ SeenInv)'
    BY NextType, NextSeen
  <1>3. SeenInv => AtMostOnce
    BY DEF SeenInv, Roomy, AtMostOnce
  <1> QED
    BY <1>1, <1>2, <1>3, PTL DEF Spec

-----------------------------------------------------------------------------
(* A network that keeps order *)

\* Where the key stream is before request r; after the last one, where the
\* client's is.
Start(r) == IF r \in Made THEN off[r] ELSE clientPos

\* The client's key stream has no gaps.
ContigInv ==
  /\ Start(1) = 0
  /\ \A r \in Made : Start(r + 1) = off[r] + size[r]

\* The first m requests arrived, and nothing else: the server's key stream is
\* where the client's was after them, those with a payload were dispatched, and
\* the seen set, however often it was cut, has the latest of them.
Arrived(m) ==
  /\ acked = 1..m
  /\ decPos = Start(m + 1)
  /\ seen \subseteq 1..m
  /\ \A r \in 1..m : size[r] # 0 => /\ r \in Dispatched
                                    /\ m < r + SeenKeep => r \in seen

OrderedInv == ContigInv /\ (Fresh => \E m \in 0..Len(size) : Arrived(m))

LEMMA InitOrdered == Init => OrderedInv
  <1> SUFFICES ASSUME Init PROVE OrderedInv
    OBVIOUS
  <1>1. Made = {} /\ Len(size) = 0
    BY DEF Init, Made
  <1>2. ContigInv /\ Arrived(0)
    BY <1>1 DEF Init, ContigInv, Arrived, Start, Dispatched
  <1> QED
    BY <1>1, <1>2 DEF OrderedInv

\* Making a request leaves the key stream before the others where it was.
LEMMA MakeContig ==
  ASSUME TypeOK, ContigInv, NEW n \in Size, Make(n)
  PROVE  ContigInv' /\ \A r \in 1..(Len(size) + 1) : Start(r)' = Start(r)
  <1>1. /\ Len(size) \in Nat /\ Made = 1..Len(size) /\ Made' = 1..(Len(size) + 1)
        /\ \A q \in Made : size'[q] = size[q] /\ off'[q] = off[q]
        /\ size'[Len(size) + 1] = n
        /\ off'[Len(size) + 1] = clientPos
        /\ clientPos' = clientPos + n
    BY MakeFacts, MadeType DEF Made
  <1>2. ASSUME NEW r \in 1..(Len(size) + 1) PROVE Start(r)' = Start(r)
    <2>1. CASE r \in Made
      BY <1>1, <2>1 DEF Start
    <2>2. CASE r \notin Made
      <3>1. r = Len(size) + 1
        BY <1>1, <2>2
      <3> QED
        BY <1>1, <2>2, <3>1 DEF Start
    <2> QED
      BY <2>1, <2>2
  <1>3. Start(1)' = 0
    BY <1>1, <1>2 DEF ContigInv
  <1>4. ASSUME NEW r \in Made PROVE Start(r + 1)' = off'[r] + size'[r]
    <2>1. r + 1 \in 1..(Len(size) + 1)
      BY <1>1
    <2> QED
      BY <1>1, <1>2, <2>1 DEF ContigInv
  <1>6. ASSUME NEW r \in Made' PROVE Start(r + 1)' = off'[r] + size'[r]
    <2>1. CASE r \in Made
      BY <1>4, <2>1
    <2>2. CASE r \notin Made
      <3>1. r = Len(size) + 1 /\ r + 1 \notin Made'
        BY <1>1, <2>2
      <3>2. Start(r + 1)' = clientPos'
        BY <3>1 DEF Start
      <3> QED
        BY <1>1, <3>1, <3>2
    <2> QED
      BY <2>1, <2>2
  <1> QED
    BY <1>2, <1>3, <1>6 DEF ContigInv

\* The seen set of a cut after request m + 1 has what is within SeenKeep of it.
LEMMA KeepsLatest ==
  ASSUME NEW m \in Nat, seen \subseteq 1..m,
         NEW x \in seen \cup {m + 1}, m + 1 < x + SeenKeep
  PROVE  x \in Remember(m + 1)
  <1> DEFINE S == seen \cup {m + 1}
             above == {y \in S : y > x}
  <1>1. x \in 1..(m + 1) /\ S \subseteq 1..(m + 1)
    OBVIOUS
  <1>2. above \subseteq (x + 1)..(m + 1)
    <2> SUFFICES ASSUME NEW y \in S, y > x PROVE y \in (x + 1)..(m + 1)
      OBVIOUS
    <2>1. y \in 1..(m + 1)
      BY <1>1
    <2> QED
      BY <1>1, <2>1
  <1>3. /\ IsFiniteSet((x + 1)..(m + 1))
        /\ Cardinality((x + 1)..(m + 1)) = IF x + 1 > m + 1 THEN 0 ELSE m + 1 - (x + 1) + 1
    BY <1>1, FS_Interval
  <1>4. Cardinality((x + 1)..(m + 1)) = m + 1 - x
    BY <1>1, <1>3
  <1>5. Cardinality(above) <= m + 1 - x /\ Cardinality(above) \in Nat
    BY <1>2, <1>3, <1>4, FS_Subset, FS_CardinalityType
  <1>6. Cardinality(above) < SeenKeep
    BY <1>1, <1>5, LimitAssumption
  <1>7. x \in Largest(S, SeenKeep)
    BY <1>6 DEF Largest
  <1> QED
    BY <1>7 DEF Remember

LEMMA NextOrdered ==
  ASSUME InOrder, MaxLag < SeenKeep
  PROVE  TypeOK /\ OrderedInv /\ [Next]_vars => OrderedInv'
  <1> SUFFICES ASSUME TypeOK, OrderedInv, [Next]_vars PROVE OrderedInv'
    OBVIOUS
  <1>0. Len(size) \in Nat /\ Made = 1..Len(size)
    BY MadeType DEF Made
  <1>1. ASSUME NEW n \in Size, Make(n) PROVE OrderedInv'
    <2>1. ContigInv' /\ \A r \in 1..(Len(size) + 1) : Start(r)' = Start(r)
      BY <1>1, MakeContig DEF OrderedInv
    <2>2. Len(size') = Len(size) + 1 /\ \A q \in Made : size'[q] = size[q]
      BY <1>1, MakeFacts
    <2>3. UNCHANGED <<rekeys, acked, decPos, seen, dispatched>>
      BY <1>1 DEF Make
    <2>4. Fresh' => Fresh
      BY <1>0, <2>2, <2>3, LimitAssumption DEF Fresh
    <2>5. ASSUME NEW m \in 0..Len(size), Arrived(m) PROVE Arrived(m)'
      <3>1. m + 1 \in 1..(Len(size) + 1) /\ 1..m \subseteq Made
        BY <1>0
      <3>2. decPos' = Start(m + 1)'
        BY <2>1, <2>3, <2>5, <3>1 DEF Arrived
      <3> QED
        BY <2>2, <2>3, <2>5, <3>1, <3>2 DEF Arrived, Dispatched
    <2>6. \A m \in 0..Len(size) : m \in 0..Len(size')
      BY <1>0, <2>2
    <2> QED
      BY <2>1, <2>4, <2>5, <2>6 DEF OrderedInv
  <1>2. ASSUME UNCHANGED <<size, off, clientPos>> PROVE ContigInv'
    BY <1>2 DEF OrderedInv, ContigInv, Start, Made
  <1>3. ASSUME UNCHANGED vars PROVE OrderedInv'
    <2>1. \A m \in 0..Len(size) : Arrived(m) => Arrived(m)'
      BY <1>3 DEF vars, Arrived, Start, Made, Dispatched
    <2> QED
      BY <1>2, <1>3, <2>1 DEF vars, OrderedInv, Fresh
  <1>4. CASE Rekey
    <2>1. UNCHANGED <<size, off, clientPos>> /\ rekeys' # 0
      BY <1>4 DEF Rekey, TypeOK
    <2> QED
      BY <1>2, <2>1 DEF OrderedInv, Fresh
  <1>5. ASSUME NEW r \in Made, ReceiveEmpty(r) \/ ReceiveDuplicate(r) \/ ReceiveNew(r)
        PROVE  OrderedInv'
    <2>1. /\ UNCHANGED <<size, off, clientPos, rekeys>>
          /\ Deliverable(r)
          /\ acked' = acked \cup {r}
      BY <1>5 DEF ReceiveEmpty, ReceiveDuplicate, ReceiveNew, Ack
    <2> SUFFICES ASSUME Fresh
                 PROVE  \E m \in 0..Len(size) : Arrived(m)'
      BY <1>2, <2>1 DEF OrderedInv, Fresh
    <2>2. PICK m \in 0..Len(size) : Arrived(m)
      BY DEF OrderedInv
    <2>3. r \in Nat /\ r \in 1..Len(size) /\ size[r] \in Nat /\ m \in Nat
      BY <1>0, MadeType
    <2>4. r <= m + 1 /\ (r <= m => m <= r + MaxLag)
      <3>1. m + 1 \in 1..Len(size) \/ m = Len(size)
        BY <1>0
      <3>2. r <= m + 1
        <4> SUFFICES ASSUME m + 1 < r PROVE FALSE
          BY <2>3
        <4>1. m + 1 \in Made
          BY <1>0, <2>3
        <4> QED
          BY <2>1, <2>2, <2>3, <4>1 DEF Deliverable, Arrived
      <3>3. r <= m => m \in acked
        BY <2>2, <2>3 DEF Arrived
      <3> QED
        BY <2>1, <3>2, <3>3 DEF Deliverable
    <2>5. SeqId(r) = r
      <3>1. r < SeqMod
        BY <2>3, <1>0, LimitAssumption DEF Fresh
      <3> QED
        BY <2>3, <3>1, LimitAssumption DEF SeqId
    <2>6. r <= m /\ size[r] # 0 => r \in seen
      BY <2>2, <2>3, <2>4, LimitAssumption DEF Arrived
    <2>7. r \in seen => r <= m
      BY <2>2, <2>3 DEF Arrived
    <2>8. CASE r <= m
      <3>1. ~ReceiveNew(r)
        BY <2>5, <2>6, <2>8 DEF ReceiveNew, Duplicate
      <3>2. UNCHANGED <<seen, decPos, dispatched>>
        BY <1>5, <3>1 DEF ReceiveEmpty, ReceiveDuplicate
      <3>3. acked' = acked
        BY <2>1, <2>2, <2>3, <2>8 DEF Arrived
      <3>4. Arrived(m)'
        BY <2>1, <2>2, <3>2, <3>3 DEF Arrived, Start, Made, Dispatched
      <3> QED
        BY <3>4
    <2>9. CASE r = m + 1
      <3>1. r \in 0..Len(size) /\ r \notin seen
        BY <2>3, <2>7, <2>9
      <3>2. ~ReceiveDuplicate(r)
        BY <2>5, <3>1 DEF ReceiveDuplicate, Duplicate
      <3>3. acked' = 1..r
        BY <2>1, <2>2, <2>3, <2>9 DEF Arrived
      <3>4. decPos = off[r] /\ Start(r + 1) = decPos + size[r]
        BY <2>2, <2>9 DEF Arrived, Start, OrderedInv, ContigInv
      <3>5. Start(r + 1)' = Start(r + 1)
        BY <2>1 DEF Start, Made
      <3>6. \A q \in 1..r : q \in 1..m \/ q = r
        BY <2>3, <2>9
      <3>7. 1..m \subseteq 1..r /\ r \in 1..r
        BY <2>3, <2>9
      <3>8. CASE ReceiveEmpty(r)
        <4>1. size[r] = 0 /\ UNCHANGED <<seen, decPos, dispatched>>
          BY <3>8 DEF ReceiveEmpty
        <4>2. decPos' = Start(r + 1)'
          BY <3>4, <3>5, <4>1, <2>3 DEF TypeOK
        <4>3. \A q \in 1..m : r < q + SeenKeep => m < q + SeenKeep
          BY <2>3, <2>9, LimitAssumption
        <4>4. \A q \in 1..r : size'[q] # 0 => /\ q \in Dispatched'
                                              /\ r < q + SeenKeep => q \in seen'
          BY <2>1, <2>2, <3>6, <4>1, <4>3 DEF Arrived, Dispatched
        <4>5. Arrived(r)'
          BY <2>2, <3>3, <3>7, <4>1, <4>2, <4>4 DEF Arrived
        <4> QED
          BY <3>1, <4>5
      <3>9. CASE ReceiveNew(r)
        <4>1. /\ seen' = Remember(r)
              /\ decPos' = decPos + size[r]
              /\ dispatched' = Append(dispatched, r)
          BY <2>5, <3>4, <3>9 DEF ReceiveNew, Decodes
        <4>2. Dispatched' = Dispatched \cup {r}
          <5>1. /\ Len(dispatched) \in Nat
                /\ Len(dispatched') = Len(dispatched) + 1
                /\ dispatched'[Len(dispatched) + 1] = r
                /\ \A i \in 1..Len(dispatched) : dispatched'[i] = dispatched[i]
            BY <2>3, <4>1, AppendProperties, LenProperties DEF TypeOK
          <5>2. 1..Len(dispatched') = 1..Len(dispatched) \cup {Len(dispatched) + 1}
            BY <5>1
          <5> QED
            BY <5>1, <5>2 DEF Dispatched
        <4>3. seen \subseteq 1..m /\ Remember(m + 1) \subseteq seen \cup {m + 1}
          BY <2>2, RememberSubset DEF Arrived
        <4>4. seen' \subseteq 1..r
          BY <2>9, <3>7, <4>1, <4>3
        <4>5. ASSUME NEW q \in 1..r, size[q] # 0
              PROVE  q \in Dispatched' /\ (r < q + SeenKeep => q \in seen')
          <5>1. q \in 1..m => q \in Dispatched /\ (m < q + SeenKeep => q \in seen)
            BY <2>2, <4>5 DEF Arrived
          <5>2. r < q + SeenKeep => m < q + SeenKeep
            BY <2>3, <2>9, LimitAssumption
          <5>3. r < q + SeenKeep => q \in seen \cup {m + 1}
            BY <2>9, <3>6, <5>1, <5>2
          <5>4. r < q + SeenKeep => q \in Remember(m + 1)
            BY <2>3, <2>9, <4>3, <5>3, KeepsLatest
          <5> QED
            BY <2>9, <3>6, <4>1, <4>2, <5>1, <5>4
        <4>6. decPos' = Start(r + 1)'
          BY <3>4, <3>5, <4>1
        <4>7. Arrived(r)'
          BY <2>1, <3>3, <4>4, <4>5, <4>6 DEF Arrived
        <4> QED
          BY <3>1, <4>7
      <3> QED
        BY <1>5, <3>2, <3>8, <3>9
    <2> QED
      BY <2>3, <2>4, <2>8, <2>9
  <1> QED
    BY <1>1, <1>3, <1>4, <1>5 DEF Next

\* What has arrived was dispatched, and what counts as a duplicate has arrived.
LEMMA OrderedProcessed ==
  ASSUME TypeOK, OrderedInv
  PROVE  AckedIsDispatched /\ DuplicateWasProcessed
  <1> SUFFICES ASSUME Fresh
               PROVE  /\ \A r \in acked : size[r] # 0 => r \in Dispatched
                      /\ \A r \in Made : Duplicate(r) => r \in Dispatched
    BY DEF AckedIsDispatched, DuplicateWasProcessed
  <1>1. PICK m \in 0..Len(size) : Arrived(m)
    BY DEF OrderedInv
  <1>2. ASSUME NEW r \in Made, Duplicate(r) PROVE r \in Dispatched
    <2>1. Len(size) \in Nat /\ r \in 1..Len(size)
      BY MadeType DEF Made
    <2>2. r \in Nat /\ r < SeqMod
      BY <2>1, LimitAssumption DEF Fresh
    <2>3. SeqId(r) = r
      BY <2>2, LimitAssumption DEF SeqId
    <2> QED
      BY <1>1, <1>2, <2>3 DEF Duplicate, Arrived
  <1> QED
    BY <1>1, <1>2 DEF Arrived

\* Over a network that duplicates but neither loses for good nor reorders, with
\* duplicates less late than the cut seen set is large: whatever is acknowledged
\* was dispatched, and whatever is dropped as a duplicate was, until a CONNECT
\* comes late or the sequence ids wrap.
THEOREM ProcessedCorrect ==
  ASSUME InOrder, MaxLag < SeenKeep
  PROVE  Spec => [](AckedIsDispatched /\ DuplicateWasProcessed)
  <1>1. Init => TypeOK /\ OrderedInv
    BY InitType, InitOrdered
  <1>2. TypeOK /\ OrderedInv /\ [Next]_vars => (TypeOK /\ OrderedInv)'
    BY NextType, NextOrdered
  <1>3. TypeOK /\ OrderedInv => AckedIsDispatched /\ DuplicateWasProcessed
    BY OrderedProcessed
  <1> QED
    BY <1>1, <1>2, <1>3, PTL DEF Spec

\* The same of the setting "ordered" among the three that TLC explores at once.
THEOREM OrderedCorrect ==
  ASSUME InOrder, MaxLag < SeenKeep
  PROVE  MCSpec => [](OrderedAckedIsDispatched /\ OrderedDuplicateWasProcessed)
  <1> DEFINE Inv == setting = "ordered" => TypeOK /\ OrderedInv
  <1>1. MCInit => Inv
    BY InitType, InitOrdered DEF MCInit
  <1>2. Inv /\ [MCNext]_<<setting, vars>> => Inv'
    <2> SUFFICES ASSUME Inv, [MCNext]_<<setting, vars>>, setting' = "ordered"
                 PROVE  (TypeOK /\ OrderedInv)'
      OBVIOUS
    <2>1. setting = "ordered" /\ [Next]_vars
      BY DEF MCNext
    <2> QED
      BY <2>1, NextType, NextOrdered
  <1>3. Inv => OrderedAckedIsDispatched /\ OrderedDuplicateWasProcessed
    BY OrderedProcessed DEF OrderedAckedIsDispatched, OrderedDuplicateWasProcessed
  <1> QED
    BY <1>1, <1>2, <1>3, PTL DEF MCSpec
=============================================================================
