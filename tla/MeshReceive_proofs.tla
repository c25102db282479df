-------------------------- MODULE MeshReceive_proofs --------------------------
(***************************************************************************)
(* The properties of MeshReceive, for every set of fixtures and            *)
(* destinations, every number of segments, every SeqZero space and every   *)
(* capacity.                                                               *)
(*                                                                         *)
(* The argument: SeqZero gives a segment back the SeqAuth its sender gave  *)
(* it, and a SEQ is used once, so what is reassembled under one SeqAuth    *)
(* are PDUs of one message.  A message that was dispatched lies behind the *)
(* replay list if it was one PDU, and behind its pair's watermark if it    *)
(* was segmented; neither ever moves back.                                 *)
(***************************************************************************)
EXTENDS MeshReceive, FiniteSetTheorems, TLAPS

Pdu == [src : Nodes, dst : Dsts, seq : Seqs, zero : Nat, offset : 0..LastSeg,
        last : 0..LastSeg \cup {-1}, known : BOOLEAN]
Opened == [auth : Seqs \cup {-1}, last : 0..LastSeg, known : BOOLEAN]
Marks == [Pairs -> Seqs \cup {-1}]
Memories == [live : SUBSET Transaction, done : Marks, dropped : Marks]

(* A message was begun by the PDU whose SEQ is its SeqAuth.                *)
Began(src, dst, auth, last, known) ==
  \E first \in sent :
    /\ first.src = src /\ first.dst = dst /\ first.seq = auth
    /\ first.last = last /\ first.known = known

(* SeqZero tells which message a segment is of.                            *)
OfItsMessage(pdu) ==
  /\ pdu.zero = SeqAuth(pdu.seq, pdu.zero) % ZeroSpace
  /\ Began(pdu.src, pdu.dst, SeqAuth(pdu.seq, pdu.zero), pdu.last, pdu.known)

SendersOk ==
  /\ sent \subseteq Pdu /\ current \in [Pairs -> Opened]
  /\ \A pdu \in sent : pdu.seq < nextSeq[pdu.src]
  /\ \A a, b \in sent : a.src = b.src /\ a.seq = b.seq => a = b
  /\ \A pair \in Pairs : current[pair].auth # -1 =>
       Began(pair[1], pair[2], current[pair].auth, current[pair].last, current[pair].known)
  /\ \A pdu \in sent : pdu.last # -1 => OfItsMessage(pdu)

(* What was joined into a transaction was sent as part of it.              *)
Genuine(p) ==
  /\ Began(p.src, p.dst, p.auth, p.last, p.known)
  /\ \A o \in 0..LastSeg : p.seqs[o] # -1 =>
       \E pdu \in sent :
         /\ pdu.seq = p.seqs[o] /\ pdu.src = p.src /\ pdu.dst = p.dst
         /\ pdu.offset = o /\ pdu.last = p.last /\ pdu.known = p.known
         /\ pdu.zero = p.auth % ZeroSpace

Mark(m, pair) == Larger(m.done[pair], m.dropped[pair])
Memory == [live |-> pending, done |-> completed, dropped |-> discarded]

(* A pair has one transaction at most, newer than all that are over.       *)
Current(m) ==
  /\ \A p, q \in m.live : PairOf(p) = PairOf(q) => p = q
  /\ \A p \in m.live : p.auth > m.done[PairOf(p)] /\ p.auth > m.dropped[PairOf(p)]

Bounded(m) ==
  /\ IsFiniteSet(m.live) /\ Cardinality(m.live) <= MaxPending
  /\ IsFiniteSet(Tracked(m)) /\ Cardinality(Tracked(m)) <= MaxTracked

MemoryOk(m) ==
  m \in Memories /\ Current(m) /\ Bounded(m) /\ \A p \in m.live : Genuine(p)

(* A dispatched message lies behind the list that keeps it out.            *)
Over(n, auth) ==
  \E pdu \in sent :
    /\ pdu.src = n /\ pdu.seq = auth
    /\ IF pdu.last = -1 THEN rpl[n] >= auth ELSE Watermark(<<n, pdu.dst>>) >= auth

Once ==
  \A n \in Nodes, a \in Seqs :
    delivered[<<n, a>>] <= 1 /\ (delivered[<<n, a>>] # 0 => Over(n, a))

IInv == TypeOK /\ SendersOk /\ MemoryOk(Memory) /\ Once

-------------------------------------------------------------------------------
USE SegAssumption, CapacityAssumption

(* Division with remainder by the range of SeqZero is unique.              *)
LEMMA OneRemainder ==
  ASSUME NEW q1 \in Int, NEW q2 \in Int,
         NEW r1 \in 0..(ZeroSpace - 1), NEW r2 \in 0..(ZeroSpace - 1),
         ZeroSpace * q1 + r1 = ZeroSpace * q2 + r2
  PROVE  r1 = r2
<1>1. CASE q1 = q2
  BY <1>1
<1>2. CASE q1 > q2
  <2>1. ZeroSpace * (q1 - q2) = r2 - r1 /\ ZeroSpace * (q1 - q2) >= ZeroSpace
    BY <1>2
  <2> QED  BY <2>1
<1>3. CASE q1 < q2
  <2>1. ZeroSpace * (q2 - q1) = r1 - r2 /\ ZeroSpace * (q2 - q1) >= ZeroSpace
    BY <1>3
  <2> QED  BY <2>1
<1> QED  BY <1>1, <1>2, <1>3

LEMMA SeqAuthNotAbove ==
  ASSUME NEW seq \in Nat, NEW zero \in Nat
  PROVE  SeqAuth(seq, zero) \in Int /\ SeqAuth(seq, zero) <= seq
<1>1. (seq - zero) % ZeroSpace \in Nat
  OBVIOUS
<1> QED  BY <1>1 DEF SeqAuth

(* SeqZero identifies a SeqAuth among the last ZeroSpace numbers.          *)
LEMMA SeqAuthIdentifies ==
  ASSUME NEW auth \in Nat, NEW seq \in Nat, auth <= seq, seq - auth < ZeroSpace
  PROVE  SeqAuth(seq, auth % ZeroSpace) = auth
<1> DEFINE d == seq - (auth % ZeroSpace)
<1>1. /\ auth % ZeroSpace \in 0..(ZeroSpace - 1) /\ auth \div ZeroSpace \in Int
      /\ auth = ZeroSpace * (auth \div ZeroSpace) + (auth % ZeroSpace)
  OBVIOUS
<1>2. d \in Int
  BY <1>1
<1>3. /\ d % ZeroSpace \in 0..(ZeroSpace - 1) /\ d \div ZeroSpace \in Int
      /\ d = ZeroSpace * (d \div ZeroSpace) + (d % ZeroSpace)
  BY <1>2
<1>4. d = ZeroSpace * (auth \div ZeroSpace) + (seq - auth)
  BY <1>1
<1>5. seq - auth \in 0..(ZeroSpace - 1)
  OBVIOUS
<1>6. d % ZeroSpace = seq - auth
  BY <1>1, <1>3, <1>4, <1>5, OneRemainder
<1> QED  BY <1>6 DEF SeqAuth

LEMMA LargerFacts ==
  ASSUME NEW a \in Int, NEW b \in Int
  PROVE  Larger(a, b) \in {a, b} /\ Larger(a, b) >= a /\ Larger(a, b) >= b
  BY DEF Larger

-------------------------------------------------------------------------------
(* Pruning moves what is over forward, never back.                         *)
LEMMA PrunedPair ==
  ASSUME MemoryOk(Memory), NEW expired \in SUBSET pending, NEW pair \in Pairs
  PROVE  \/ /\ Pruned(expired).done[pair] = completed[pair]
            /\ Pruned(expired).dropped[pair] = discarded[pair]
            /\ \A p \in expired : PairOf(p) # pair
         \/ \E p \in expired :
              /\ PairOf(p) = pair
              /\ Pruned(expired).done[pair] = -1 /\ Pruned(expired).dropped[pair] = p.auth
<1> DEFINE old == AuthsOf(expired, pair)
<1>1. /\ discarded[pair] \in Int /\ completed[pair] \in Int
      /\ \A p \in pending : p.auth \in Int
  BY DEF MemoryOk, Memory, Memories, Marks, Transaction, Seqs
<1>2. /\ Pruned(expired).dropped[pair] = Largest(old \cup {discarded[pair]})
      /\ Pruned(expired).done[pair] = IF \E a \in old : completed[pair] <= a THEN -1
                                      ELSE completed[pair]
  BY DEF Pruned
<1>3. CASE \A p \in expired : PairOf(p) # pair
  <2>1. old = {}
    BY <1>3 DEF AuthsOf
  <2>2. Largest({discarded[pair]}) = discarded[pair]
    BY <1>1 DEF Largest
  <2> QED  BY <1>2, <1>3, <2>1, <2>2
<1>4. ASSUME NEW p \in expired, PairOf(p) = pair
      PROVE  Pruned(expired).done[pair] = -1 /\ Pruned(expired).dropped[pair] = p.auth
  <2>1. \A q \in expired : PairOf(q) = pair => q = p
    BY <1>4 DEF MemoryOk, Memory, Current
  <2>2. old = {p.auth}
    BY <1>4, <2>1 DEF AuthsOf
  <2>3. p.auth > completed[pair] /\ p.auth > discarded[pair] /\ p.auth \in Int
    BY <1>1, <1>4 DEF MemoryOk, Memory, Current
  <2>4. Largest({p.auth, discarded[pair]}) = p.auth
    <3> DEFINE S == {p.auth, discarded[pair]}
    <3>1. \E a \in S : \A b \in S : a >= b
      BY <1>1, <2>3
    <3>2. Largest(S) \in S /\ \A b \in S : Largest(S) >= b
      BY <3>1 DEF Largest
    <3> QED  BY <1>1, <2>3, <3>2
  <2>5. old \cup {discarded[pair]} = {p.auth, discarded[pair]}
    BY <2>2
  <2> QED  BY <1>1, <1>2, <2>2, <2>3, <2>4, <2>5
<1> QED  BY <1>3, <1>4

LEMMA PrunedOk ==
  ASSUME MemoryOk(Memory), NEW expired \in SUBSET pending
  PROVE  /\ MemoryOk(Pruned(expired))
         /\ \A pair \in Pairs : Mark(Pruned(expired), pair) >= Watermark(pair)
         /\ \A p \in pending \ Pruned(expired).live : Mark(Pruned(expired), PairOf(p)) >= p.auth
<1> DEFINE m == Pruned(expired)
<1>1. /\ m.live = pending \ expired /\ pending \subseteq Transaction
      /\ completed \in Marks /\ discarded \in Marks /\ \A p \in pending : p.auth \in Seqs
  BY DEF Pruned, MemoryOk, Memory, Memories, Transaction
<1>2. \A p \in pending : PairOf(p) \in Pairs
  BY <1>1 DEF PairOf, Pairs, Transaction
<1> DEFINE Moved(pair) ==
      /\ m.done[pair] \in Seqs \cup {-1} /\ m.dropped[pair] \in Seqs \cup {-1}
      /\ Mark(m, pair) >= Watermark(pair)
      /\ \A p \in m.live : PairOf(p) = pair => p.auth > m.done[pair] /\ p.auth > m.dropped[pair]
      /\ \A p \in expired : PairOf(p) = pair => Mark(m, pair) >= p.auth
      /\ pair \in Tracked(m) => pair \in Tracked(Memory)
<1>3. ASSUME NEW pair \in Pairs PROVE Moved(pair)
  <2>1. CASE /\ m.done[pair] = completed[pair] /\ m.dropped[pair] = discarded[pair]
             /\ \A p \in expired : PairOf(p) # pair
    <3>1. \A p \in m.live : PairOf(p) = pair => p.auth > m.done[pair] /\ p.auth > m.dropped[pair]
      BY <1>1, <2>1 DEF MemoryOk, Memory, Current
    <3>2. Mark(m, pair) = Watermark(pair) /\ Watermark(pair) \in Int
      BY <1>1, <2>1 DEF Mark, Watermark, Larger, Marks, Seqs
    <3>3. pair \in Tracked(m) => pair \in Tracked(Memory)
      BY <1>1, <2>1 DEF Tracked, Memory
    <3> QED  BY <1>1, <2>1, <3>1, <3>2, <3>3 DEF Marks
  <2>2. ASSUME NEW p \in expired, PairOf(p) = pair, m.done[pair] = -1, m.dropped[pair] = p.auth
        PROVE  Moved(pair)
    <3>1. \A q \in pending : PairOf(q) = pair => q = p
      BY <2>2 DEF MemoryOk, Memory, Current
    <3>2. /\ p.auth \in Seqs /\ completed[pair] \in Int /\ discarded[pair] \in Int
          /\ p.auth > completed[pair] /\ p.auth > discarded[pair]
      BY <1>1, <2>2 DEF MemoryOk, Memory, Current, Marks, Seqs
    <3>3. Mark(m, pair) = p.auth
      BY <2>2, <3>2 DEF Mark, Larger, Seqs
    <3>4. Mark(m, pair) >= Watermark(pair)
      BY <3>2, <3>3 DEF Watermark, Larger, Seqs
    <3>5. pair \in Tracked(Memory)
      BY <2>2 DEF Tracked, Memory
    <3> QED  BY <1>1, <2>2, <3>1, <3>2, <3>3, <3>4, <3>5 DEF Seqs
  <2> QED  BY <2>1, <2>2, PrunedPair
<1>4. m \in Memories
  <2>1. m.done \in Marks /\ m.dropped \in Marks
    BY <1>3 DEF Pruned, Marks
  <2> QED  BY <1>1, <2>1 DEF Pruned, Memories
<1>5. Current(m)
  BY <1>1, <1>2, <1>3 DEF MemoryOk, Memory, Current
<1>6. Bounded(m)
  <2>1. m.live \in SUBSET Memory.live /\ Tracked(m) \in SUBSET Tracked(Memory)
    BY <1>1, <1>2, <1>3 DEF Memory, Tracked
  <2>2. Bounded(Memory)
    BY DEF MemoryOk
  <2>3. /\ IsFiniteSet(m.live) /\ Cardinality(m.live) <= Cardinality(Memory.live)
        /\ IsFiniteSet(Tracked(m)) /\ Cardinality(Tracked(m)) <= Cardinality(Tracked(Memory))
    BY <2>1, <2>2, FS_Subset DEF Bounded
  <2>4. /\ Cardinality(m.live) \in Nat /\ Cardinality(Memory.live) \in Nat
        /\ Cardinality(Tracked(m)) \in Nat /\ Cardinality(Tracked(Memory)) \in Nat
    BY <2>2, <2>3, FS_CardinalityType DEF Bounded
  <2> QED  BY <2>2, <2>3, <2>4 DEF Bounded
<1>7. \A p \in m.live : Genuine(p)
  BY <1>1 DEF MemoryOk, Memory
<1> QED  BY <1>1, <1>2, <1>3, <1>4, <1>5, <1>6, <1>7 DEF MemoryOk

(* What a newer transaction supersedes makes room for it.                  *)
LEMMA SupersededOk ==
  ASSUME NEW m, MemoryOk(m), NEW pair \in Pairs
  PROVE  /\ MemoryOk(Supersede(m, pair))
         /\ Supersede(m, pair).live = {p \in m.live : PairOf(p) # pair}
         /\ Supersede(m, pair).done = m.done /\ Supersede(m, pair).dropped = m.dropped
         /\ Supersede(m, pair).live # m.live => HasRoom(Supersede(m, pair), pair)
<1> DEFINE r == Supersede(m, pair)
<1>1. /\ r.live = {p \in m.live : PairOf(p) # pair} /\ r.done = m.done /\ r.dropped = m.dropped
      /\ r \in Memories
  BY DEF Supersede, MemoryOk, Memories
<1>2. Current(r) /\ \A p \in r.live : Genuine(p)
  BY <1>1 DEF MemoryOk, Current
<1>3. r.live \in SUBSET m.live /\ Tracked(r) \in SUBSET Tracked(m)
  BY <1>1 DEF Tracked
<1>4. Bounded(m)
  BY DEF MemoryOk
<1>5. /\ IsFiniteSet(r.live) /\ Cardinality(r.live) <= Cardinality(m.live)
      /\ IsFiniteSet(Tracked(r)) /\ Cardinality(Tracked(r)) <= Cardinality(Tracked(m))
      /\ Cardinality(r.live) = Cardinality(m.live) => r.live = m.live
      /\ Cardinality(Tracked(r)) = Cardinality(Tracked(m)) => Tracked(r) = Tracked(m)
  BY <1>3, <1>4, FS_Subset DEF Bounded
<1>6. /\ Cardinality(r.live) \in Nat /\ Cardinality(m.live) \in Nat
      /\ Cardinality(Tracked(r)) \in Nat /\ Cardinality(Tracked(m)) \in Nat
  BY <1>4, <1>5, FS_CardinalityType DEF Bounded
<1>7. Bounded(r)
  BY <1>4, <1>5, <1>6 DEF Bounded
<1>8. ASSUME r.live # m.live PROVE HasRoom(r, pair)
  <2>1. Cardinality(r.live) < MaxPending
    BY <1>4, <1>5, <1>6, <1>8 DEF Bounded
  <2>2. pair \in Tracked(m)
    BY <1>1, <1>8 DEF Tracked
  <2>3. pair \in Tracked(r) \/ Cardinality(Tracked(r)) < MaxTracked
    BY <1>4, <1>5, <1>6, <2>2 DEF Bounded
  <2> QED  BY <2>1, <2>3 DEF HasRoom
<1> QED  BY <1>1, <1>2, <1>7, <1>8 DEF MemoryOk

LEMMA StoreOk ==
  ASSUME NEW m, MemoryOk(m), Store(m), UNCHANGED sent
  PROVE  MemoryOk(Memory)' /\ \A pair \in Pairs : Watermark(pair)' = Mark(m, pair)
<1>1. Memory' = m
  BY DEF Memory, Store, MemoryOk, Memories
<1>2. pending' = m.live /\ completed' = m.done /\ discarded' = m.dropped
  BY DEF Store
<1>3. \A p \in m.live : Genuine(p)'
  BY DEF MemoryOk, Genuine, Began
<1>4. MemoryOk(Memory)'
  BY <1>1, <1>3 DEF MemoryOk, Current, Bounded, Tracked, PairOf, Memories, Marks
<1> QED  BY <1>2, <1>4 DEF Watermark, Mark, Larger

-------------------------------------------------------------------------------
(* One PDU, one SEQ: the PDU that began a message is the one with its SEQ. *)
LEMMA OneFirst ==
  ASSUME SendersOk, NEW src, NEW auth, NEW d1, NEW d2, NEW l1, NEW l2, NEW k1, NEW k2,
         Began(src, d1, auth, l1, k1), Began(src, d2, auth, l2, k2)
  PROVE  d1 = d2 /\ l1 = l2 /\ k1 = k2
  BY DEF SendersOk, Began

(* A message is dispatched at most once if what keeps it out moves forward *)
(* and covers it before a second dispatch.                                 *)
LEMMA OnceStep ==
  ASSUME Once, UNCHANGED sent,
         \A n \in Nodes : rpl[n] \in Int /\ rpl'[n] \in Int /\ rpl'[n] >= rpl[n],
         \A pair \in Pairs :
           Watermark(pair) \in Int /\ Watermark(pair)' \in Int
           /\ Watermark(pair)' >= Watermark(pair),
         delivered \in [Messages -> Nat], sent \subseteq Pdu,
         \/ UNCHANGED delivered
         \/ \E n \in Nodes, a \in Seqs :
              /\ delivered[<<n, a>>] = 0 /\ Over(n, a)'
              /\ delivered' = [delivered EXCEPT ![<<n, a>>] = @ + 1]
  PROVE  Once'
<1>1. ASSUME NEW n \in Nodes, NEW a \in Seqs, Over(n, a) PROVE Over(n, a)'
  <2>1. PICK pdu \in sent :
          /\ pdu.src = n /\ pdu.seq = a
          /\ IF pdu.last = -1 THEN rpl[n] >= a ELSE Watermark(<<n, pdu.dst>>) >= a
    BY <1>1 DEF Over
  <2>2. <<n, pdu.dst>> \in Pairs /\ a \in Int
    BY DEF Pairs, Pdu, Seqs
  <2>3. IF pdu.last = -1 THEN rpl'[n] >= a ELSE Watermark(<<n, pdu.dst>>)' >= a
    BY <2>1, <2>2
  <2> QED  BY <2>1, <2>3 DEF Over
<1>2. CASE UNCHANGED delivered
  BY <1>1, <1>2 DEF Once
<1>3. ASSUME NEW n \in Nodes, NEW a \in Seqs,
             delivered[<<n, a>>] = 0, Over(n, a)',
             delivered' = [delivered EXCEPT ![<<n, a>>] = @ + 1]
      PROVE  Once'
  <2> SUFFICES ASSUME NEW k \in Nodes, NEW b \in Seqs
               PROVE  delivered'[<<k, b>>] <= 1 /\ (delivered'[<<k, b>>] # 0 => Over(k, b)')
    BY DEF Once
  <2>1. <<n, a>> \in Messages /\ <<k, b>> \in Messages
    BY DEF Messages
  <2>2. CASE k = n /\ b = a
    BY <1>3, <2>1, <2>2
  <2>3. CASE ~(k = n /\ b = a)
    <3>1. delivered'[<<k, b>>] = delivered[<<k, b>>]
      BY <1>3, <2>1, <2>3
    <3> QED  BY <1>1, <3>1 DEF Once
  <2> QED  BY <2>2, <2>3
<1> QED  BY <1>2, <1>3

LEMMA WatermarkInt ==
  ASSUME completed \in Marks, discarded \in Marks, NEW pair \in Pairs
  PROVE  Watermark(pair) \in Int
  BY DEF Marks, Watermark, Larger, Seqs

LEMMA SendersSame == ASSUME SendersOk, UNCHANGED senders PROVE SendersOk'
  BY DEF SendersOk, senders, OfItsMessage, Began, Pairs

(* What one received PDU may change, beyond the memory.                    *)
LEMMA ReceiveInv ==
  ASSUME IInv, UNCHANGED senders, MemoryOk(Memory)',
         \A pair \in Pairs : Watermark(pair)' >= Watermark(pair),
         \/ UNCHANGED <<delivered, rpl>>
         \/ \E n \in Nodes, a \in Seqs, s \in Seqs :
              /\ delivered[<<n, a>>] = 0 /\ Over(n, a)'
              /\ delivered' = [delivered EXCEPT ![<<n, a>>] = @ + 1]
              /\ rpl' = [rpl EXCEPT ![n] = Larger(@, s)]
  PROVE  IInv'
<1>1. TypeOK /\ SendersOk /\ Once /\ MemoryOk(Memory)
  BY DEF IInv
<1>2. /\ pending' \subseteq Transaction /\ completed' \in Marks /\ discarded' \in Marks
      /\ completed \in Marks /\ discarded \in Marks
  BY <1>1 DEF MemoryOk, Memory, Memories, Marks, Transaction, Pairs
<1>3. rpl \in [Nodes -> Seqs \cup {-1}] /\ delivered \in [Messages -> Nat]
  BY <1>1 DEF TypeOK
<1>4. /\ rpl' \in [Nodes -> Seqs \cup {-1}] /\ delivered' \in [Messages -> Nat]
      /\ \A n \in Nodes : rpl[n] \in Int /\ rpl'[n] \in Int /\ rpl'[n] >= rpl[n]
  <2> DEFINE Forward ==
        /\ rpl' \in [Nodes -> Seqs \cup {-1}] /\ delivered' \in [Messages -> Nat]
        /\ \A n \in Nodes : rpl[n] \in Int /\ rpl'[n] \in Int /\ rpl'[n] >= rpl[n]
  <2>1. CASE UNCHANGED <<delivered, rpl>>
    BY <1>3, <2>1 DEF Seqs
  <2>2. ASSUME NEW n \in Nodes, NEW a \in Seqs, NEW s \in Seqs,
               delivered' = [delivered EXCEPT ![<<n, a>>] = @ + 1],
               rpl' = [rpl EXCEPT ![n] = Larger(@, s)]
        PROVE  Forward
    <3>1. delivered' \in [Messages -> Nat]
      <4>1. <<n, a>> \in Messages
        BY DEF Messages
      <4> QED  BY <1>3, <2>2, <4>1
    <3>2. Larger(rpl[n], s) \in Seqs \cup {-1} /\ Larger(rpl[n], s) >= rpl[n]
      BY <1>3 DEF Larger, Seqs
    <3> QED  BY <1>3, <2>2, <3>1, <3>2 DEF Seqs
  <2> QED  BY <2>1, <2>2
<1>5. Once'
  <2>1. \A pair \in Pairs : Watermark(pair) \in Int /\ Watermark(pair)' \in Int
    BY <1>2, WatermarkInt DEF Watermark, Marks, Larger, Seqs
  <2>2. sent' = sent /\ sent \subseteq Pdu
    BY <1>1 DEF senders, SendersOk
  <2> QED  BY <1>1, <1>3, <1>4, <2>1, <2>2, OnceStep
<1>6. TypeOK'
  <2>1. nextSeq' \in [Nodes -> 0..(MaxSeq + 1)]
    BY <1>1 DEF TypeOK, senders
  <2>2. Bounded(Memory)'
    BY DEF MemoryOk
  <2> QED  BY <1>2, <1>4, <2>1, <2>2 DEF TypeOK, Bounded, Memory, Marks
<1> QED  BY <1>1, <1>5, <1>6, SendersSame DEF IInv

-------------------------------------------------------------------------------
(* A segment that is of the transaction p.                                 *)
Segment(pdu, p) ==
  /\ pdu.src = p.src /\ pdu.dst = p.dst /\ pdu.last = p.last /\ pdu.known = p.known
  /\ pdu.zero = p.auth % ZeroSpace

LEMMA RecordOk ==
  ASSUME NEW p \in Transaction, Genuine(p), NEW pdu \in sent, pdu \in Pdu, Segment(pdu, p)
  PROVE  /\ Record(p, pdu) \in Transaction /\ Genuine(Record(p, pdu))
         /\ PairOf(Record(p, pdu)) = PairOf(p)
         /\ Record(p, pdu).src = p.src /\ Record(p, pdu).dst = p.dst
         /\ Record(p, pdu).auth = p.auth /\ Record(p, pdu).last = p.last
         /\ Record(p, pdu).known = p.known
<1> DEFINE q == Record(p, pdu)
           kept == Larger(p.seqs[pdu.offset], pdu.seq)
<1>1. /\ pdu.offset \in 0..LastSeg /\ pdu.seq \in Seqs
      /\ p.seqs \in [0..LastSeg -> Seqs \cup {-1}]
  BY DEF Pdu, Transaction
<1>2. kept \in Seqs \cup {-1} /\ (kept = pdu.seq \/ kept = p.seqs[pdu.offset])
  BY <1>1 DEF Larger
<1>3. q = [p EXCEPT !.seqs = [p.seqs EXCEPT ![pdu.offset] = kept]]
  BY DEF Record
<1>4. /\ q.src = p.src /\ q.dst = p.dst /\ q.auth = p.auth /\ q.last = p.last
      /\ q.known = p.known /\ q.seqs = [p.seqs EXCEPT ![pdu.offset] = kept]
  BY <1>3 DEF Transaction
<1>5. [p.seqs EXCEPT ![pdu.offset] = kept] \in [0..LastSeg -> Seqs \cup {-1}]
  BY <1>1, <1>2
<1>6. q \in Transaction
  BY <1>3, <1>5 DEF Transaction
<1>7. Genuine(q)
  <2>1. Began(q.src, q.dst, q.auth, q.last, q.known)
    BY <1>4 DEF Genuine
  <2>2. ASSUME NEW o \in 0..LastSeg, q.seqs[o] # -1
        PROVE  \E d \in sent :
                 /\ d.seq = q.seqs[o] /\ d.src = q.src /\ d.dst = q.dst
                 /\ d.offset = o /\ d.last = q.last /\ d.known = q.known
                 /\ d.zero = q.auth % ZeroSpace
    <3>1. CASE q.seqs[o] = p.seqs[o]
      BY <1>4, <2>2, <3>1 DEF Genuine
    <3>2. CASE q.seqs[o] # p.seqs[o]
      <4>1. o = pdu.offset /\ q.seqs[o] = pdu.seq
        BY <1>1, <1>2, <1>4, <3>2
      <4> QED  BY <1>4, <4>1 DEF Segment
    <3> QED  BY <3>1, <3>2
  <2> QED  BY <2>1, <2>2 DEF Genuine
<1> QED  BY <1>4, <1>6, <1>7 DEF PairOf

(* The memory has a place for the transaction p, and nothing of its pair.  *)
Fits(m, p) ==
  /\ p.auth > m.done[PairOf(p)] /\ p.auth > m.dropped[PairOf(p)]
  /\ \A q \in m.live \ {p} : PairOf(q) # PairOf(p)
  /\ Cardinality(m.live \ {p}) < MaxPending
  /\ PairOf(p) \in Tracked(m) \/ Cardinality(Tracked(m)) < MaxTracked

(* With a place for p, one more entry is within the bounds.                *)
LEMMA RoomOk ==
  ASSUME NEW m, Bounded(m), NEW p, Fits(m, p), NEW q, NEW T,
         T \subseteq Tracked(m) \cup {PairOf(p)}
  PROVE  /\ IsFiniteSet(m.live \ {p}) /\ Cardinality(m.live \ {p}) <= MaxPending
         /\ IsFiniteSet((m.live \ {p}) \cup {q})
         /\ Cardinality((m.live \ {p}) \cup {q}) <= MaxPending
         /\ IsFiniteSet(T) /\ Cardinality(T) <= MaxTracked
<1> DEFINE others == m.live \ {p}
           all == Tracked(m) \cup {PairOf(p)}
<1>1. IsFiniteSet(m.live) /\ IsFiniteSet(Tracked(m)) /\ Cardinality(Tracked(m)) <= MaxTracked
  BY DEF Bounded
<1>2. IsFiniteSet(others) /\ Cardinality(others) \in Nat /\ Cardinality(others) < MaxPending
  BY <1>1, FS_RemoveElement, FS_CardinalityType DEF Fits
<1>3. /\ IsFiniteSet(others \cup {q})
      /\ Cardinality(others \cup {q}) = IF q \in others THEN Cardinality(others)
                                        ELSE Cardinality(others) + 1
  BY <1>2, FS_AddElement
<1>4. Cardinality(Tracked(m)) \in Nat
  BY <1>1, FS_CardinalityType
<1>5. /\ IsFiniteSet(all)
      /\ Cardinality(all) = IF PairOf(p) \in Tracked(m) THEN Cardinality(Tracked(m))
                            ELSE Cardinality(Tracked(m)) + 1
  BY <1>1, FS_AddElement
<1>6. Cardinality(all) <= MaxTracked /\ Cardinality(all) \in Nat
  BY <1>1, <1>4, <1>5 DEF Fits
<1>7. IsFiniteSet(T) /\ Cardinality(T) <= Cardinality(all)
  BY <1>5, FS_Subset
<1>8. Cardinality(T) \in Nat
  BY <1>7, FS_CardinalityType
<1>9. Cardinality(others) <= MaxPending /\ Cardinality(others \cup {q}) <= MaxPending
  BY <1>2, <1>3
<1> QED  BY <1>2, <1>3, <1>6, <1>7, <1>8, <1>9

(* A transaction goes on: its place in the memory.                         *)
LEMMA ReplacedOk ==
  ASSUME NEW m, MemoryOk(m), NEW p \in Transaction, Fits(m, p),
         NEW q \in Transaction, Genuine(q), PairOf(q) = PairOf(p), q.auth = p.auth
  PROVE  MemoryOk([m EXCEPT !.live = (m.live \ {p}) \cup {q}])
<1> DEFINE others == m.live \ {p}
           r == [m EXCEPT !.live = others \cup {q}]
<1>1. /\ r.live = others \cup {q} /\ r.done = m.done /\ r.dropped = m.dropped /\ r \in Memories
  BY DEF MemoryOk, Memories
<1>2. Current(r)
  <2>1. \A a, b \in r.live : PairOf(a) = PairOf(b) => a = b
    BY <1>1 DEF Fits, MemoryOk, Current
  <2>2. \A a \in r.live : a.auth > r.done[PairOf(a)] /\ a.auth > r.dropped[PairOf(a)]
    BY <1>1 DEF Fits, MemoryOk, Current
  <2> QED  BY <2>1, <2>2 DEF Current
<1>3. Bounded(r)
  <2>1. Bounded(m)
    BY DEF MemoryOk
  <2>2. Tracked(r) \subseteq Tracked(m) \cup {PairOf(p)}
    BY <1>1 DEF Tracked
  <2> QED  BY <1>1, <2>1, <2>2, RoomOk DEF Bounded
<1>4. \A a \in r.live : Genuine(a)
  BY <1>1 DEF MemoryOk
<1> QED  BY <1>1, <1>2, <1>3, <1>4 DEF MemoryOk

(* A transaction completes: its pair's records.                            *)
LEMMA CompletedOk ==
  ASSUME NEW m, MemoryOk(m), NEW p \in Transaction, Fits(m, p),
         NEW r, r = [live    |-> m.live \ {p},
                     done    |-> [m.done EXCEPT ![PairOf(p)] = p.auth],
                     dropped |-> [m.dropped EXCEPT ![PairOf(p)] = -1]]
  PROVE  MemoryOk(r) /\ Mark(r, PairOf(p)) = p.auth
         /\ \A pair \in Pairs : Mark(r, pair) >= Mark(m, pair)
<1> DEFINE others == m.live \ {p}
<1>1. /\ p.auth \in Seqs /\ PairOf(p) \in Pairs
      /\ m.done \in Marks /\ m.dropped \in Marks /\ m.live \subseteq Transaction
  BY DEF Transaction, PairOf, Pairs, MemoryOk, Memories
<1>2. r.live = others /\ r.done \in Marks /\ r.dropped \in Marks /\ r \in Memories
  BY <1>1 DEF Marks, Memories
<1>3. /\ r.done[PairOf(p)] = p.auth /\ r.dropped[PairOf(p)] = -1
      /\ \A pair \in Pairs : pair # PairOf(p) =>
           r.done[pair] = m.done[pair] /\ r.dropped[pair] = m.dropped[pair]
  BY <1>1 DEF Marks
<1>4. Current(r)
  BY <1>2, <1>3 DEF MemoryOk, Current, Fits, PairOf, Memories, Transaction, Pairs
<1>5. Bounded(r)
  <2>1. Bounded(m)
    BY DEF MemoryOk
  <2>2. Tracked(r) \subseteq Tracked(m) \cup {PairOf(p)}
    BY <1>2, <1>3 DEF Tracked
  <2> QED  BY <1>2, <2>1, <2>2, RoomOk DEF Bounded
<1>6. \A a \in r.live : Genuine(a)
  BY <1>2 DEF MemoryOk
<1>7. Mark(r, PairOf(p)) = p.auth
  BY <1>1, <1>3 DEF Mark, Larger, Seqs
<1>8. ASSUME NEW pair \in Pairs PROVE Mark(r, pair) >= Mark(m, pair)
  <2>1. m.done[pair] \in Int /\ m.dropped[pair] \in Int
    BY <1>1 DEF Marks, Seqs
  <2>2. CASE pair = PairOf(p)
    BY <1>1, <1>7, <2>1, <2>2 DEF Fits, Mark, Larger, Seqs
  <2>3. CASE pair # PairOf(p)
    BY <1>3, <2>1, <2>3 DEF Mark, Larger
  <2> QED  BY <2>2, <2>3
<1> QED  BY <1>2, <1>4, <1>5, <1>6, <1>7, <1>8 DEF MemoryOk

-------------------------------------------------------------------------------
(* A transaction that fits was not dispatched before, and is over once its *)
(* auth is behind the watermark.                                           *)
LEMMA NotDispatchedYet ==
  ASSUME IInv, NEW m, MemoryOk(m),
         \A pair \in Pairs : Mark(m, pair) >= Watermark(pair),
         NEW p \in Transaction, Genuine(p), Fits(m, p), UNCHANGED sent
  PROVE  /\ delivered[<<p.src, p.auth>>] = 0
         /\ Watermark(PairOf(p))' >= p.auth => Over(p.src, p.auth)'
<1>1. PICK first \in sent :
        first.src = p.src /\ first.dst = p.dst /\ first.seq = p.auth /\ first.last = p.last
  BY DEF Genuine, Began
<1>2. /\ p.src \in Nodes /\ p.auth \in Seqs /\ p.last # -1 /\ PairOf(p) \in Pairs
      /\ PairOf(p) = <<p.src, p.dst>>
  BY DEF Transaction, PairOf, Pairs
<1>3. p.auth > Watermark(PairOf(p))
  <2>1. /\ m.done[PairOf(p)] \in Int /\ m.dropped[PairOf(p)] \in Int
        /\ Watermark(PairOf(p)) \in Int /\ p.auth \in Int
    BY <1>2, WatermarkInt DEF MemoryOk, Memories, Marks, Seqs, IInv, Memory
  <2>2. p.auth > Mark(m, PairOf(p)) /\ Mark(m, PairOf(p)) \in Int
    BY <2>1 DEF Fits, Mark, Larger
  <2> QED  BY <1>2, <2>1, <2>2
<1>4. ~Over(p.src, p.auth)
  <2> SUFFICES ASSUME NEW d \in sent, d.src = p.src, d.seq = p.auth,
                      IF d.last = -1 THEN rpl[p.src] >= p.auth
                      ELSE Watermark(<<p.src, d.dst>>) >= p.auth
               PROVE  FALSE
    BY DEF Over
  <2>1. d = first
    BY <1>1 DEF IInv, SendersOk
  <2>2. Watermark(PairOf(p)) >= p.auth
    BY <1>1, <1>2, <2>1
  <2>3. Watermark(PairOf(p)) \in Int /\ p.auth \in Int
    BY <1>2, WatermarkInt DEF IInv, MemoryOk, Memory, Memories, Seqs
  <2> QED  BY <1>3, <2>2, <2>3
<1>5. delivered[<<p.src, p.auth>>] = 0
  BY <1>2, <1>4 DEF IInv, Once
<1>6. Watermark(PairOf(p))' >= p.auth => Over(p.src, p.auth)'
  BY <1>1, <1>2 DEF Over
<1> QED  BY <1>5, <1>6

(* A segment joins a transaction that fits.                                *)
LEMMA JoinInv ==
  ASSUME IInv, UNCHANGED senders,
         NEW m, MemoryOk(m), \A pair \in Pairs : Mark(m, pair) >= Watermark(pair),
         NEW p \in Transaction, Genuine(p), Fits(m, p),
         NEW pdu \in sent, Segment(pdu, p), Join(m, p, pdu)
  PROVE  /\ IInv'
         /\ \A pair \in Pairs : Watermark(pair)' >= Mark(m, pair)
         /\ \A q \in m.live \ {p} : q \in pending'
         /\ \/ \E q \in pending' : PairOf(q) = PairOf(p)
            \/ Watermark(PairOf(p))' >= p.auth
<1> DEFINE q == Record(p, pdu)
           others == m.live \ {p}
<1>1. /\ q \in Transaction /\ Genuine(q) /\ PairOf(q) = PairOf(p)
      /\ q.src = p.src /\ q.dst = p.dst /\ q.auth = p.auth /\ q.last = p.last /\ q.known = p.known
  <2>1. pdu \in Pdu
    BY DEF IInv, SendersOk
  <2> QED  BY <2>1, RecordOk
<1>2. /\ PairOf(p) \in Pairs /\ p.auth \in Seqs /\ p.src \in Nodes /\ sent' = sent
      /\ \A pair \in Pairs : Mark(m, pair) \in Int /\ Watermark(pair) \in Int
  <2>1. PairOf(p) \in Pairs /\ p.auth \in Seqs /\ p.src \in Nodes /\ sent' = sent
    BY DEF PairOf, Pairs, Transaction, senders
  <2>2. ASSUME NEW pair \in Pairs PROVE Mark(m, pair) \in Int /\ Watermark(pair) \in Int
    <3>1. m.done[pair] \in Int /\ m.dropped[pair] \in Int
      BY DEF MemoryOk, Memories, Marks, Seqs
    <3>2. completed \in Marks /\ discarded \in Marks
      BY DEF IInv, MemoryOk, Memory, Memories
    <3> QED  BY <3>1, <3>2, WatermarkInt DEF Mark, Larger
  <2> QED  BY <2>1, <2>2
<1>3. CASE ~Whole(q)
  <2> DEFINE r == [m EXCEPT !.live = others \cup {q}]
  <2>1. Store(r) /\ UNCHANGED <<delivered, rpl>>
    BY <1>3 DEF Join
  <2>2. MemoryOk(r)
    BY <1>1, ReplacedOk
  <2>3. r.live = others \cup {q} /\ r.done = m.done /\ r.dropped = m.dropped
    BY DEF MemoryOk, Memories
  <2>4. MemoryOk(Memory)' /\ \A pair \in Pairs : Watermark(pair)' = Mark(m, pair)
    BY <1>2, <2>1, <2>2, <2>3, StoreOk DEF Mark
  <2>5. pending' = others \cup {q}
    BY <2>1, <2>3 DEF Store
  <2>6. \A pair \in Pairs : Watermark(pair)' >= Mark(m, pair) /\ Watermark(pair)' >= Watermark(pair)
    BY <1>2, <2>4
  <2>7. IInv'
    BY <2>1, <2>4, <2>6, ReceiveInv
  <2> QED  BY <1>1, <2>5, <2>6, <2>7
<1>4. CASE Whole(q)
  <2> DEFINE r == [live    |-> others,
                   done    |-> [m.done EXCEPT ![PairOf(p)] = p.auth],
                   dropped |-> [m.dropped EXCEPT ![PairOf(p)] = -1]]
             seq == LastSegmentSeq(q)
  <2>1. /\ Store(r)
        /\ UNCHANGED <<delivered, rpl>> \/ Deliver(p.src, p.auth, seq, p.known)
    BY <1>4 DEF Join
  <2>2. /\ MemoryOk(r) /\ Mark(r, PairOf(p)) = p.auth
        /\ \A pair \in Pairs : Mark(r, pair) >= Mark(m, pair)
    BY CompletedOk
  <2>3. MemoryOk(Memory)' /\ \A pair \in Pairs : Watermark(pair)' = Mark(r, pair)
    BY <1>2, <2>1, <2>2, StoreOk
  <2>4. \A pair \in Pairs : Mark(r, pair) \in Int
    <3> SUFFICES ASSUME NEW pair \in Pairs PROVE Mark(r, pair) \in Int
      OBVIOUS
    <3>1. r.done[pair] \in Int /\ r.dropped[pair] \in Int
      BY <2>2 DEF MemoryOk, Memories, Marks, Seqs
    <3> QED  BY <3>1 DEF Mark, Larger
  <2> HIDE DEF r
  <2>5. \A pair \in Pairs : Watermark(pair)' >= Mark(m, pair) /\ Watermark(pair)' >= Watermark(pair)
    BY <1>2, <2>2, <2>3, <2>4
  <2>6. Watermark(PairOf(p))' = p.auth /\ p.auth \in Int
    BY <1>2, <2>2, <2>3 DEF Seqs
  <2>7. seq \in Seqs
    BY <1>1, <1>4 DEF LastSegmentSeq, Whole, Transaction
  <2>8. \/ UNCHANGED <<delivered, rpl>>
        \/ \E n \in Nodes, a \in Seqs, s \in Seqs :
             /\ delivered[<<n, a>>] = 0 /\ Over(n, a)'
             /\ delivered' = [delivered EXCEPT ![<<n, a>>] = @ + 1]
             /\ rpl' = [rpl EXCEPT ![n] = Larger(@, s)]
    <3>1. delivered[<<p.src, p.auth>>] = 0 /\ Over(p.src, p.auth)'
      BY <1>2, <2>6, NotDispatchedYet
    <3> QED  BY <1>2, <2>1, <2>7, <3>1 DEF Deliver
  <2>9. IInv'
    BY <2>3, <2>5, <2>8, ReceiveInv
  <2>10. pending' = others
    BY <2>1 DEF Store, r
  <2> QED  BY <2>5, <2>6, <2>9, <2>10
<1> QED  BY <1>3, <1>4

-------------------------------------------------------------------------------
(* What every step does to what is over and to what is pending.            *)
Forward ==
  /\ \A pair \in Pairs : Watermark(pair)' >= Watermark(pair)
  /\ \A p \in pending :
       \/ \E q \in pending' : PairOf(q) = PairOf(p)
       \/ Watermark(PairOf(p))' >= p.auth

LEMMA UnsegmentedInv ==
  ASSUME IInv, NEW pdu \in sent, ReceiveUnsegmented(pdu)
  PROVE  IInv' /\ Forward
<1>1. /\ pdu.last = -1 /\ pdu.seq > rpl[pdu.src] /\ UNCHANGED <<senders, reassembler>>
      /\ Deliver(pdu.src, pdu.seq, pdu.seq, pdu.known)
      /\ pdu.src \in Nodes /\ pdu.seq \in Seqs /\ rpl \in [Nodes -> Seqs \cup {-1}]
      /\ pdu.seq \in Int /\ rpl[pdu.src] \in Int
  BY DEF ReceiveUnsegmented, IsReplay, IInv, SendersOk, Pdu, TypeOK, Seqs
<1>2. MemoryOk(Memory)'
  BY <1>1 DEF IInv, MemoryOk, Current, Bounded, Tracked, PairOf, Memories, Marks, Memory,
              reassembler, senders, Genuine, Began
<1>3. \A pair \in Pairs : Watermark(pair)' = Watermark(pair) /\ Watermark(pair) \in Int
  BY <1>1, WatermarkInt DEF Watermark, Larger, reassembler, IInv, MemoryOk, Memory, Memories
<1>4. delivered[<<pdu.src, pdu.seq>>] = 0
  <2>1. ~Over(pdu.src, pdu.seq)
    <3> SUFFICES ASSUME NEW d \in sent, d.src = pdu.src, d.seq = pdu.seq,
                        IF d.last = -1 THEN rpl[pdu.src] >= pdu.seq
                        ELSE Watermark(<<pdu.src, d.dst>>) >= pdu.seq
                 PROVE  FALSE
      BY DEF Over
    <3>1. d = pdu
      BY DEF IInv, SendersOk
    <3> QED  BY <1>1, <3>1
  <2> QED  BY <1>1, <2>1 DEF IInv, Once
<1>5. \A pair \in Pairs : Watermark(pair)' >= Watermark(pair)
  BY <1>3
<1>6. ASSUME pdu.known PROVE IInv'
  <2>1. /\ delivered' = [delivered EXCEPT ![<<pdu.src, pdu.seq>>] = @ + 1]
        /\ rpl' = [rpl EXCEPT ![pdu.src] = Larger(@, pdu.seq)]
    BY <1>1, <1>6 DEF Deliver
  <2>2. rpl'[pdu.src] >= pdu.seq
    BY <1>1, <2>1 DEF Larger
  <2>3. Over(pdu.src, pdu.seq)'
    BY <1>1, <2>2 DEF Over, senders
  <2>4. \E n \in Nodes, a \in Seqs, s \in Seqs :
          /\ delivered[<<n, a>>] = 0 /\ Over(n, a)'
          /\ delivered' = [delivered EXCEPT ![<<n, a>>] = @ + 1]
          /\ rpl' = [rpl EXCEPT ![n] = Larger(@, s)]
    BY <1>1, <1>4, <2>1, <2>3
  <2> QED  BY <1>1, <1>2, <1>5, <2>4, ReceiveInv
<1>7. ASSUME ~pdu.known PROVE IInv'
  <2>1. UNCHANGED <<delivered, rpl>>
    BY <1>1, <1>7 DEF Deliver
  <2> QED  BY <1>1, <1>2, <1>5, <2>1, ReceiveInv
<1>8. Forward
  BY <1>1, <1>5 DEF Forward, reassembler
<1> QED  BY <1>6, <1>7, <1>8

(* Storing a memory that lost nothing but what it marks as over.           *)
LEMMA StoredInv ==
  ASSUME IInv, UNCHANGED <<senders, delivered, rpl>>,
         NEW m, MemoryOk(m), Store(m), \A pair \in Pairs : Mark(m, pair) >= Watermark(pair),
         \A p \in pending \ m.live : Mark(m, PairOf(p)) >= p.auth
  PROVE  IInv' /\ Forward
<1>1. /\ MemoryOk(Memory)' /\ \A pair \in Pairs : Watermark(pair)' = Mark(m, pair)
      /\ pending' = m.live
  BY StoreOk DEF senders, Store
<1>2. \A p \in pending : PairOf(p) \in Pairs
  BY DEF IInv, MemoryOk, Memory, Memories, PairOf, Pairs, Transaction
<1>3. \A pair \in Pairs : Watermark(pair)' >= Watermark(pair)
  BY <1>1
<1>4. Forward
  BY <1>1, <1>2, <1>3 DEF Forward
<1> QED  BY <1>1, <1>3, <1>4, ReceiveInv

LEMMA RefuseInv ==
  ASSUME IInv, NEW pdu \in sent, NEW expired \in SUBSET pending, RefuseSegment(pdu, expired)
  PROVE  IInv' /\ Forward
<1>1. Store(Pruned(expired)) /\ UNCHANGED <<senders, delivered, rpl>>
  BY DEF RefuseSegment
<1>2. MemoryOk(Memory)
  BY DEF IInv
<1> QED  BY <1>1, <1>2, PrunedOk, StoredInv

(* A segment of a new message begins a transaction with nothing in it.     *)
LEMMA FreshOk ==
  ASSUME IInv, NEW pdu \in sent, pdu.last # -1, SeqAuth(pdu.seq, pdu.zero) >= 0
  PROVE  LET p == Fresh(pdu, SeqAuth(pdu.seq, pdu.zero)) IN
         /\ p \in Transaction /\ Genuine(p) /\ Segment(pdu, p) /\ PairOf(p) = PairOf(pdu)
         /\ p.auth = SeqAuth(pdu.seq, pdu.zero)
<1> DEFINE auth == SeqAuth(pdu.seq, pdu.zero)
           p == Fresh(pdu, auth)
<1>1. pdu \in Pdu /\ OfItsMessage(pdu)
  BY DEF IInv, SendersOk
<1>2. /\ pdu.src \in Nodes /\ pdu.dst \in Dsts /\ pdu.seq \in 0..MaxSeq /\ pdu.zero \in Nat
      /\ pdu.last \in 0..LastSeg /\ pdu.known \in BOOLEAN
  BY <1>1 DEF Pdu, Seqs
<1>3. auth \in Seqs
  <2>1. auth \in Int /\ auth <= pdu.seq
    BY <1>2, SeqAuthNotAbove
  <2> QED  BY <1>2, <2>1 DEF Seqs
<1>4. /\ p.src = pdu.src /\ p.dst = pdu.dst /\ p.auth = auth /\ p.last = pdu.last
      /\ p.known = pdu.known /\ p.seqs = [o \in 0..LastSeg |-> -1]
  BY DEF Fresh
<1>5. p \in Transaction
  BY <1>2, <1>3 DEF Fresh, Transaction
<1>6. Genuine(p)
  BY <1>1, <1>4 DEF Genuine, OfItsMessage
<1>7. Segment(pdu, p)
  BY <1>1, <1>4 DEF Segment, OfItsMessage
<1> QED  BY <1>4, <1>5, <1>6, <1>7 DEF PairOf

LEMMA AcceptInv ==
  ASSUME IInv, NEW pdu \in sent, NEW expired \in SUBSET pending, AcceptSegment(pdu, expired)
  PROVE  IInv' /\ Forward
<1> DEFINE m == Pruned(expired)
           pair == PairOf(pdu)
           auth == SeqAuth(pdu.seq, pdu.zero)
           same == {p \in m.live : PairOf(p) = pair /\ p.auth = auth}
           rest == Supersede(m, pair)
           fresh == Fresh(pdu, auth)
<1>1. /\ pdu.last # -1 /\ auth >= 0 /\ Admissible(m, pair, auth) /\ UNCHANGED senders
      /\ \/ \E p \in same : Join(m, p, pdu)
         \/ same = {} /\ HasRoom(rest, pair) /\ Join(rest, fresh, pdu)
         \/ same = {} /\ ~HasRoom(rest, pair) /\ Store(rest) /\ UNCHANGED <<delivered, rpl>>
  BY DEF AcceptSegment
<1>2. /\ MemoryOk(m) /\ \A pr \in Pairs : Mark(m, pr) >= Watermark(pr)
      /\ \A p \in pending \ m.live : Mark(m, PairOf(p)) >= p.auth
  BY PrunedOk DEF IInv
<1>3. /\ pair \in Pairs /\ m.live \subseteq Transaction
      /\ \A p \in pending : PairOf(p) \in Pairs /\ p.auth \in Int
      /\ \A pr \in Pairs : Mark(m, pr) \in Int /\ Watermark(pr) \in Int
  <2>1. pair \in Pairs /\ m.live \subseteq Transaction
    BY <1>2 DEF IInv, SendersOk, Pdu, PairOf, Pairs, MemoryOk, Memories
  <2>2. \A p \in pending : PairOf(p) \in Pairs /\ p.auth \in Int
    BY DEF IInv, MemoryOk, Memory, Memories, PairOf, Pairs, Transaction, Seqs
  <2>3. ASSUME NEW pr \in Pairs PROVE Mark(m, pr) \in Int /\ Watermark(pr) \in Int
    <3>1. m.done[pr] \in Int /\ m.dropped[pr] \in Int
      BY <1>2 DEF MemoryOk, Memories, Marks, Seqs
    <3>2. completed \in Marks /\ discarded \in Marks
      BY DEF IInv, MemoryOk, Memory, Memories
    <3> QED  BY <3>1, <3>2, WatermarkInt DEF Mark, Larger
  <2> QED  BY <2>1, <2>2, <2>3
<1>4. /\ fresh \in Transaction /\ Genuine(fresh) /\ Segment(pdu, fresh)
      /\ PairOf(fresh) = pair /\ fresh.auth = auth
  BY <1>1, FreshOk
<1> HIDE DEF m, fresh
<1>5. ASSUME NEW p \in same, Join(m, p, pdu) PROVE IInv' /\ Forward
  <2>1. p \in m.live /\ p \in Transaction /\ PairOf(p) = pair /\ p.auth = auth /\ Genuine(p)
    BY <1>2, <1>3, <1>5 DEF MemoryOk
  <2>2. Segment(pdu, p)
    <3>1. /\ Began(p.src, p.dst, p.auth, p.last, p.known)
          /\ Began(pdu.src, pdu.dst, auth, pdu.last, pdu.known)
          /\ p.src = pdu.src /\ p.dst = pdu.dst /\ pdu.zero = auth % ZeroSpace
      BY <1>1, <2>1 DEF Genuine, IInv, SendersOk, OfItsMessage, PairOf
    <3>2. p.last = pdu.last /\ p.known = pdu.known
      BY <2>1, <3>1, OneFirst DEF IInv
    <3> QED  BY <2>1, <3>1, <3>2 DEF Segment
  <2>3. Fits(m, p)
    <3>1. IsFiniteSet(m.live) /\ Cardinality(m.live) <= MaxPending
      BY <1>2 DEF MemoryOk, Bounded
    <3>2. /\ Cardinality(m.live) \in Nat
          /\ Cardinality(m.live \ {p}) = Cardinality(m.live) - 1
      BY <2>1, <3>1, FS_CardinalityType, FS_RemoveElement
    <3>3. pair \in Tracked(m)
      BY <2>1 DEF Tracked
    <3>4. \A q \in m.live \ {p} : PairOf(q) # PairOf(p)
      BY <1>2, <2>1 DEF MemoryOk, Current
    <3>5. p.auth > m.done[PairOf(p)] /\ p.auth > m.dropped[PairOf(p)]
      BY <1>2, <2>1 DEF MemoryOk, Current
    <3> QED  BY <2>1, <3>1, <3>2, <3>3, <3>4, <3>5 DEF Fits
  <2>4. /\ IInv' /\ \A pr \in Pairs : Watermark(pr)' >= Mark(m, pr)
        /\ \A q \in m.live \ {p} : q \in pending'
        /\ \/ \E q \in pending' : PairOf(q) = PairOf(p)
           \/ Watermark(PairOf(p))' >= p.auth
    BY <1>1, <1>2, <1>5, <2>1, <2>2, <2>3, JoinInv
  <2>5. \A pr \in Pairs : Watermark(pr)' \in Int
    BY <2>4, WatermarkInt DEF IInv, MemoryOk, Memory, Memories, Marks, Pairs, Watermark,
                              Larger, Seqs
  <2>6. Forward
    BY <1>2, <1>3, <2>4, <2>5 DEF Forward
  <2> QED  BY <2>4, <2>6
<1>6. /\ MemoryOk(rest) /\ rest.live = {p \in m.live : PairOf(p) # pair}
      /\ rest.done = m.done /\ rest.dropped = m.dropped
      /\ rest.live # m.live => HasRoom(rest, pair)
  BY <1>2, <1>3, SupersededOk
<1>7. \A pr \in Pairs : Mark(rest, pr) = Mark(m, pr)
  BY <1>6 DEF Mark
<1> HIDE DEF rest
<1>8. ASSUME HasRoom(rest, pair), Join(rest, fresh, pdu) PROVE IInv' /\ Forward
  <2>1. fresh \notin rest.live /\ rest.live \ {fresh} = rest.live
    BY <1>4, <1>6
  <2>2. Fits(rest, fresh)
    BY <1>1, <1>4, <1>6, <1>8, <2>1 DEF Fits, HasRoom, Admissible
  <2>3. /\ IInv' /\ \A pr \in Pairs : Watermark(pr)' >= Mark(rest, pr)
        /\ \A q \in rest.live : q \in pending'
        /\ \/ \E q \in pending' : PairOf(q) = pair
           \/ Watermark(pair)' >= auth
    BY <1>1, <1>2, <1>4, <1>6, <1>7, <1>8, <2>1, <2>2, JoinInv
  <2>4. \A pr \in Pairs : Watermark(pr)' \in Int
    BY <2>3, WatermarkInt DEF IInv, MemoryOk, Memory, Memories, Marks, Pairs, Watermark,
                              Larger, Seqs
  <2>5. auth \in Int /\ \A p \in m.live : PairOf(p) = pair => p.auth <= auth /\ p.auth \in Int
    BY <1>1, <1>3, <1>4 DEF Admissible, Transaction, Seqs
  <2>6. Forward
    BY <1>2, <1>3, <1>6, <1>7, <2>3, <2>4, <2>5 DEF Forward
  <2> QED  BY <2>3, <2>6
<1>9. ASSUME ~HasRoom(rest, pair), Store(rest), UNCHANGED <<delivered, rpl>>
      PROVE  IInv' /\ Forward
  <2>1. rest.live = m.live
    BY <1>6, <1>9
  <2> QED  BY <1>1, <1>2, <1>3, <1>6, <1>7, <1>9, <2>1, StoredInv
<1> QED  BY <1>1, <1>5, <1>8, <1>9

-------------------------------------------------------------------------------
(* Whatever is sent next uses a fresh number, and tells its message.       *)
LEMMA TransmitOk ==
  ASSUME IInv, NEW n \in Nodes, NEW d \in Dsts, NEW zero \in Nat, NEW offset \in 0..LastSeg,
         NEW last \in 0..LastSeg \cup {-1}, NEW known \in BOOLEAN,
         Transmit(n, d, zero, offset, last, known)
  PROVE  /\ sent' \subseteq Pdu /\ nextSeq' \in [Nodes -> 0..(MaxSeq + 1)]
         /\ \A pdu \in sent' : pdu.seq < nextSeq'[pdu.src]
         /\ \A a, b \in sent' : a.src = b.src /\ a.seq = b.seq => a = b
         /\ sent \subseteq sent'
         /\ \A pdu \in sent' \ sent :
              /\ pdu.src = n /\ pdu.dst = d /\ pdu.seq = nextSeq[n] /\ pdu.zero = zero
              /\ pdu.last = last /\ pdu.known = known
         /\ \A s \in Nat : s = nextSeq[n] => Began(n, d, s, last, known)'
<1> DEFINE new == [src |-> n, dst |-> d, seq |-> nextSeq[n], zero |-> zero,
                   offset |-> offset, last |-> last, known |-> known]
<1>1. /\ nextSeq \in [Nodes -> 0..(MaxSeq + 1)] /\ sent \subseteq Pdu
      /\ \A pdu \in sent : pdu.seq < nextSeq[pdu.src]
      /\ \A a, b \in sent : a.src = b.src /\ a.seq = b.seq => a = b
  BY DEF IInv, TypeOK, SendersOk
<1>2. /\ nextSeq[n] <= MaxSeq /\ nextSeq[n] \in Nat /\ nextSeq' = [nextSeq EXCEPT ![n] = @ + 1]
      /\ sent' = sent \cup {new}
  BY <1>1 DEF Transmit
<1>3. new \in Pdu
  BY <1>2 DEF Pdu, Seqs
<1>4. nextSeq' \in [Nodes -> 0..(MaxSeq + 1)]
  BY <1>1, <1>2
<1>5. \A pdu \in sent : pdu.src \in Nodes /\ pdu.seq \in Int
  BY <1>1 DEF Pdu, Seqs
<1>6. \A pdu \in sent' : pdu.seq < nextSeq'[pdu.src]
  <2>1. \A k \in Nodes : nextSeq[k] \in Int /\ nextSeq'[k] \in Int /\ nextSeq'[k] >= nextSeq[k]
    BY <1>1, <1>2
  <2>2. new.seq < nextSeq'[new.src]
    BY <1>1, <1>2
  <2> QED  BY <1>1, <1>2, <1>5, <2>1, <2>2
<1>7. \A a, b \in sent' : a.src = b.src /\ a.seq = b.seq => a = b
  <2>1. \A a \in sent : ~(a.src = n /\ a.seq = nextSeq[n])
    BY <1>1, <1>2, <1>5
  <2>2. new.src = n /\ new.seq = nextSeq[n]
    OBVIOUS
  <2> QED  BY <1>1, <1>2, <2>1, <2>2
<1>8. ASSUME NEW s \in Nat, s = nextSeq[n] PROVE Began(n, d, s, last, known)'
  <2>1. /\ new \in sent' /\ new.src = n /\ new.dst = d /\ new.seq = s
        /\ new.last = last /\ new.known = known
    BY <1>2, <1>8
  <2> HIDE DEF new
  <2> QED  BY <2>1 DEF Began
<1> QED  BY <1>1, <1>2, <1>3, <1>4, <1>6, <1>7, <1>8

(* What was begun stays begun.                                             *)
LEMMA BeganStays ==
  ASSUME sent \subseteq sent', NEW src, NEW dst, NEW auth, NEW last, NEW known,
         Began(src, dst, auth, last, known)
  PROVE  Began(src, dst, auth, last, known)'
  BY DEF Began

(* Sending disturbs nothing on the receiving side.                         *)
LEMMA SentInv ==
  ASSUME IInv, sent \subseteq sent', nextSeq' \in [Nodes -> 0..(MaxSeq + 1)],
         UNCHANGED <<rpl, reassembler, delivered>>, SendersOk'
  PROVE  IInv' /\ Forward
<1>1. /\ UNCHANGED <<rpl, pending, completed, discarded, delivered>> /\ Memory' = Memory
      /\ TypeOK /\ MemoryOk(Memory) /\ Once
  BY DEF reassembler, Memory, IInv
<1>2. ASSUME NEW p, Genuine(p) PROVE Genuine(p)'
  BY <1>2, BeganStays DEF Genuine
<1>3. MemoryOk(Memory)'
  <2>1. \A p \in Memory.live : Genuine(p)'
    BY <1>1, <1>2 DEF MemoryOk
  <2> QED  BY <1>1, <2>1 DEF MemoryOk, Current, Bounded, Tracked, PairOf, Memories, Marks
<1>4. Once'
  <2>1. ASSUME NEW n, NEW a, Over(n, a) PROVE Over(n, a)'
    BY <1>1, <2>1 DEF Over, Watermark, Larger
  <2> QED  BY <1>1, <2>1 DEF Once
<1>5. TypeOK'
  BY <1>1 DEF TypeOK, Tracked, PairOf
<1>6. Forward
  <2>1. \A pair \in Pairs : Watermark(pair) \in Int /\ Watermark(pair)' = Watermark(pair)
    BY <1>1, WatermarkInt DEF Watermark, Larger, MemoryOk, Memory, Memories
  <2> QED  BY <1>1, <2>1 DEF Forward
<1> QED  BY <1>3, <1>4, <1>5, <1>6 DEF IInv

LEMMA SendersStep ==
  ASSUME IInv, NEW n \in Nodes, NEW d \in Dsts, NEW zero \in Nat, NEW offset \in 0..LastSeg,
         NEW last \in 0..LastSeg \cup {-1}, NEW known \in BOOLEAN,
         Transmit(n, d, zero, offset, last, known),
         \/ UNCHANGED current
         \/ /\ last # -1
            /\ current' = [current EXCEPT ![<<n, d>>] =
                             [auth |-> nextSeq[n], last |-> last, known |-> known]],
         last # -1 =>
           /\ zero = SeqAuth(nextSeq[n], zero) % ZeroSpace
           /\ \A a : a = SeqAuth(nextSeq[n], zero) => Began(n, d, a, last, known)'
  PROVE  IInv' /\ Forward
<1>1. /\ sent' \subseteq Pdu /\ nextSeq' \in [Nodes -> 0..(MaxSeq + 1)]
      /\ \A pdu \in sent' : pdu.seq < nextSeq'[pdu.src]
      /\ \A a, b \in sent' : a.src = b.src /\ a.seq = b.seq => a = b
      /\ sent \subseteq sent'
      /\ \A pdu \in sent' \ sent :
           /\ pdu.src = n /\ pdu.dst = d /\ pdu.seq = nextSeq[n] /\ pdu.zero = zero
           /\ pdu.last = last /\ pdu.known = known
      /\ \A s \in Nat : s = nextSeq[n] => Began(n, d, s, last, known)'
  BY TransmitOk
<1>2. /\ current \in [Pairs -> Opened] /\ <<n, d>> \in Pairs
      /\ nextSeq[n] \in Seqs /\ nextSeq[n] \in Nat
  BY DEF IInv, SendersOk, TypeOK, Pairs, Transmit, Seqs
<1>3. ASSUME NEW pair \in Pairs
      PROVE  /\ current'[pair] \in Opened
             /\ current'[pair].auth # -1 =>
                  Began(pair[1], pair[2], current[pair].auth, current[pair].last,
                        current[pair].known)'
  <2>1. CASE current'[pair] = current[pair]
    <3>1. current[pair].auth # -1 =>
            Began(pair[1], pair[2], current[pair].auth, current[pair].last, current[pair].known)
      BY DEF IInv, SendersOk
    <3> QED  BY <1>1, <1>2, <2>1, <3>1, BeganStays
  <2>2. CASE /\ last # -1 /\ pair = <<n, d>>
             /\ current'[pair] = [auth |-> nextSeq[n], last |-> last, known |-> known]
    BY <1>1, <1>2, <2>2 DEF Opened
  <2>3. \/ current'[pair] = current[pair]
        \/ /\ last # -1 /\ pair = <<n, d>>
           /\ current'[pair] = [auth |-> nextSeq[n], last |-> last, known |-> known]
    BY <1>2
  <2> QED  BY <2>1, <2>2, <2>3
<1>4. current' \in [Pairs -> Opened]
  BY <1>2, <1>3 DEF Pairs
<1>5. ASSUME NEW pdu \in sent', pdu.last # -1 PROVE OfItsMessage(pdu)'
  <2>1. CASE pdu \in sent
    <3>1. OfItsMessage(pdu)
      BY <1>5, <2>1 DEF IInv, SendersOk
    <3> QED  BY <1>1, <3>1, BeganStays DEF OfItsMessage, SeqAuth
  <2>2. CASE pdu \notin sent
    <3>1. /\ pdu.src = n /\ pdu.dst = d /\ pdu.seq = nextSeq[n] /\ pdu.zero = zero
          /\ pdu.last = last /\ pdu.known = known /\ last # -1
      BY <1>1, <1>5, <2>2
    <3> QED  BY <3>1 DEF OfItsMessage, SeqAuth
  <2> QED  BY <2>1, <2>2
<1>6. SendersOk'
  BY <1>1, <1>3, <1>4, <1>5 DEF SendersOk, Pairs
<1>7. UNCHANGED <<rpl, reassembler, delivered>>
  BY DEF Transmit
<1> QED  BY <1>1, <1>6, <1>7, SentInv

LEMMA SendInv == ASSUME IInv, Send PROVE IInv' /\ Forward
<1>1. nextSeq \in [Nodes -> 0..(MaxSeq + 1)] /\ \A n \in Nodes : nextSeq[n] \in Nat
  BY DEF IInv, TypeOK
<1>2. ASSUME NEW n \in Nodes, NEW d \in Dsts, NEW known \in BOOLEAN,
             SendUnsegmented(n, d, known)
      PROVE  IInv' /\ Forward
  <2>1. Transmit(n, d, 0, 0, -1, known) /\ UNCHANGED current
    BY <1>2 DEF SendUnsegmented
  <2>2. 0 \in 0..LastSeg /\ -1 \in 0..LastSeg \cup {-1}
    OBVIOUS
  <2> QED  BY <2>1, <2>2, SendersStep
<1>3. ASSUME NEW n \in Nodes, NEW d \in Dsts, NEW known \in BOOLEAN, NEW last \in 0..LastSeg,
             OpenTransaction(n, d, last, known)
      PROVE  IInv' /\ Forward
  <2> DEFINE zero == nextSeq[n] % ZeroSpace
  <2>1. zero \in Nat /\ 0 \in 0..LastSeg /\ last # -1
    BY <1>1
  <2>2. /\ Transmit(n, d, zero, 0, last, known)
        /\ current' = [current EXCEPT ![<<n, d>>] =
                         [auth |-> nextSeq[n], last |-> last, known |-> known]]
    BY <1>3 DEF OpenTransaction
  <2>3. SeqAuth(nextSeq[n], zero) = nextSeq[n]
    BY <1>1, SeqAuthIdentifies
  <2>4. \A s \in Nat : s = nextSeq[n] => Began(n, d, s, last, known)'
    BY <2>1, <2>2, TransmitOk
  <2>5. \A a : a = SeqAuth(nextSeq[n], zero) => Began(n, d, a, last, known)'
    BY <1>1, <2>3, <2>4
  <2>6. zero = SeqAuth(nextSeq[n], zero) % ZeroSpace
    BY <2>3
  <2> HIDE DEF zero
  <2> QED  BY <2>1, <2>2, <2>5, <2>6, SendersStep
<1>4. ASSUME NEW n \in Nodes, NEW d \in Dsts, NEW offset \in 0..LastSeg, SendSegment(n, d, offset)
      PROVE  IInv' /\ Forward
  <2> DEFINE t == current[<<n, d>>]
             zero == t.auth % ZeroSpace
  <2>1. /\ t.auth # -1 /\ nextSeq[n] - t.auth < ZeroSpace /\ UNCHANGED current
        /\ Transmit(n, d, zero, offset, t.last, t.known)
    BY <1>4 DEF SendSegment
  <2>2. t.auth \in Nat /\ t.last \in 0..LastSeg /\ t.known \in BOOLEAN /\ <<n, d>> \in Pairs
    BY <2>1 DEF IInv, SendersOk, Opened, Pairs, Seqs
  <2>3. Began(n, d, t.auth, t.last, t.known)
    BY <2>1, <2>2 DEF IInv, SendersOk
  <2>4. t.auth <= nextSeq[n]
    <3>1. PICK first \in sent : first.src = n /\ first.seq = t.auth
      BY <2>3 DEF Began
    <3> QED  BY <1>1, <2>2, <3>1 DEF IInv, SendersOk
  <2>5. SeqAuth(nextSeq[n], zero) = t.auth
    BY <1>1, <2>1, <2>2, <2>4, SeqAuthIdentifies
  <2>6. zero \in Nat /\ t.last # -1
    BY <2>2
  <2>7. sent \subseteq sent'
    BY <2>1 DEF Transmit
  <2>8. \A a : a = SeqAuth(nextSeq[n], zero) => Began(n, d, a, t.last, t.known)'
    <3> SUFFICES ASSUME NEW a, a = t.auth PROVE Began(n, d, a, t.last, t.known)'
      BY <2>5
    <3> QED  BY <2>1, <2>3, <2>7 DEF Began
  <2>9. zero = SeqAuth(nextSeq[n], zero) % ZeroSpace
    BY <2>5
  <2> QED  BY <2>1, <2>2, <2>6, <2>8, <2>9, SendersStep
<1> QED  BY <1>2, <1>3, <1>4 DEF Send

-------------------------------------------------------------------------------
LEMMA InitInv == Init => IInv
<1> SUFFICES ASSUME Init PROVE IInv
  OBVIOUS
<1>1. /\ sent = {} /\ pending = {} /\ delivered = [m \in Messages |-> 0]
      /\ completed = [pair \in Pairs |-> -1] /\ discarded = [pair \in Pairs |-> -1]
      /\ rpl = [n \in Nodes |-> -1] /\ nextSeq = [n \in Nodes |-> 0]
      /\ current = [pair \in Pairs |-> NoTransaction]
  BY DEF Init
<1>2. Tracked(Memory) = {}
  BY <1>1 DEF Tracked, Memory
<1>3. Bounded(Memory)
  BY <1>1, <1>2, FS_EmptySet DEF Bounded, Memory
<1>4. TypeOK
  BY <1>1, <1>3 DEF TypeOK, Bounded, Memory
<1>5. SendersOk
  <2>1. NoTransaction \in Opened /\ NoTransaction.auth = -1
    BY DEF NoTransaction, Opened
  <2> QED  BY <1>1, <2>1 DEF SendersOk
<1>6. MemoryOk(Memory)
  BY <1>1, <1>3 DEF MemoryOk, Memories, Marks, Memory, Current
<1>7. Once
  BY <1>1 DEF Once, Messages
<1> QED  BY <1>4, <1>5, <1>6, <1>7 DEF IInv

LEMMA StepInv == ASSUME IInv, [Next]_vars PROVE IInv' /\ Forward
<1>1. CASE Send
  BY <1>1, SendInv
<1>2. ASSUME NEW pdu \in sent, ReceiveUnsegmented(pdu) PROVE IInv' /\ Forward
  BY <1>2, UnsegmentedInv
<1>3. ASSUME NEW pdu \in sent, NEW expired \in SUBSET pending, RefuseSegment(pdu, expired)
      PROVE  IInv' /\ Forward
  BY <1>3, RefuseInv
<1>4. ASSUME NEW pdu \in sent, NEW expired \in SUBSET pending, AcceptSegment(pdu, expired)
      PROVE  IInv' /\ Forward
  BY <1>4, AcceptInv
<1>5. CASE UNCHANGED vars
  <2>1. /\ sent \subseteq sent' /\ UNCHANGED <<senders, rpl, reassembler, delivered>>
        /\ nextSeq' \in [Nodes -> 0..(MaxSeq + 1)]
    BY <1>5 DEF vars, senders, IInv, TypeOK
  <2> QED  BY <2>1, SendersSame, SentInv DEF IInv
<1> QED  BY <1>1, <1>2, <1>3, <1>4, <1>5 DEF Next, Receive

LEMMA InvAlways == Spec => []IInv
  BY InitInv, StepInv, PTL DEF Spec

(* Every table keeps its type and both capacities hold, for every          *)
(* capacity: room for a completed record is reserved on admission, so      *)
(* _remember_completed never has to evict (network.py:545-556).            *)
THEOREM TypeCorrect == Spec => []TypeOK
  BY InvAlways, PTL DEF IInv

(* However PDUs are lost, repeated, delayed or reordered, and whenever     *)
(* transactions expire, no message is dispatched twice                     *)
(* (proxy.py:420-536).                                                     *)
THEOREM DispatchedOnce == Spec => []AtMostOnce
<1>1. IInv => AtMostOnce
  BY DEF IInv, Once, AtMostOnce, Messages
<1> QED  BY InvAlways, <1>1, PTL

(* The segments joined into one message were sent as segments of that      *)
(* message, for every range of SeqZero (network.py:413-419, 521-563).      *)
THEOREM Unspliced == Spec => []NothingSpliced
<1>1. ASSUME IInv PROVE NothingSpliced
  <2> SUFFICES ASSUME NEW p \in pending, NEW o \in 0..LastSeg, p.seqs[o] # -1
               PROVE  \E pdu \in sent :
                        /\ pdu.seq = p.seqs[o] /\ pdu.src = p.src /\ pdu.dst = p.dst
                        /\ pdu.offset = o /\ pdu.last = p.last /\ pdu.known = p.known
                        /\ \E first \in sent :
                             first.src = p.src /\ first.seq = p.auth /\ first.last = p.last
                             /\ first.dst = p.dst /\ pdu.zero = p.auth % ZeroSpace
    BY DEF NothingSpliced
  <2>1. Genuine(p)
    BY <1>1 DEF IInv, MemoryOk, Memory
  <2>2. PICK pdu \in sent :
          /\ pdu.seq = p.seqs[o] /\ pdu.src = p.src /\ pdu.dst = p.dst
          /\ pdu.offset = o /\ pdu.last = p.last /\ pdu.known = p.known
          /\ pdu.zero = p.auth % ZeroSpace
    BY <2>1 DEF Genuine
  <2>3. PICK first \in sent :
          /\ first.src = p.src /\ first.dst = p.dst /\ first.seq = p.auth
          /\ first.last = p.last
    BY <2>1 DEF Genuine, Began
  <2> QED  BY <2>2, <2>3
<1> QED  BY InvAlways, <1>1, PTL

(* What a pair completed or gave up is never taken up again                *)
(* (network.py:467-477, 516-531, 598-609).                                 *)
THEOREM OverStaysOver == Spec => NeverResurrected
<1>1. ASSUME IInv, IInv', Forward
      PROVE  \A pair \in Pairs :
               /\ Watermark(pair)' >= Watermark(pair)
               /\ \A p \in pending' : PairOf(p) = pair => p.auth > Watermark(pair)'
  <2> SUFFICES ASSUME NEW pair \in Pairs
               PROVE  /\ Watermark(pair)' >= Watermark(pair)
                      /\ \A p \in pending' : PairOf(p) = pair => p.auth > Watermark(pair)'
    OBVIOUS
  <2>1. \A p \in pending' : p.auth > completed'[PairOf(p)] /\ p.auth > discarded'[PairOf(p)]
    BY <1>1 DEF IInv, MemoryOk, Memory, Current, PairOf
  <2> QED  BY <1>1, <2>1 DEF Forward, Watermark, Larger
<1> QED  BY InvAlways, StepInv, <1>1, PTL DEF Spec, NeverResurrected

(* A transaction is given up for a newer one of its pair or leaves a       *)
(* watermark; never for want of room (network.py:467-477, 533-556).        *)
THEOREM NoneDroppedSilently == Spec => GivenUpKnowingly
  BY InvAlways, StepInv, PTL DEF Spec, GivenUpKnowingly, Forward

===============================================================================
