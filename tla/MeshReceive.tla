------------------------------ MODULE MeshReceive ------------------------------
(***************************************************************************)
(* Inbound access messages: ProxyClient._handle_network (amaranble/        *)
(* proxy.py) with its replay protection list and the SegmentReassembler    *)
(* (amaranble/network.py), fed by fixtures over a mesh that loses, delays, *)
(* duplicates and reorders PDUs.  Both survive reconnections of the BLE    *)
(* link; they live as long as the runtime.                                 *)
(*                                                                         *)
(* Abstractions:                                                           *)
(*   - a payload is the identity of its message, [src, auth]: its source   *)
(*     and the SEQ of its first PDU; a PDU of the network key is genuine;  *)
(*   - time: on every call any set of pending transactions may have been   *)
(*     idle for longer than the timeout, whatever their order;             *)
(*   - the acknowledgments this handler schedules are outputs; their       *)
(*     transmission is in SequenceReservation.                             *)
(* MaxSeq bounds what a fixture sends.                                     *)
(***************************************************************************)
EXTENDS Integers, FiniteSets

CONSTANTS
  Nodes,        \* fixtures
  Dsts,         \* addresses they send to
  LastSeg,      \* the largest SegN in use
  ZeroSpace,    \* 2^13, the range of SeqZero
  MaxSeq,       \* SEQ numbers a fixture uses are 0..MaxSeq
  MaxPending,   \* MAX_PENDING_REASSEMBLIES = 32
  MaxTracked    \* MAX_COMPLETED_REASSEMBLIES = 64

ASSUME SegAssumption == LastSeg \in Nat /\ ZeroSpace \in Nat \ {0} /\ MaxSeq \in Nat
ASSUME CapacityAssumption == MaxPending \in Nat \ {0} /\ MaxTracked \in Nat \ {0}

VARIABLES
  sent,         \* every PDU ever sent: the mesh may deliver any of them, again
  nextSeq,      \* each fixture's next SEQ
  current,      \* the segmented transaction a fixture has open to a destination
  rpl,          \* _replay_list, -1 for no entry
  pending,      \* SegmentReassembler._pending
  completed,    \* _completed: the SeqAuth by pair, -1 for no entry
  discarded,    \* _discarded: the watermark by pair, -1 for no entry
  delivered     \* how often each message was dispatched (history)

senders == <<sent, nextSeq, current>>
reassembler == <<pending, completed, discarded>>
vars == <<senders, rpl, reassembler, delivered>>

Pairs == Nodes \X Dsts
Seqs  == 0..MaxSeq
Messages == Nodes \X Seqs
NoTransaction == [auth |-> -1, last |-> 0, known |-> FALSE]

Larger(a, b) == IF a > b THEN a ELSE b

-------------------------------------------------------------------------------
(* The fixtures.  "known" says whether the runtime holds the key of the    *)
(* message; last = -1 marks an unsegmented PDU.                            *)

Transmit(n, d, zero, offset, last, known) ==
  /\ nextSeq[n] <= MaxSeq
  /\ nextSeq' = [nextSeq EXCEPT ![n] = @ + 1]
  /\ sent' = sent \cup {[src |-> n, dst |-> d, seq |-> nextSeq[n], zero |-> zero,
                         offset |-> offset, last |-> last, known |-> known]}
  /\ UNCHANGED <<rpl, reassembler, delivered>>

SendUnsegmented(n, d, known) ==
  /\ Transmit(n, d, 0, 0, -1, known)
  /\ UNCHANGED current

(* A new transaction gives up the one before it to the same destination.   *)
OpenTransaction(n, d, last, known) ==
  /\ Transmit(n, d, nextSeq[n] % ZeroSpace, 0, last, known)
  /\ current' = [current EXCEPT ![<<n, d>>] =
                   [auth |-> nextSeq[n], last |-> last, known |-> known]]

(* Further segments and retransmissions take fresh numbers, and stay close *)
(* enough to the first for SeqZero to identify it.                         *)
SendSegment(n, d, offset) ==
  LET t == current[<<n, d>>]
  IN /\ t.auth # -1 /\ offset <= t.last
     /\ nextSeq[n] - t.auth < ZeroSpace
     /\ Transmit(n, d, t.auth % ZeroSpace, offset, t.last, t.known)
     /\ UNCHANGED current

-------------------------------------------------------------------------------
(* parse_access_segment                                                    *)

(* Mutant: SeqAuth keeps the high bits of SEQ even when SeqZero wrapped.    *)
SeqAuthUnwrapped(seq, zero) == seq - (seq % ZeroSpace) + zero

(* The greatest number not above seq whose low bits are SeqZero.           *)
SeqAuth(seq, zero) == seq - ((seq - zero) % ZeroSpace)

-------------------------------------------------------------------------------
(* SegmentReassembler.  A memory is what _pending, _completed and          *)
(* _discarded hold; every call first prunes the idle transactions.         *)

PairOf(p) == <<p.src, p.dst>>

(* Mutant: expiring a transaction leaves no watermark.                      *)
PrunedForgetful(expired) ==
  [live |-> pending \ expired, done |-> completed, dropped |-> discarded]

(* The SeqAuths of a pair among them.                                      *)
AuthsOf(expired, pair) == {p.auth : p \in {q \in expired : PairOf(q) = pair}}
Largest(S) == CHOOSE a \in S : \A b \in S : a >= b

(* _prune: an expired transaction leaves a watermark, which replaces the   *)
(* record of an older completed one.                                       *)
Pruned(expired) ==
  [live    |-> pending \ expired,
   done    |-> [pair \in Pairs |->
                  IF \E a \in AuthsOf(expired, pair) : completed[pair] <= a
                  THEN -1 ELSE completed[pair]],
   dropped |-> [pair \in Pairs |->
                  Largest(AuthsOf(expired, pair) \cup {discarded[pair]})]]

Store(m) == pending' = m.live /\ completed' = m.done /\ discarded' = m.dropped

Tracked(m) ==
  {pair \in Pairs : m.done[pair] # -1 \/ m.dropped[pair] # -1}
  \cup {PairOf(p) : p \in m.live}

(* Mutant: a completed transaction is not recognised when it is repeated.   *)
AdmissibleAgain(m, pair, auth) ==
  /\ auth > m.dropped[pair]
  /\ auth >= m.done[pair]
  /\ \A p \in m.live : PairOf(p) = pair => p.auth <= auth

(* Mutant: the watermark of discarded transactions is not consulted.        *)
AdmissibleDiscarded(m, pair, auth) ==
  /\ auth > m.done[pair]
  /\ \A p \in m.live : PairOf(p) = pair => p.auth <= auth

(* Neither discarded nor completed, and nothing newer is under way.        *)
Admissible(m, pair, auth) ==
  /\ auth > m.dropped[pair]
  /\ auth > m.done[pair]
  /\ \A p \in m.live : PairOf(p) = pair => p.auth <= auth

(* A newer transaction supersedes the one its pair had.                    *)
Supersede(m, pair) == [m EXCEPT !.live = {p \in @ : PairOf(p) # pair}]

(* Mutant: a new pair does not reserve room for its completed record.       *)
HasRoomUnreserved(m, pair) == Cardinality(m.live) < MaxPending

HasRoom(m, pair) ==
  /\ Cardinality(m.live) < MaxPending
  /\ pair \in Tracked(m) \/ Cardinality(Tracked(m)) < MaxTracked

Fresh(pdu, auth) ==
  [src |-> pdu.src, dst |-> pdu.dst, auth |-> auth, last |-> pdu.last,
   known |-> pdu.known, seqs |-> [o \in 0..LastSeg |-> -1]]

(* The segment's number is recorded; a retransmission keeps the larger.    *)
Record(p, pdu) == [p EXCEPT !.seqs[pdu.offset] = Larger(@, pdu.seq)]

Whole(p) == \A o \in 0..p.last : p.seqs[o] # -1

-------------------------------------------------------------------------------
(* _handle_network                                                         *)

IsReplay(src, seq) == seq <= rpl[src]

(* _decrypt_and_dispatch and _remember_sequence: only a message of a known *)
(* key is dispatched, and only then does the replay list advance.          *)
Deliver(src, auth, seq, known) ==
  IF known
  THEN /\ delivered' = [delivered EXCEPT ![<<src, auth>>] = @ + 1]
       /\ rpl' = [rpl EXCEPT ![src] = Larger(@, seq)]
  ELSE UNCHANGED <<delivered, rpl>>

(* The SEQ of the segment with SegO = SegN, not of the one that came last.  *)
LastSegmentSeq(p) == p.seqs[p.last]

ReceiveUnsegmented(pdu) ==
  /\ pdu.last = -1
  /\ ~IsReplay(pdu.src, pdu.seq)
  /\ Deliver(pdu.src, pdu.seq, pdu.seq, pdu.known)
  /\ UNCHANGED <<senders, reassembler>>

(* The segment joins p; the last missing one completes the transaction,    *)
(* which is delivered unless the replay list has passed its last segment.  *)
Join(m, p, pdu) ==
  LET q == Record(p, pdu)
      others == m.live \ {p}
      pair == PairOf(p)
  IN IF ~Whole(q)
     THEN /\ Store([m EXCEPT !.live = others \cup {q}])
          /\ UNCHANGED <<delivered, rpl>>
     ELSE /\ Store([live    |-> others,
                    done    |-> [m.done EXCEPT ![pair] = p.auth],
                    dropped |-> [m.dropped EXCEPT ![pair] = -1]])
          /\ IF IsReplay(p.src, LastSegmentSeq(q))
             THEN UNCHANGED <<delivered, rpl>>
             ELSE Deliver(p.src, p.auth, LastSegmentSeq(q), p.known)

(* A replayed segment, or one of a transaction that is over, is at most    *)
(* acknowledged again.                                                     *)
RefuseSegment(pdu, expired) ==
  LET m == Pruned(expired)
      auth == SeqAuth(pdu.seq, pdu.zero)
  IN /\ pdu.last # -1 /\ auth >= 0
     /\ IsReplay(pdu.src, pdu.seq) \/ ~Admissible(m, PairOf(pdu), auth)
     /\ Store(m)
     /\ UNCHANGED <<senders, rpl, delivered>>

AcceptSegment(pdu, expired) ==
  LET m == Pruned(expired)
      pair == PairOf(pdu)
      auth == SeqAuth(pdu.seq, pdu.zero)
      same == {p \in m.live : PairOf(p) = pair /\ p.auth = auth}
      rest == Supersede(m, pair)
  IN /\ pdu.last # -1 /\ auth >= 0
     /\ ~IsReplay(pdu.src, pdu.seq)
     /\ Admissible(m, pair, auth)
     /\ \/ \E p \in same : Join(m, p, pdu)
        \/ /\ same = {} /\ HasRoom(rest, pair)
           /\ Join(rest, Fresh(pdu, auth), pdu)
        \/ /\ same = {} /\ ~HasRoom(rest, pair)   \* capacity exhausted
           /\ Store(rest)
           /\ UNCHANGED <<delivered, rpl>>
     /\ UNCHANGED senders

-------------------------------------------------------------------------------
Init ==
  /\ sent = {}
  /\ nextSeq = [n \in Nodes |-> 0]
  /\ current = [pair \in Pairs |-> NoTransaction]
  /\ rpl = [n \in Nodes |-> -1]
  /\ pending = {}
  /\ completed = [pair \in Pairs |-> -1]
  /\ discarded = [pair \in Pairs |-> -1]
  /\ delivered = [m \in Messages |-> 0]

Send ==
  \E n \in Nodes, d \in Dsts :
    \/ \E known \in BOOLEAN :
         \/ SendUnsegmented(n, d, known)
         \/ \E last \in 0..LastSeg : OpenTransaction(n, d, last, known)
    \/ \E offset \in 0..LastSeg : SendSegment(n, d, offset)

Receive ==
  \E pdu \in sent :
    \/ ReceiveUnsegmented(pdu)
    \/ \E expired \in SUBSET pending :
         RefuseSegment(pdu, expired) \/ AcceptSegment(pdu, expired)

Next == Send \/ Receive

Spec == Init /\ [][Next]_vars

-------------------------------------------------------------------------------
(* Properties.                                                             *)

Transaction ==
  [src : Nodes, dst : Dsts, auth : Seqs, last : 0..LastSeg, known : BOOLEAN,
   seqs : [0..LastSeg -> Seqs \cup {-1}]]

(* Every variable keeps its type, and both capacities are respected: a     *)
(* completed record never has to be evicted because room for it was        *)
(* reserved when its transaction was admitted (network.py:545-556).        *)
TypeOK ==
  /\ nextSeq \in [Nodes -> 0..(MaxSeq + 1)]
  /\ rpl \in [Nodes -> Seqs \cup {-1}]
  /\ pending \subseteq Transaction
  /\ completed \in [Pairs -> Seqs \cup {-1}]
  /\ discarded \in [Pairs -> Seqs \cup {-1}]
  /\ delivered \in [Messages -> Nat]
  /\ Cardinality(pending) <= MaxPending
  /\ Cardinality(Tracked([live |-> pending, done |-> completed, dropped |-> discarded]))
       <= MaxTracked

(* No message is dispatched twice, however its PDUs are repeated, delayed  *)
(* or reordered and whenever its transaction expires: a repeated report    *)
(* would undo a newer state (proxy.py:420-536, network.py:457-497).        *)
AtMostOnce == \A m \in Messages : delivered[m] <= 1

(* What is delivered was sent: SeqZero identifies the transaction a        *)
(* segment belongs to, so the segments of two messages are never joined    *)
(* (network.py:413-419, 521-563).                                          *)
NothingSpliced ==
  \A p \in pending : \A o \in 0..LastSeg :
    p.seqs[o] # -1 =>
      \E pdu \in sent :
        /\ pdu.seq = p.seqs[o] /\ pdu.src = p.src /\ pdu.dst = p.dst
        /\ pdu.offset = o /\ pdu.last = p.last /\ pdu.known = p.known
        /\ \E first \in sent :
             first.src = p.src /\ first.seq = p.auth /\ first.last = p.last
             /\ first.dst = p.dst /\ pdu.zero = p.auth % ZeroSpace

(* What a pair has finished or given up is never taken up again: the       *)
(* newest SeqAuth that is over only grows, and what is pending is newer    *)
(* (network.py:467-477, 516-531, 598-609).                                 *)
Watermark(pair) == Larger(completed[pair], discarded[pair])
NeverResurrected ==
  [][\A pair \in Pairs :
       /\ Watermark(pair)' >= Watermark(pair)
       /\ \A p \in pending' : PairOf(p) = pair => p.auth > Watermark(pair)']_vars

(* A transaction is given up only for a newer one of its pair, or leaving  *)
(* a watermark behind; in particular never for want of room, because what  *)
(* it supersedes makes the room a newer one needs (network.py:467-477,     *)
(* 533-556).                                                               *)
GivenUpKnowingly ==
  [][\A p \in pending :
       \/ \E q \in pending' : PairOf(q) = PairOf(p)
       \/ Watermark(PairOf(p))' >= p.auth]_vars
===============================================================================
