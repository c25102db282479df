------------------------- MODULE SegmentedSend_proofs -------------------------
(***************************************************************************)
(* The segmented send, for every number of segments, attempts, messages    *)
(* and mishaps and every range of SeqZero.                                 *)
(*                                                                         *)
(* The argument: every step of the composition is a step of the bearer or  *)
(* leaves it alone, so GattSar's theorem holds inside it.  And every       *)
(* acknowledgment under way is for a message not later than the pending    *)
(* one, so one that is recent enough and agrees in SeqZero is for it.      *)
(***************************************************************************)
EXTENDS SegmentedSend, TLAPS

Sar == INSTANCE GattSar_proofs
         WITH Pdus <- NetworkPdus, TypeOf <- IsNetwork, Limit <- NetworkLimit

Calls == [pc : {"idle", "sending", "waiting"}, auth : Nat \cup {-1}, group : BOOLEAN,
          attempt : Nat, outstanding : SUBSET Offsets, todo : SUBSET Offsets]
Pends == [auth : Nat \cup {-1}, acked : SUBSET Offsets, answered : BOOLEAN,
          block : SUBSET Offsets]

TypeOK == seq \in Nat /\ call \in Calls /\ pend \in Pends

USE SendAssumption

-------------------------------------------------------------------------------
LEMMA TypeInit == Init => TypeOK
  BY DEF Init, TypeOK, NoCall, NoPend, Calls, Pends, Offsets

LEMMA FinishTypes ==
  ASSUME NEW result, Finish(result)
  PROVE  call' \in Calls /\ pend' \in Pends /\ call' = NoCall /\ pend' = NoPend
  BY DEF Finish, NoCall, NoPend, Calls, Pends

LEMMA TypeStep == ASSUME TypeOK, [Next]_vars PROVE TypeOK'
<1>1. seq \in Nat /\ call \in Calls /\ pend \in Pends
  BY DEF TypeOK
<1>2. ASSUME NEW group \in BOOLEAN, StartCall(group) PROVE TypeOK'
  <2>1. call' \in Calls
    BY <1>1, <1>2 DEF StartCall, Calls
  <2>2. /\ pend' = [auth |-> seq, acked |-> {}, answered |-> FALSE, block |-> {}]
        /\ seq' = seq + 1
    BY <1>2 DEF StartCall, NoPend
  <2>3. pend' \in Pends /\ seq' \in Nat
    BY <1>1, <2>2 DEF Pends
  <2> QED  BY <2>1, <2>3 DEF TypeOK
<1>3. CASE BeginSegment
  <2>1. PICK offset \in call.todo : call' = [call EXCEPT !.todo = @ \ {offset}]
    BY <1>3 DEF BeginSegment
  <2>2. call' \in Calls
    BY <1>1, <2>1 DEF Calls
  <2>3. seq' \in Nat /\ pend' = pend
    BY <1>1, <1>3 DEF BeginSegment
  <2> QED  BY <1>1, <2>2, <2>3 DEF TypeOK
<1>4. CASE RoundEnds
  <2>1. [call EXCEPT !.pc = "waiting"] \in Calls
    BY <1>1 DEF Calls
  <2> QED  BY <1>1, <1>4, <2>1, FinishTypes DEF RoundEnds, TypeOK
<1>5. ASSUME NEW offsets \in SUBSET Offsets PROVE Round(call.attempt + 1, offsets) \in Calls
  <2>1. call.attempt + 1 \in Nat
    BY <1>1 DEF Calls
  <2> QED  BY <1>1, <2>1 DEF Round, Calls
<1>6. CASE Answered
  <2>1. [pend EXCEPT !.answered = FALSE, !.block = {}] \in Pends
    BY <1>1 DEF Pends
  <2>2. Missing \in SUBSET Offsets
    BY DEF Missing
  <2>3. seq' = seq
    BY <1>6 DEF Answered
  <2>4. (\E result : Finish(result)) \/
        /\ call' = Round(call.attempt + 1, Missing)
        /\ pend' = [pend EXCEPT !.answered = FALSE, !.block = {}]
    BY <1>6 DEF Answered
  <2> QED  BY <1>1, <1>5, <2>1, <2>2, <2>3, <2>4, FinishTypes DEF TypeOK
<1>7. CASE AckTimesOut
  <2>1. call.outstanding \in SUBSET Offsets
    BY <1>1 DEF Calls
  <2> QED  BY <1>1, <1>5, <1>7, <2>1, FinishTypes DEF AckTimesOut, TypeOK
<1>8. CASE CallFails
  BY <1>1, <1>8, FinishTypes DEF CallFails, TypeOK
<1>9. CASE BeginReply
  BY <1>1, <1>9 DEF BeginReply, TypeOK
<1>10. CASE ReplyFails \/ Relay \/ Bearer \/ Reconnect \/ Acknowledge \/ UNCHANGED vars
  BY <1>1, <1>10 DEF ReplyFails, Relay, Bearer, Reconnect, Acknowledge, vars, sender, TypeOK
<1>11. ASSUME NEW ack \in acks, ReceiveAck(ack) PROVE TypeOK'
  <2>1. ack.block \in SUBSET Offsets
    BY <1>11 DEF ReceiveAck
  <2>2. [pend EXCEPT !.acked = @ \cup ack.block, !.answered = TRUE, !.block = ack.block] \in Pends
    BY <1>1, <2>1 DEF Pends
  <2> QED  BY <1>1, <1>11, <2>2 DEF ReceiveAck, TypeOK
<1> QED
  BY <1>2, <1>3, <1>4, <1>6, <1>7, <1>8, <1>9, <1>10, <1>11 DEF Next, Call, Environment

LEMMA Types == Spec => []TypeOK
  BY TypeInit, TypeStep, PTL DEF Spec

-------------------------------------------------------------------------------
(* Every step is one of the bearer, or none.                               *)
LEMMA BearerStep ==
  ASSUME TypeOK, [Next]_vars
  PROVE  [Sar!Next]_(Sar!bearer)
<1>1. CASE BeginSegment
  <2>1. PICK offset \in call.todo :
          Out!Begin(SegmentPdu(call.auth, offset), Writes(offset))
    BY <1>1 DEF BeginSegment
  <2>2. SegmentPdu(call.auth, offset) \in NetworkPdus /\ Writes(offset) \in Nat \ {0}
    BY DEF TypeOK, Calls, Offsets, SegmentPdu, NetworkPdus, Writes
  <2>3. Sar!Begin(SegmentPdu(call.auth, offset), Writes(offset))
    BY <2>1 DEF Out!Begin, Sar!Begin, Out!Free, Sar!Free
  <2> QED  BY <2>2, <2>3 DEF Sar!Next
<1>2. CASE BeginReply
  <2>1. AckPdu \in NetworkPdus /\ 2 \in Nat \ {0}
    BY DEF AckPdu, NetworkPdus
  <2>2. Sar!Begin(AckPdu, 2)
    BY <1>2 DEF BeginReply, Out!Begin, Sar!Begin, Out!Free, Sar!Free
  <2> QED  BY <2>1, <2>2 DEF Sar!Next
<1>3. CASE CallFails \/ ReplyFails
  <2>1. Out!Abandon \/ UNCHANGED bearer
    BY <1>3 DEF CallFails, ReplyFails
  <2>2. Out!Abandon => Sar!Abandon
    BY DEF Out!Abandon, Sar!Abandon, Out!Free, Sar!Free, Out!Chunk, Sar!Chunk
  <2> QED  BY <2>1, <2>2 DEF Sar!Next, bearer, Sar!bearer
<1>4. CASE Relay
  <2>1. Out!Notify
    BY <1>4 DEF Relay
  <2>2. Sar!Notify
    BY <2>1 DEF Out!Notify, Sar!Notify, Out!Heed, Sar!Heed, Out!Misfit, Sar!Misfit,
                Out!Complete, Sar!Complete, Out!First, Sar!First, Out!Last, Sar!Last
  <2> QED  BY <2>2 DEF Sar!Next
<1>5. CASE Bearer \/ Reconnect
  <2>1. Out!Write \/ Out!SarTimesOut \/ Out!Break \/ Out!Connect
    BY <1>5 DEF Bearer, Reconnect
  <2>2. Sar!Write \/ Sar!SarTimesOut \/ Sar!Break \/ Sar!Connect
    BY <2>1 DEF Out!Write, Sar!Write, Out!SarTimesOut, Sar!SarTimesOut, Out!Break, Sar!Break,
                Out!Connect, Sar!Connect, Out!Free, Sar!Free, Out!Chunk, Sar!Chunk
  <2> QED  BY <2>2 DEF Sar!Next
<1>6. CASE \/ \E group \in BOOLEAN : StartCall(group)
           \/ RoundEnds \/ Answered \/ AckTimesOut \/ Acknowledge
           \/ \E ack \in acks : ReceiveAck(ack)
           \/ UNCHANGED vars
  <2>1. UNCHANGED bearer
    BY <1>6 DEF StartCall, RoundEnds, Answered, AckTimesOut, Acknowledge, ReceiveAck, vars
  <2> QED  BY <2>1 DEF bearer, Sar!bearer
<1> QED  BY <1>1, <1>2, <1>3, <1>4, <1>5, <1>6 DEF Next, Call, Environment

LEMMA OnTheBearer == Spec => Sar!Spec
<1>1. Init => Sar!Init
  BY DEF Init, Out!Init, Sar!Init, Out!Free, Sar!Free
<1> QED  BY <1>1, Types, BearerStep, PTL DEF Spec, Sar!Spec

(* Segments and the acknowledgments of background tasks share the bearer,  *)
(* and each of their PDUs is relayed whole, once and in order, or not at   *)
(* all (gatt.py:107-129, 136-190).                                         *)
THEOREM PdusWhole == Spec => PdusStayWhole
<1>1. Sar!Fifo!FifoInit <=> Out!Fifo!FifoInit
  BY DEF Sar!Fifo!FifoInit, Out!Fifo!FifoInit, Sar!LastHeard, Out!LastHeard,
         Sar!Whole, Out!Whole
<1>2. [Sar!Fifo!Submit \/ Sar!Fifo!Hear]_<<turn, Sar!LastHeard>>
        => [Out!Fifo!Submit \/ Out!Fifo!Hear]_<<turn, Out!LastHeard>>
  BY DEF Sar!Fifo!Submit, Out!Fifo!Submit, Sar!Fifo!Hear, Out!Fifo!Hear,
         Sar!LastHeard, Out!LastHeard, Sar!Whole, Out!Whole
<1>3. Sar!Spec => Sar!PdusStayWhole
  BY Sar!PdusWhole
<1> QED  BY <1>1, <1>2, <1>3, OnTheBearer, PTL
         DEF PdusStayWhole, Sar!PdusStayWhole, Sar!Fifo!FifoSpec,
             Out!PdusStayWhole, Out!Fifo!FifoSpec

-------------------------------------------------------------------------------
(* A message under way is not later than the pending one.                  *)
Begun(auth) == auth \in Nat /\ auth < seq /\ (call # NoCall => auth <= call.auth)
OfBegun(pdu) == pdu.kind = "segment" => Begun(pdu.auth)

InStep ==
  /\ pend.auth = call.auth /\ call.auth < seq
  /\ call = NoCall => pend = NoPend
  /\ call # NoCall => call.auth \in Nat

UnderWay ==
  /\ writer # Out!Free => OfBegun(writer.pdu)
  /\ \A i \in 1..Len(wire) : OfBegun(wire[i].pdu)
  /\ node # -1 => Begun(node)

(* An acknowledgment tells no more than what had arrived.                  *)
Truthful ==
  \A ack \in acks :
    /\ Begun(ack.auth) /\ ack.zero = ack.auth % ZeroSpace
    /\ ack.block \subseteq Arrived(ack.auth)

IInv == TypeOK /\ InStep /\ UnderWay /\ Truthful /\ CreditedWhereDue

LEMMA OneRemainder ==
  ASSUME NEW q1 \in Int, NEW q2 \in Int,
         NEW r1 \in 0..(ZeroSpace - 1), NEW r2 \in 0..(ZeroSpace - 1),
         ZeroSpace * q1 + r1 = ZeroSpace * q2 + r2
  PROVE  q1 = q2
<1>1. CASE q1 > q2
  <2>1. ZeroSpace * (q1 - q2) = r2 - r1 /\ ZeroSpace * (q1 - q2) >= ZeroSpace
    BY <1>1
  <2> QED  BY <2>1
<1>2. CASE q1 < q2
  <2>1. ZeroSpace * (q2 - q1) = r1 - r2 /\ ZeroSpace * (q2 - q1) >= ZeroSpace
    BY <1>2
  <2> QED  BY <2>1
<1> QED  BY <1>1, <1>2

(* Less than the range of SeqZero apart, the same SeqZero: the same one.   *)
LEMMA ZeroIdentifies ==
  ASSUME NEW a \in Nat, NEW b \in Nat, a <= b, b - a < ZeroSpace,
         a % ZeroSpace = b % ZeroSpace
  PROVE  a = b
<1>1. /\ a % ZeroSpace \in 0..(ZeroSpace - 1) /\ a \div ZeroSpace \in Int
      /\ a = ZeroSpace * (a \div ZeroSpace) + (a % ZeroSpace)
      /\ b \div ZeroSpace \in Int
      /\ b = ZeroSpace * (b \div ZeroSpace) + (b % ZeroSpace)
  OBVIOUS
<1>2. b - a = ZeroSpace * ((b \div ZeroSpace) - (a \div ZeroSpace))
  BY <1>1
<1>3. b - a \in 0..(ZeroSpace - 1) /\ 0 \in 0..(ZeroSpace - 1)
  OBVIOUS
<1>4. ZeroSpace * ((b \div ZeroSpace) - (a \div ZeroSpace)) + 0 = ZeroSpace * 0 + (b - a)
  BY <1>1, <1>2
<1>5. (b \div ZeroSpace) - (a \div ZeroSpace) = 0
  BY <1>1, <1>3, <1>4, OneRemainder
<1> QED  BY <1>1, <1>2, <1>5

-------------------------------------------------------------------------------
(* A later call, or none, leaves what was begun begun.                     *)
LEMMA BegunStays ==
  ASSUME TypeOK, InStep, seq' \in Nat, seq <= seq', NEW a, Begun(a),
         \/ call' = call \/ call' = NoCall \/ call'.auth = seq
         \/ call # NoCall /\ call'.auth = call.auth
  PROVE  Begun(a)'
<1>1. /\ seq \in Nat /\ a \in Nat /\ a < seq /\ call.auth \in Int
      /\ call # NoCall => a <= call.auth /\ call.auth \in Nat
  BY DEF TypeOK, Calls, InStep, Begun
<1>2. call' # NoCall => a <= call'.auth
  BY <1>1
<1> QED  BY <1>1, <1>2 DEF Begun

(* What the bearer carries on is what it carried before, or what a sender  *)
(* has just begun.                                                         *)
LEMMA UnderWayStays ==
  ASSUME IInv, Sar!TypeOK,
         \A a : Begun(a) => Begun(a)',
         \/ UNCHANGED <<writer, wire>>
         \/ Out!Write \/ Out!Abandon \/ Out!Notify \/ Out!SarTimesOut \/ Out!Break
         \/ Out!Connect
         \/ UNCHANGED wire /\ OfBegun(writer.pdu)',
         node' = node \/ \E a : node' = a /\ Begun(a)'
  PROVE  UnderWay'
<1>1. /\ wire \in Seq(Sar!Chunks) /\ writer \in Sar!Writers \cup {Out!Free}
      /\ Len(wire) \in Nat
  BY DEF Sar!TypeOK, Sar!Free, Out!Free
<1>2. ASSUME NEW pdu, OfBegun(pdu) PROVE OfBegun(pdu)'
  BY <1>2 DEF OfBegun
<1>3. /\ writer # Out!Free => OfBegun(writer.pdu)
      /\ \A i \in 1..Len(wire) : OfBegun(wire[i].pdu)
      /\ node # -1 => Begun(node)
  BY DEF IInv, UnderWay
<1>4. node' # -1 => Begun(node)'
  BY <1>3
<1>5. ASSUME writer # Out!Free, wire' = Append(wire, Out!Chunk(writer, writer.next))
      PROVE  \A i \in 1..Len(wire') : OfBegun(wire[i].pdu)'
  <2> SUFFICES ASSUME NEW i \in 1..Len(wire') PROVE OfBegun(wire[i].pdu)'
    OBVIOUS
  <2>1. CASE i = Len(wire) + 1
    <3>1. wire'[i].pdu = writer.pdu
      BY <1>1, <1>5, <2>1 DEF Out!Chunk
    <3>2. PICK pdu : pdu = writer.pdu
      OBVIOUS
    <3>3. OfBegun(pdu)'
      BY <1>2, <1>3, <1>5, <3>2
    <3> QED  BY <3>1, <3>2, <3>3 DEF OfBegun, Begun
  <2>2. CASE i \in 1..Len(wire)
    <3>1. wire'[i] = wire[i]
      BY <1>1, <1>5, <2>2
    <3>2. PICK pdu : pdu = wire[i].pdu
      OBVIOUS
    <3>3. OfBegun(pdu)'
      BY <1>2, <1>3, <2>2, <3>2
    <3> QED  BY <3>1, <3>2, <3>3 DEF OfBegun, Begun
  <2>3. Len(wire') = Len(wire) + 1
    BY <1>1, <1>5
  <2> QED  BY <1>1, <2>1, <2>2, <2>3
<1>6. ASSUME \A i \in 1..Len(wire') : \E k \in 1..Len(wire) : wire'[i] = wire[k]
      PROVE  \A i \in 1..Len(wire') : OfBegun(wire[i].pdu)'
  <2> SUFFICES ASSUME NEW i \in 1..Len(wire') PROVE OfBegun(wire[i].pdu)'
    OBVIOUS
  <2>1. PICK k \in 1..Len(wire) : wire'[i] = wire[k]
    BY <1>6
  <2>2. PICK pdu : pdu = wire[k].pdu
    OBVIOUS
  <2>3. OfBegun(pdu)'
    BY <1>2, <1>3, <2>2
  <2> QED  BY <2>1, <2>2, <2>3 DEF OfBegun, Begun
<1>7. ASSUME writer' = writer \/ (writer # Out!Free /\ writer'.pdu = writer.pdu)
      PROVE  writer' # Out!Free => OfBegun(writer.pdu)'
  <2>1. PICK pdu : pdu = writer.pdu
    OBVIOUS
  <2>2. writer # Out!Free => OfBegun(pdu)'
    BY <1>2, <1>3, <2>1
  <2> QED  BY <1>7, <2>1, <2>2 DEF OfBegun, Begun
<1>8. CASE Out!Write
  <2>1. writer # Out!Free /\ wire' = Append(wire, Out!Chunk(writer, writer.next))
    BY <1>8 DEF Out!Write
  <2>2. writer' = Out!Free \/ writer' = [writer EXCEPT !.next = @ + 1]
    BY <1>8 DEF Out!Write
  <2>3. writer' = Out!Free \/ writer'.pdu = writer.pdu
    BY <1>1, <2>1, <2>2 DEF Sar!Writers
  <2>4. writer' # Out!Free => OfBegun(writer.pdu)'
    BY <1>7, <2>1, <2>3
  <2> QED  BY <1>4, <1>5, <2>1, <2>4 DEF UnderWay, Out!Free
<1>9. CASE Out!Abandon
  <2>1. /\ writer # Out!Free /\ writer' = Out!Free
        /\ wire' = wire \/ wire' = Append(wire, Out!Chunk(writer, writer.next))
    BY <1>9 DEF Out!Abandon
  <2>2. \A i \in 1..Len(wire') : OfBegun(wire[i].pdu)'
    BY <1>5, <1>6, <2>1
  <2> QED  BY <1>4, <2>1, <2>2 DEF UnderWay, Out!Free
<1>10. CASE Out!Notify \/ Out!Break
  <2>1. writer' = writer /\ ((wire # <<>> /\ wire' = Tail(wire)) \/ wire' = <<>>)
    BY <1>10 DEF Out!Notify, Out!Break
  <2>2. \A i \in 1..Len(wire') : \E k \in 1..Len(wire) : wire'[i] = wire[k]
    <3>1. CASE wire # <<>> /\ wire' = Tail(wire)
      <4>1. Len(wire') = Len(wire) - 1 /\ \A i \in 1..Len(wire') : wire'[i] = wire[i + 1]
        BY <1>1, <3>1
      <4>2. \A i \in 1..Len(wire') : i + 1 \in 1..Len(wire)
        BY <1>1, <4>1
      <4> QED  BY <4>1, <4>2
    <3>2. CASE wire' = <<>>
      <4>1. Len(wire') = 0
        BY <3>2
      <4> QED  BY <4>1
    <3> QED  BY <2>1, <3>1, <3>2
  <2>3. \A i \in 1..Len(wire') : OfBegun(wire[i].pdu)'
    BY <1>6, <2>2
  <2>4. writer' # Out!Free => OfBegun(writer.pdu)'
    BY <1>7, <2>1
  <2> QED  BY <1>4, <2>3, <2>4 DEF UnderWay, Out!Free
<1>11. CASE UNCHANGED <<writer, wire>> \/ Out!SarTimesOut \/ Out!Connect
  <2>1. writer' = writer /\ wire' = wire
    BY <1>11 DEF Out!SarTimesOut, Out!Connect
  <2>2. \A i \in 1..Len(wire') : OfBegun(wire[i].pdu)'
    BY <1>6, <2>1
  <2>3. writer' # Out!Free => OfBegun(writer.pdu)'
    BY <1>7, <2>1
  <2> QED  BY <1>4, <2>2, <2>3 DEF UnderWay, Out!Free
<1>12. CASE UNCHANGED wire /\ OfBegun(writer.pdu)'
  <2>1. \A i \in 1..Len(wire') : OfBegun(wire[i].pdu)'
    BY <1>6, <1>12
  <2> QED  BY <1>4, <1>12, <2>1 DEF UnderWay, Out!Free
<1> QED  BY <1>8, <1>9, <1>10, <1>11, <1>12

LEMMA TruthStays ==
  ASSUME IInv, \A a : Begun(a) => Begun(a)', arrived \subseteq arrived', UNCHANGED acks
  PROVE  Truthful'
  BY DEF IInv, Truthful, Arrived

(* A call ends as delivered only if every segment was acknowledged.        *)
LEMMA CreditStays ==
  ASSUME IInv, arrived \subseteq arrived',
         \/ UNCHANGED outcome
         \/ \E result : Finish(result) /\ (result = "ok" => pend.acked = Offsets),
         \/ pend'.acked = {}
         \/ pend'.auth = pend.auth /\ pend'.acked = pend.acked
  PROVE  CreditedWhereDue'
<1>1. /\ \A a \in DOMAIN outcome : outcome[a] = "ok" => Arrived(a) = Offsets
      /\ pend.acked \subseteq Arrived(pend.auth) /\ pend.auth = call.auth
  BY DEF IInv, CreditedWhereDue, InStep
<1>2. \A a : Arrived(a) \subseteq {o \in Offsets : <<a, o>> \in arrived'}
  BY DEF Arrived
<1>3. pend'.acked \subseteq {o \in Offsets : <<pend'.auth, o>> \in arrived'}
  BY <1>1, <1>2
<1>4. \A a \in DOMAIN outcome' :
        outcome'[a] = "ok" => {o \in Offsets : <<a, o>> \in arrived'} = Offsets
  <2>1. CASE UNCHANGED outcome
    BY <1>1, <1>2, <2>1 DEF Arrived
  <2>2. ASSUME NEW result, Finish(result), result = "ok" => pend.acked = Offsets,
               NEW a \in DOMAIN outcome', outcome'[a] = "ok"
        PROVE  {o \in Offsets : <<a, o>> \in arrived'} = Offsets
    <3>1. a \in DOMAIN outcome \cup {call.auth}
          /\ outcome'[a] = IF a = call.auth THEN result ELSE outcome[a]
      BY <2>2 DEF Finish
    <3>2. CASE a = call.auth
      BY <1>1, <1>2, <2>2, <3>1, <3>2 DEF Arrived
    <3>3. CASE a # call.auth
      BY <1>1, <1>2, <2>2, <3>1, <3>3 DEF Arrived
    <3> QED  BY <3>2, <3>3
  <2> QED  BY <2>1, <2>2
<1> QED  BY <1>3, <1>4 DEF CreditedWhereDue, Arrived

(* The call and its entry, after a step that keeps or ends them.           *)
LEMMA InStepStays ==
  ASSUME IInv, TypeOK', seq' >= seq,
         \/ call' = NoCall /\ pend' = NoPend
         \/ call' = call /\ pend' = pend
         \/ call # NoCall /\ call' # NoCall /\ call'.auth = call.auth /\ pend'.auth = pend.auth
  PROVE  InStep' /\ \A a : Begun(a) => Begun(a)'
<1>1. /\ seq \in Nat /\ seq' \in Nat /\ call.auth \in Int /\ InStep /\ TypeOK
      /\ NoCall.auth = -1 /\ NoPend.auth = -1
  BY DEF IInv, TypeOK, Calls, NoCall, NoPend
<1>2. InStep'
  BY <1>1 DEF InStep
<1>3. \A a : Begun(a) => Begun(a)'
  BY <1>1, BegunStays
<1> QED  BY <1>2, <1>3

LEMMA InvInit == Init => IInv
<1> SUFFICES ASSUME Init PROVE IInv
  OBVIOUS
<1>1. /\ writer = Out!Free /\ wire = <<>> /\ Len(wire) = 0 /\ node = -1 /\ acks = {}
      /\ call = NoCall /\ pend = NoPend /\ seq = 0 /\ DOMAIN outcome = {}
  BY DEF Init, Out!Init
<1>2. InStep
  BY <1>1 DEF InStep, NoCall, NoPend
<1>3. UnderWay
  BY <1>1 DEF UnderWay
<1>4. Truthful /\ CreditedWhereDue
  BY <1>1 DEF Truthful, CreditedWhereDue, NoPend
<1> QED  BY <1>2, <1>3, <1>4, TypeInit DEF IInv

LEMMA StartCallInv ==
  ASSUME IInv, Sar!TypeOK, TypeOK', NEW group \in BOOLEAN, StartCall(group)
  PROVE  IInv'
<1>1. /\ call = NoCall /\ seq' = seq + 1 /\ seq \in Nat /\ call'.auth = seq
      /\ pend'.auth = seq /\ pend'.acked = {}
      /\ UNCHANGED <<bearer, outcome, remote, rpl, mishaps>>
  BY DEF StartCall, NoPend, IInv, TypeOK
<1>2. \A a : Begun(a) => Begun(a)'
  BY <1>1, BegunStays DEF IInv
<1>3. InStep'
  <2>1. call' # NoCall
    BY <1>1 DEF NoCall
  <2> QED  BY <1>1, <2>1 DEF InStep
<1>4. /\ UNCHANGED <<writer, wire>> /\ node' = node /\ arrived' = arrived /\ acks' = acks
      /\ outcome' = outcome
  BY <1>1 DEF bearer, remote
<1>5. UnderWay'
  BY <1>2, <1>4, UnderWayStays
<1> QED  BY <1>1, <1>2, <1>3, <1>4, <1>5, TruthStays, CreditStays DEF IInv

LEMMA BeginSegmentInv ==
  ASSUME IInv, Sar!TypeOK, TypeOK', BeginSegment
  PROVE  IInv'
<1>1. PICK offset \in call.todo :
        /\ call' = [call EXCEPT !.todo = @ \ {offset}]
        /\ Out!Begin(SegmentPdu(call.auth, offset), Writes(offset))
  BY DEF BeginSegment
<1>2. /\ call.pc = "sending" /\ seq \in Nat /\ seq' >= seq /\ call \in Calls
      /\ UNCHANGED <<pend, outcome, remote, rpl, mishaps>>
  BY DEF BeginSegment, IInv, TypeOK
<1>3. call'.auth = call.auth /\ call'.pc = "sending"
  BY <1>1, <1>2 DEF Calls
<1>4. call # NoCall /\ call' # NoCall
  BY <1>2, <1>3 DEF NoCall
<1>5. InStep' /\ \A a : Begun(a) => Begun(a)'
  BY <1>2, <1>3, <1>4, InStepStays
<1>6. /\ wire' = wire /\ writer'.pdu = SegmentPdu(call.auth, offset)
      /\ node' = node /\ arrived' = arrived /\ acks' = acks /\ outcome' = outcome
      /\ pend' = pend
  BY <1>1, <1>2 DEF Out!Begin, remote
<1>7. OfBegun(writer.pdu)'
  <2>1. Begun(call.auth)
    BY <1>4 DEF IInv, InStep, Begun, TypeOK, Calls
  <2>2. PICK a : a = call.auth
    OBVIOUS
  <2>3. Begun(a)' /\ writer'.pdu.auth = a
    BY <1>5, <1>6, <2>1, <2>2 DEF SegmentPdu
  <2> QED  BY <2>3 DEF OfBegun, Begun
<1>8. UnderWay'
  BY <1>5, <1>6, <1>7, UnderWayStays
<1> QED  BY <1>5, <1>6, <1>8, TruthStays, CreditStays DEF IInv

(* Everything else a call does keeps its message or ends it.               *)
LEMMA CallGoesOn ==
  ASSUME IInv, Sar!TypeOK, TypeOK', UNCHANGED <<seq, remote>>,
         UNCHANGED <<writer, wire>> \/ Out!Abandon,
         \/ \E result : Finish(result) /\ (result = "ok" => pend.acked = Offsets)
         \/ /\ call # NoCall /\ call' # NoCall /\ UNCHANGED outcome
            /\ call'.auth = call.auth /\ pend'.auth = pend.auth /\ pend'.acked = pend.acked
  PROVE  IInv'
<1>1. /\ seq \in Nat /\ seq' = seq /\ node' = node /\ arrived' = arrived /\ acks' = acks
  BY DEF IInv, TypeOK, remote
<1>2. InStep' /\ \A a : Begun(a) => Begun(a)'
  BY <1>1, FinishTypes, InStepStays
<1>3. UnderWay'
  BY <1>1, <1>2, UnderWayStays
<1>4. Truthful'
  BY <1>1, <1>2, TruthStays
<1>5. CreditedWhereDue'
  <2>1. CASE \E result : Finish(result) /\ (result = "ok" => pend.acked = Offsets)
    <3>1. pend'.acked = {}
      BY <2>1, FinishTypes DEF NoPend
    <3> QED  BY <1>1, <2>1, <3>1, CreditStays
  <2>2. CASE UNCHANGED outcome /\ pend'.auth = pend.auth /\ pend'.acked = pend.acked
    BY <1>1, <2>2, CreditStays
  <2> QED  BY <2>1, <2>2
<1> QED  BY <1>2, <1>3, <1>4, <1>5 DEF IInv

LEMMA RoundKeeps ==
  ASSUME TypeOK, NEW attempt, NEW offsets, call' = Round(attempt, offsets)
  PROVE  call'.auth = call.auth /\ call' # NoCall
  BY DEF TypeOK, Calls, Round, NoCall

LEMMA CallInv ==
  ASSUME IInv, Sar!TypeOK, TypeOK', RoundEnds \/ Answered \/ AckTimesOut \/ CallFails
  PROVE  IInv'
<1>1. call \in Calls /\ pend \in Pends /\ TypeOK
  BY DEF IInv, TypeOK
<1>2. ASSUME NEW result, Finish(result), result # "ok",
             UNCHANGED <<seq, remote>>, UNCHANGED <<writer, wire>> \/ Out!Abandon
      PROVE  IInv'
  BY <1>2, CallGoesOn
<1>3. CASE RoundEnds
  <2>1. call # NoCall /\ UNCHANGED <<seq, remote>> /\ UNCHANGED <<writer, wire>>
    BY <1>3 DEF RoundEnds, NoCall, bearer
  <2>2. CASE Finish("sent")
    BY <1>2, <2>1, <2>2
  <2>3. CASE call' = [call EXCEPT !.pc = "waiting"] /\ UNCHANGED <<pend, outcome>>
    <3>1. call'.auth = call.auth /\ call'.pc = "waiting"
      BY <1>1, <2>3 DEF Calls
    <3>2. call' # NoCall
      BY <3>1 DEF NoCall
    <3> QED  BY <2>1, <2>3, <3>1, <3>2, CallGoesOn
  <2> QED  BY <1>3, <2>2, <2>3 DEF RoundEnds
<1>4. CASE Answered
  <2>1. call # NoCall /\ UNCHANGED <<seq, remote>> /\ UNCHANGED <<writer, wire>>
    BY <1>4 DEF Answered, NoCall, bearer
  <2>2. CASE Finish("canceled") \/ Finish("failed")
    BY <1>2, <2>1, <2>2
  <2>3. CASE Missing = {} /\ Finish("ok")
    <3>1. pend.acked = Offsets
      BY <1>1, <2>3 DEF Missing, Pends
    <3> QED  BY <2>1, <2>3, <3>1, CallGoesOn
  <2>4. CASE /\ call' = Round(call.attempt + 1, Missing)
             /\ pend' = [pend EXCEPT !.answered = FALSE, !.block = {}]
             /\ UNCHANGED outcome
    <3>1. pend'.auth = pend.auth /\ pend'.acked = pend.acked
      BY <1>1, <2>4 DEF Pends
    <3>2. call'.auth = call.auth /\ call' # NoCall
      BY <1>1, <2>4, RoundKeeps
    <3> QED  BY <2>1, <2>4, <3>1, <3>2, CallGoesOn
  <2> QED  BY <1>4, <2>2, <2>3, <2>4 DEF Answered
<1>5. CASE AckTimesOut
  <2>1. call # NoCall /\ UNCHANGED <<seq, remote>> /\ UNCHANGED <<writer, wire>>
    BY <1>5 DEF AckTimesOut, NoCall, bearer
  <2>2. CASE Finish("failed")
    BY <1>2, <2>1, <2>2
  <2>3. CASE call' = Round(call.attempt + 1, call.outstanding) /\ UNCHANGED <<pend, outcome>>
    <3>1. call'.auth = call.auth /\ call' # NoCall
      BY <1>1, <2>3, RoundKeeps
    <3> QED  BY <2>1, <2>3, <3>1, CallGoesOn
  <2> QED  BY <1>5, <2>2, <2>3 DEF AckTimesOut
<1>6. CASE CallFails
  <2>1. /\ Finish("failed") /\ UNCHANGED <<seq, remote>>
        /\ UNCHANGED <<writer, wire>> \/ Out!Abandon
    BY <1>6 DEF CallFails, bearer
  <2> QED  BY <1>2, <2>1
<1> QED  BY <1>3, <1>4, <1>5, <1>6

-------------------------------------------------------------------------------
(* Steps beside the call.                                                  *)
LEMMA BesideInv ==
  ASSUME IInv, Sar!TypeOK, TypeOK',
         BeginReply \/ ReplyFails \/ Relay \/ Bearer \/ Reconnect \/ Acknowledge
         \/ UNCHANGED vars
  PROVE  IInv'
<1>1. /\ UNCHANGED <<call, pend, outcome>> /\ seq \in Nat /\ seq' >= seq
      /\ wire \in Seq(Sar!Chunks)
  BY DEF BeginReply, ReplyFails, Relay, Bearer, Reconnect, Acknowledge, vars, sender,
         IInv, TypeOK, Sar!TypeOK
<1>2. InStep' /\ \A a : Begun(a) => Begun(a)'
  BY <1>1, InStepStays
<1>3. CASE BeginReply
  <2>1. /\ wire' = wire /\ writer'.pdu = AckPdu /\ node' = node /\ arrived' = arrived
        /\ acks' = acks
    BY <1>3 DEF BeginReply, Out!Begin, remote
  <2>2. OfBegun(writer.pdu)'
    BY <2>1 DEF OfBegun, AckPdu
  <2>3. UnderWay'
    BY <1>2, <2>1, <2>2, UnderWayStays
  <2> QED  BY <1>1, <1>2, <2>1, <2>3, TruthStays, CreditStays DEF IInv
<1>4. CASE ReplyFails \/ Bearer \/ Reconnect \/ UNCHANGED vars
  <2>1. /\ \/ Out!Abandon \/ Out!Write \/ Out!SarTimesOut \/ Out!Break \/ Out!Connect
           \/ UNCHANGED <<writer, wire>>
        /\ node' = node /\ arrived' = arrived /\ acks' = acks
    BY <1>4 DEF ReplyFails, Bearer, Reconnect, vars, bearer, remote
  <2>2. UnderWay'
    BY <1>2, <2>1, UnderWayStays
  <2> QED  BY <1>1, <1>2, <2>1, <2>2, TruthStays, CreditStays DEF IInv
<1>5. CASE Relay
  <2> DEFINE pdu == Head(wire).pdu
  <2>1. /\ Out!Notify /\ acks' = acks /\ wire # <<>>
        /\ \/ UNCHANGED <<node, arrived>>
           \/ /\ pdu.kind = "segment" /\ node' = pdu.auth
              /\ arrived' = arrived \cup {<<pdu.auth, pdu.offset>>}
    BY <1>5 DEF Relay, Out!Notify
  <2>2. OfBegun(pdu)
    <3>1. Head(wire) = wire[1] /\ 1 \in 1..Len(wire)
      BY <1>1, <2>1
    <3> QED  BY <3>1 DEF IInv, UnderWay
  <2>3. node' = node \/ \E a : node' = a /\ Begun(a)'
    <3>1. CASE pdu.kind = "segment" /\ node' = pdu.auth
      <4>1. PICK a : a = pdu.auth
        OBVIOUS
      <4>2. Begun(a)'
        BY <1>2, <2>2, <3>1, <4>1 DEF OfBegun
      <4> QED  BY <3>1, <4>1, <4>2
    <3> QED  BY <2>1, <3>1
  <2>4. UnderWay'
    BY <1>2, <2>1, <2>3, UnderWayStays
  <2>5. arrived \subseteq arrived'
    BY <2>1
  <2> QED  BY <1>1, <1>2, <2>1, <2>4, <2>5, TruthStays, CreditStays DEF IInv
<1>6. CASE Acknowledge
  <2>1. /\ UNCHANGED <<writer, wire>> /\ node' = node /\ arrived' = arrived /\ node # -1
    BY <1>6 DEF Acknowledge, bearer
  <2>2. PICK block \in {Held, {}} :
          acks' = acks \cup {[zero |-> node % ZeroSpace, block |-> block,
                              n |-> Cardinality(acks), auth |-> node]}
    BY <1>6 DEF Acknowledge
  <2>3. Truthful'
    <3> SUFFICES ASSUME NEW ack \in acks'
                 PROVE  /\ Begun(ack.auth)' /\ ack.zero = ack.auth % ZeroSpace
                        /\ ack.block \subseteq Arrived(ack.auth)'
      BY DEF Truthful, Begun, Arrived
    <3>1. CASE ack \in acks
      BY <1>2, <2>1, <3>1 DEF IInv, Truthful, Arrived
    <3>2. CASE /\ ack.auth = node /\ ack.zero = node % ZeroSpace /\ ack.block = block
      <4>1. Begun(node)
        BY <2>1 DEF IInv, UnderWay
      <4>2. PICK a : a = node
        OBVIOUS
      <4>3. Begun(a)' /\ ack.auth = a
        BY <1>2, <3>2, <4>1, <4>2
      <4>4. ack.block \subseteq Arrived(ack.auth)'
        BY <2>1, <3>2 DEF Held, Arrived
      <4> QED  BY <3>2, <4>3, <4>4
    <3> QED  BY <2>2, <3>1, <3>2
  <2>4. UnderWay'
    BY <1>2, <2>1, UnderWayStays
  <2> QED  BY <1>1, <1>2, <2>1, <2>3, <2>4, CreditStays DEF IInv
<1> QED  BY <1>3, <1>4, <1>5, <1>6

(* An acknowledgment that is taken is for the pending message.             *)
LEMMA ReceiveAckInv ==
  ASSUME IInv, Sar!TypeOK, TypeOK', NEW ack \in acks, ReceiveAck(ack)
  PROVE  IInv'
<1>1. /\ pend # NoPend /\ pend.auth % ZeroSpace = ack.zero /\ seq - ack.auth < ZeroSpace
      /\ pend' = [pend EXCEPT !.acked = @ \cup ack.block, !.answered = TRUE, !.block = ack.block]
      /\ UNCHANGED <<bearer, seq, call, outcome, remote>>
  BY DEF ReceiveAck, Matches
<1>2. /\ pend \in Pends /\ seq \in Nat /\ call # NoCall /\ pend.auth = call.auth
      /\ call.auth \in Nat /\ call.auth < seq
  BY <1>1 DEF IInv, TypeOK, InStep
<1>3. /\ pend'.auth = pend.auth /\ pend'.acked = pend.acked \cup ack.block
  BY <1>1, <1>2 DEF Pends
<1>4. /\ ack.auth \in Nat /\ ack.auth <= call.auth /\ ack.zero = ack.auth % ZeroSpace
      /\ ack.block \subseteq Arrived(ack.auth)
  BY <1>2 DEF IInv, Truthful, Begun
<1>5. ack.auth = pend.auth
  BY <1>1, <1>2, <1>4, ZeroIdentifies
<1>6. InStep' /\ \A a : Begun(a) => Begun(a)'
  BY <1>1, <1>2, <1>3, InStepStays
<1>7. /\ UNCHANGED <<writer, wire>> /\ node' = node /\ arrived' = arrived /\ acks' = acks
      /\ outcome' = outcome
  BY <1>1 DEF bearer, remote
<1>8. UnderWay'
  BY <1>6, <1>7, UnderWayStays
<1>9. CreditedWhereDue'
  BY <1>3, <1>4, <1>5, <1>7 DEF IInv, CreditedWhereDue, Arrived
<1> QED  BY <1>6, <1>7, <1>8, <1>9, TruthStays DEF IInv

(* A message is reported as delivered only when its destination holds all  *)
(* of it, for every range of SeqZero, number of segments and attempts, and *)
(* however acknowledgments are lost, repeated, delayed or reordered        *)
(* (proxy.py:253-304, 428-455).                                            *)
THEOREM CreditDue == Spec => []CreditedWhereDue
<1>1. Sar!Spec => []Sar!Inv
  BY Sar!StreamInOrder
<1>2. Sar!Inv => Sar!TypeOK
  BY DEF Sar!Inv
<1>3. ASSUME IInv, Sar!TypeOK, [Next]_vars PROVE IInv'
  <2>1. TypeOK'
    BY <1>3, TypeStep DEF IInv
  <2> QED
    BY <1>3, <2>1, StartCallInv, BeginSegmentInv, CallInv, BesideInv, ReceiveAckInv
       DEF Next, Call, Environment
<1>4. IInv => CreditedWhereDue
  BY DEF IInv
<1> QED  BY <1>1, <1>2, <1>3, <1>4, InvInit, OnTheBearer, PTL DEF Spec

===============================================================================
