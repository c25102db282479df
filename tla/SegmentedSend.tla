---------------------------- MODULE SegmentedSend ----------------------------
(***************************************************************************)
(* ProxyClient._send_segmented (amaranble/proxy.py) over the GATT bearer:  *)
(* an access message goes out as segments, the destination acknowledges    *)
(* them by SeqZero, and what is missing is sent again.  Acknowledgments of *)
(* inbound messages share the bearer from background tasks.                *)
(*                                                                         *)
(* Abstractions:                                                           *)
(*   - one destination; an acknowledgment of another node is refused by    *)
(*     its source address (proxy.py:443-447), so it is not sent here;      *)
(*   - a message is its SeqAuth, the SEQ of its first segment; an          *)
(*     acknowledgment also carries, as history, the message it is for;     *)
(*   - behind the proxy the mesh loses segments, and loses, repeats,       *)
(*     delays and reorders acknowledgments; only those older than the      *)
(*     SeqZero space are gone for good;                                    *)
(*   - a number is drawn when its PDU takes the write lock: drawing and    *)
(*     reserving are in SequenceReservation;                               *)
(*   - acknowledgments reach _handle_network as one step: reassembly on    *)
(*     that direction of the bearer is the same GattSar.                   *)
(* The destination is external and acts as Mesh Protocol requires.         *)
(* MaxMessages and MaxAcks bound what is sent, MaxMishaps what goes wrong  *)
(* or cuts in.                                                             *)
(***************************************************************************)
EXTENDS Integers, Sequences, FiniteSets

CONSTANTS
  Network,      \* TYPE_NETWORK
  LastSeg,      \* SegN of the messages sent
  MaxAttempts,  \* 4 rounds
  ZeroSpace,    \* 2^13, the range of SeqZero
  MaxWire,
  MaxMessages,
  MaxAcks,
  MaxMishaps    \* breaks, cancellations, SAR timeouts and background tasks

ASSUME SendAssumption ==
  LastSeg \in Nat /\ MaxAttempts \in Nat \ {0} /\ ZeroSpace \in Nat \ {0}

VARIABLES
  turn, writer, wire, rx, failed, link, last,     \* the bearer, towards the fixture
  seq,          \* next SEQ
  call,         \* the holder of _send_lock
  pend,         \* its entry of _pending_ack
  node,         \* the destination's current SeqAuth
  arrived,      \* the segments the destination has taken, with their SeqAuth
  acks,         \* acknowledgments sent by the destination
  rpl,          \* its entry of _replay_list
  outcome,      \* how each call ended, by SeqAuth (history)
  mishaps       \* how much has gone wrong (bound)

SegmentPdu(auth, offset) == [kind |-> "segment", auth |-> auth, offset |-> offset]
AckPdu == [kind |-> "ack", auth |-> -1, offset |-> 0]
NetworkPdus == [kind : {"segment", "ack"}, auth : Int, offset : Int]
IsNetwork(pdu) == Network
NetworkLimit(type) == 2       \* 29 octets

Out == INSTANCE GattSar
         WITH Pdus <- NetworkPdus, TypeOf <- IsNetwork, Limit <- NetworkLimit

bearer == <<turn, writer, wire, rx, failed, link, last>>
remote == <<node, arrived, acks>>
sender == <<seq, call, pend, outcome>>
vars == <<bearer, sender, remote, rpl, mishaps>>

Offsets == 0..LastSeg
NoCall == [pc |-> "idle", auth |-> -1, group |-> FALSE, attempt |-> 0,
           outstanding |-> {}, todo |-> {}]
NoPend == [auth |-> -1, acked |-> {}, answered |-> FALSE, block |-> {}]

(* A full segment takes two writes; the last one is short.                 *)
Writes(offset) == IF offset = LastSeg THEN 1 ELSE 2

Mishap == mishaps < MaxMishaps /\ mishaps' = mishaps + 1

CallWrites == writer # Out!Free /\ writer.pdu.kind = "segment"
ReplyWrites == writer # Out!Free /\ writer.pdu.kind = "ack"

-------------------------------------------------------------------------------
(* The call.                                                               *)

Round(attempt, offsets) ==
  [call EXCEPT !.pc = "sending", !.attempt = attempt,
               !.outstanding = offsets, !.todo = offsets]

(* The entry of _pending_ack is made before the first segment leaves.      *)
StartCall(group) ==
  /\ call = NoCall /\ link /\ Cardinality(DOMAIN outcome) < MaxMessages
  /\ seq' = seq + 1
  /\ call' = [pc |-> "sending", auth |-> seq, group |-> group, attempt |-> 1,
              outstanding |-> Offsets, todo |-> Offsets]
  /\ pend' = [NoPend EXCEPT !.auth = seq]
  /\ UNCHANGED <<bearer, outcome, remote, rpl, mishaps>>

(* In the order of their offsets; only the very first send of segment 0    *)
(* carries the SeqAuth itself.                                             *)
BeginSegment ==
  /\ call.pc = "sending" /\ ~CallWrites
  /\ \E offset \in call.todo :
       LET fresh == ~(call.attempt = 1 /\ offset = 0) IN
       /\ \A o \in call.todo : offset <= o
       /\ call' = [call EXCEPT !.todo = @ \ {offset}]
       /\ seq' = IF fresh THEN seq + 1 ELSE seq
       /\ Out!Begin(SegmentPdu(call.auth, offset), Writes(offset))
  /\ UNCHANGED <<pend, outcome, remote, rpl, mishaps>>

(* finally: the entry goes whatever happened.                              *)
Finish(result) ==
  /\ call' = NoCall
  /\ pend' = NoPend
  /\ outcome' = [a \in DOMAIN outcome \cup {call.auth} |->
                   IF a = call.auth THEN result ELSE outcome[a]]

(* Group destinations are never acknowledged.                              *)
RoundEnds ==
  /\ call.pc = "sending" /\ call.todo = {} /\ ~CallWrites
  /\ IF call.group THEN Finish("sent")
     ELSE call' = [call EXCEPT !.pc = "waiting"] /\ UNCHANGED <<pend, outcome>>
  /\ UNCHANGED <<bearer, seq, remote, rpl, mishaps>>

Missing == Offsets \ pend.acked

Answered ==
  /\ call.pc = "waiting" /\ pend.answered
  /\ \/ /\ pend.block = {} /\ Finish("canceled")
     \/ /\ pend.block # {} /\ Missing = {} /\ Finish("ok")
     \/ /\ pend.block # {} /\ Missing # {}
        /\ IF call.attempt = MaxAttempts THEN Finish("failed")
           ELSE /\ call' = Round(call.attempt + 1, Missing)
                /\ pend' = [pend EXCEPT !.answered = FALSE, !.block = {}]
                /\ UNCHANGED outcome
  /\ UNCHANGED <<bearer, seq, remote, rpl, mishaps>>

(* Mutant: the wait of the last round has no timeout.                      *)
AckTimesOutEarlier ==
  /\ call.pc = "waiting" /\ call.attempt < MaxAttempts
  /\ call' = Round(call.attempt + 1, call.outstanding)
  /\ UNCHANGED <<bearer, seq, pend, outcome, remote, rpl, mishaps>>

(* 1.5 s passed.  An acknowledgment in the same turn of the loop stays in  *)
(* the future and answers the next round.                                  *)
AckTimesOut ==
  /\ call.pc = "waiting"
  /\ IF call.attempt = MaxAttempts THEN Finish("failed")
     ELSE call' = Round(call.attempt + 1, call.outstanding) /\ UNCHANGED <<pend, outcome>>
  /\ UNCHANGED <<bearer, seq, remote, rpl, mishaps>>

(* A write raises, on a broken link always, or the call is cancelled       *)
(* wherever it is.                                                         *)
CallFails ==
  /\ call # NoCall
  /\ IF link THEN Mishap ELSE UNCHANGED mishaps
  /\ Finish("failed")
  /\ IF CallWrites THEN Out!Abandon ELSE UNCHANGED bearer
  /\ UNCHANGED <<seq, remote, rpl>>

-------------------------------------------------------------------------------
(* _send_segment_ack, a task of its own outside _send_lock.                *)

BeginReply ==
  /\ Out!Begin(AckPdu, 2) /\ Mishap
  /\ seq' = seq + 1
  /\ UNCHANGED <<call, pend, outcome, remote, rpl>>

ReplyFails ==
  /\ ReplyWrites /\ Out!Abandon
  /\ UNCHANGED <<sender, remote, rpl, mishaps>>

-------------------------------------------------------------------------------
(* The bearer and the fixture's proxy, which relays what arrives whole (a  *)
(* PDU that is not fails its MIC) to the destination, unless the mesh      *)
(* loses it.  A newer transaction replaces the destination's current one   *)
(* for good.                                                               *)

Relay ==
  /\ Out!Notify
  /\ LET pdu == Head(wire).pdu IN
     IF Out!Dispatches(Head(wire)) /\ Out!Whole(last') /\ pdu.kind = "segment" /\ pdu.auth >= node
     THEN \/ node' = pdu.auth /\ arrived' = arrived \cup {<<pdu.auth, pdu.offset>>}
          \/ UNCHANGED <<node, arrived>>
     ELSE UNCHANGED <<node, arrived>>
  /\ UNCHANGED <<sender, acks, rpl, mishaps>>

Bearer ==
  /\ \/ Out!Write /\ UNCHANGED mishaps
     \/ Out!SarTimesOut /\ Mishap
     \/ Out!Break /\ Mishap
  /\ UNCHANGED <<sender, remote, rpl>>

(* The next connection is made after the operation on the old one ended,   *)
(* and its tasks were cancelled with it.                                   *)
Reconnect ==
  /\ Out!Connect /\ call = NoCall
  /\ UNCHANGED <<sender, remote, rpl, mishaps>>

-------------------------------------------------------------------------------
(* The destination.                                                        *)

Held == {o \in Offsets : <<node, o>> \in arrived}

(* It says what it holds, or nothing at all to refuse the message.         *)
Acknowledge ==
  /\ node # -1 /\ Cardinality(acks) < MaxAcks
  /\ \E block \in {Held, {}} :
       acks' = acks \cup {[zero |-> node % ZeroSpace, block |-> block,
                           n |-> Cardinality(acks), auth |-> node]}
  /\ UNCHANGED <<bearer, sender, node, arrived, rpl, mishaps>>

-------------------------------------------------------------------------------
(* _handle_network for a segment acknowledgment                            *)

(* Mutant: whatever is pending takes the acknowledgment.                   *)
MatchesAny(ack) == pend # NoPend

Matches(ack) == pend # NoPend /\ pend.auth % ZeroSpace = ack.zero

(* Not a replay, for the pending message, the first since its round began, *)
(* and either a refusal or news.                                           *)
ReceiveAck(ack) ==
  /\ link /\ seq - ack.auth < ZeroSpace
  /\ ack.n > rpl /\ Matches(ack) /\ ~pend.answered
  /\ ack.block \subseteq Offsets
  /\ ack.block = {} \/ ~(ack.block \subseteq pend.acked)
  /\ pend' = [pend EXCEPT !.acked = @ \cup ack.block, !.answered = TRUE, !.block = ack.block]
  /\ rpl' = ack.n
  /\ UNCHANGED <<bearer, seq, call, outcome, remote, mishaps>>

-------------------------------------------------------------------------------
Init ==
  /\ Out!Init
  /\ seq = 0 /\ call = NoCall /\ pend = NoPend
  /\ outcome = [a \in {} |-> "sent"]
  /\ node = -1 /\ arrived = {} /\ acks = {} /\ rpl = -1
  /\ mishaps = 0

Call ==
  \/ \E group \in BOOLEAN : StartCall(group)
  \/ BeginSegment \/ RoundEnds \/ Answered \/ AckTimesOut \/ CallFails

Environment ==
  \/ Acknowledge
  \/ \E ack \in acks : ReceiveAck(ack)

Next ==
  \/ Call \/ BeginReply \/ ReplyFails
  \/ Relay \/ Bearer \/ Reconnect
  \/ Environment

Spec == Init /\ [][Next]_vars

(* Tasks run, a wait for an acknowledgment times out, a write on a broken  *)
(* link fails, and the fixture reads what was written.                     *)
Fairness ==
  /\ WF_vars(BeginSegment) /\ WF_vars(RoundEnds)
  /\ WF_vars(Answered \/ AckTimesOut)
  /\ WF_vars(~link /\ CallFails) /\ WF_vars(~link /\ ReplyFails)
  /\ WF_vars(Out!Write /\ UNCHANGED <<sender, remote, rpl, mishaps>>)
  /\ WF_vars(Relay)

FairSpec == Spec /\ Fairness

-------------------------------------------------------------------------------
(* Properties.                                                             *)

Arrived(auth) == {o \in Offsets : <<auth, o>> \in arrived}

(* A message is reported as delivered only when the destination holds      *)
(* every segment of that message, and a segment is taken for acknowledged  *)
(* only when it arrived: acknowledgments of an earlier message, of an      *)
(* earlier round or out of order are credited to nothing else              *)
(* (proxy.py:253-304, 428-455).                                            *)
CreditedWhereDue ==
  /\ \A a \in DOMAIN outcome : outcome[a] = "ok" => Arrived(a) = Offsets
  /\ pend.acked \subseteq Arrived(pend.auth)

(* Every PDU of the call and of the background tasks is relayed whole, at  *)
(* most once and in order, also when one of them is cancelled halfway      *)
(* (gatt.py:107-129, 136-190).                                             *)
PdusStayWhole == Out!PdusStayWhole

(* A send always returns: no lost acknowledgment, broken link or busy      *)
(* write lock keeps _send_lock for ever (proxy.py:255-306).                *)
SendsReturn == []<>(call = NoCall)
===============================================================================
