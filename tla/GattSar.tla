------------------------------- MODULE GattSar -------------------------------
(***************************************************************************)
(* One direction of the GATT bearer: MeshGattTransport.send cuts a Proxy   *)
(* PDU into writes of at most SEGMENT_SIZE bytes under the write lock, and *)
(* _notification_handler joins them again (amaranble/gatt.py).  Both ends  *)
(* of a bearer follow these rules; the end that is not the integration's   *)
(* is the fixture's.                                                       *)
(*                                                                         *)
(* Abstractions: a PDU is its number, counted in the order in which the    *)
(* write lock was granted (FIFO order is in SequenceReservation), what it  *)
(* carries and its length in writes; a link delivers what was written, in  *)
(* order, until it breaks, which is what ATT guarantees.  Nothing ensures  *)
(* that a sender finishes: a write times out or its task is cancelled,     *)
(* after the bytes left or before.                                         *)
(* MaxWire bounds the writes in flight.                                    *)
(***************************************************************************)
EXTENDS Integers, Sequences

CONSTANTS
  Pdus,         \* what is sent
  TypeOf(_),    \* the message type of a PDU
  Limit(_),     \* MAX_PROXY_MESSAGE_LENGTH of a type, in writes
  MaxWire

VARIABLES
  turn,         \* PDUs begun so far
  writer,       \* the PDU of the holder of _write_lock: [id, pdu, size, next]
  wire,         \* writes in flight
  rx,           \* _rx_buf, as the writes it was joined from
  failed,       \* _protocol_failed
  link,         \* the link is up
  last          \* the payload last passed to _on_message (history)

bearer == <<turn, writer, wire, rx, failed, link, last>>

Free == [id |-> 0]

(* The number-th write of a PDU.  SAR is COMPLETE when it is the only one, *)
(* FIRST and LAST at the ends, CONTINUATION between.                       *)
Chunk(w, number) == [id |-> w.id, pdu |-> w.pdu, size |-> w.size, part |-> number]

Complete(c) == c.size = 1
First(c) == c.size > 1 /\ c.part = 1
Last(c) == c.size > 1 /\ c.part = c.size

-------------------------------------------------------------------------------
(* send *)

Begin(pdu, size) ==
  /\ link /\ writer = Free /\ size <= Limit(TypeOf(pdu))
  /\ turn' = turn + 1
  /\ writer' = [id |-> turn + 1, pdu |-> pdu, size |-> size, next |-> 1]
  /\ UNCHANGED <<wire, rx, failed, link, last>>

(* One write; the last one gives the lock back.                            *)
Write ==
  /\ link /\ writer # Free /\ Len(wire) < MaxWire
  /\ wire' = Append(wire, Chunk(writer, writer.next))
  /\ writer' = IF writer.next = writer.size THEN Free ELSE [writer EXCEPT !.next = @ + 1]
  /\ UNCHANGED <<turn, rx, failed, link, last>>

(* The write in progress fails, times out or is cancelled: its bytes may   *)
(* or may not have left, the rest of the PDU never will.                   *)
Abandon ==
  /\ writer # Free
  /\ writer' = Free
  /\ \/ UNCHANGED wire
     \/ /\ link /\ Len(wire) < MaxWire
        /\ wire' = Append(wire, Chunk(writer, writer.next))
  /\ UNCHANGED <<turn, rx, failed, link, last>>

-------------------------------------------------------------------------------
(* _notification_handler *)

(* Mutant: segments are joined as they come.                               *)
MisfitNever(c) == FALSE

(* A complete or first segment inside a transfer, any other one outside or *)
(* of another type, or one too many for the type.                          *)
Misfit(c) ==
  IF Complete(c) \/ First(c) THEN rx # <<>>
  ELSE rx = <<>> \/ TypeOf(c.pdu) # TypeOf(rx[1].pdu) \/ Len(rx) >= Limit(TypeOf(c.pdu))

Dispatches(c) == ~failed /\ ~Misfit(c) /\ (Complete(c) \/ Last(c))

Heed(c) ==
  IF failed THEN UNCHANGED <<rx, failed, last>>
  ELSE IF Misfit(c) THEN rx' = <<>> /\ failed' = TRUE /\ UNCHANGED last
  ELSE /\ UNCHANGED failed
       /\ IF Complete(c) THEN last' = <<c>> /\ UNCHANGED rx
          ELSE IF Last(c) THEN last' = Append(rx, c) /\ rx' = <<>>
          ELSE rx' = Append(rx, c) /\ UNCHANGED last

Notify ==
  /\ link /\ wire # <<>>
  /\ wire' = Tail(wire)
  /\ Heed(Head(wire))
  /\ UNCHANGED <<turn, writer, link>>

(* _sar_timed_out: the rest of the transfer did not come in time.          *)
SarTimesOut ==
  /\ rx # <<>>
  /\ rx' = <<>> /\ failed' = TRUE
  /\ UNCHANGED <<turn, writer, wire, link, last>>

-------------------------------------------------------------------------------
(* The link breaks, or _fail_protocol disconnected it: what was in flight  *)
(* is lost.  A write that is waiting fails with it.                        *)
Break ==
  /\ link
  /\ link' = FALSE /\ wire' = <<>>
  /\ UNCHANGED <<turn, writer, rx, failed, last>>

(* A new connection has a new MeshGattTransport; the task that held the    *)
(* old one's lock has failed by then.                                      *)
Connect ==
  /\ ~link /\ writer = Free
  /\ link' = TRUE /\ rx' = <<>> /\ failed' = FALSE
  /\ UNCHANGED <<turn, writer, wire, last>>

Init ==
  /\ turn = 0 /\ writer = Free /\ wire = <<>> /\ rx = <<>>
  /\ failed = FALSE /\ link = TRUE /\ last = <<>>

Next ==
  \/ \E pdu \in Pdus, size \in Nat \ {0} : Begin(pdu, size)
  \/ Write \/ Abandon \/ Notify \/ SarTimesOut \/ Break \/ Connect

Spec == Init /\ [][Next]_bearer

-------------------------------------------------------------------------------
(* Properties.                                                             *)

(* A payload is whole when it is all the writes of one PDU, in order.      *)
Whole(payload) ==
  /\ Len(payload) = payload[1].size
  /\ \A i \in 1..Len(payload) : payload[i] = [payload[1] EXCEPT !.part = i]

LastHeard ==
  IF last = <<>> THEN 0 ELSE IF Whole(last) THEN last[1].id ELSE -1

(* Whatever senders abandon halfway, whatever times out and however often  *)
(* the link breaks: what is passed up is one whole PDU, never two spliced  *)
(* together, each at most once and in the order of sending                 *)
(* (gatt.py:107-129, 136-190).                                             *)
Fifo == INSTANCE PduFifo WITH begun <- turn, heard <- LastHeard
PdusStayWhole == Fifo!FifoSpec
===============================================================================
