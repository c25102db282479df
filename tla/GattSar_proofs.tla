---------------------------- MODULE GattSar_proofs ----------------------------
(***************************************************************************)
(* GattSar implements PduFifo, for every set of PDUs, every type and limit *)
(* and every number of writes in flight.                                   *)
(*                                                                         *)
(* The argument: chunks reach the receiver in the order they were written, *)
(* and what follows a chunk is either the next one of the same PDU or the  *)
(* first of a later PDU, since the write lock serializes senders and a     *)
(* sender that gives up never continues.  So a chunk that is neither first *)
(* nor misfit is the successor of the last one joined.                     *)
(***************************************************************************)
EXTENDS GattSar, TLAPS

Chunks == [id : Nat \ {0}, pdu : Pdus, size : Nat \ {0}, part : Nat \ {0}]
Writers == [id : Nat \ {0}, pdu : Pdus, size : Nat \ {0}, next : Nat \ {0}]

TypeOK ==
  /\ turn \in Nat
  /\ writer \in Writers \cup {Free}
  /\ writer # Free => writer.id = turn /\ writer.next <= writer.size
  /\ wire \in Seq(Chunks) /\ rx \in Seq(Chunks) /\ last \in Seq(Chunks)
  /\ failed \in BOOLEAN /\ link \in BOOLEAN

(* c and d are chunks of one PDU.                                          *)
SamePdu(c, d) == c.id = d.id /\ c.pdu = d.pdu /\ c.size = d.size
Follows(c, d) == SamePdu(c, d) /\ d.part = c.part + 1

(* What is in flight.                                                      *)
Known == \A i \in 1..Len(wire) : wire[i].id <= turn /\ wire[i].part <= wire[i].size
Ordered == \A i, j \in 1..Len(wire) : i < j /\ wire[j].part = 1 => wire[i].id < wire[j].id
Chained == \A i \in 2..Len(wire) : wire[i].part > 1 => Follows(wire[i - 1], wire[i])

(* What was joined so far, and how what is in flight goes on from there.   *)
Joined ==
  rx # <<>> =>
    /\ rx[1].id <= turn /\ LastHeard < rx[1].id /\ Len(rx) < rx[1].size
    /\ \A i \in 1..Len(rx) : SamePdu(rx[1], rx[i]) /\ rx[i].part = i
    /\ wire # <<>> /\ wire[1].part > 1 => Follows(rx[Len(rx)], wire[1])
    /\ \A i \in 1..Len(wire) : wire[i].part = 1 => rx[1].id < wire[i].id

HeardBefore ==
  /\ LastHeard \in 0..turn
  /\ \A i \in 1..Len(wire) : wire[i].part = 1 => LastHeard < wire[i].id

(* Where the writer goes on.                                               *)
Continues ==
  writer # Free /\ link =>
    /\ writer.next = 1 =>
         /\ LastHeard < turn
         /\ \A i \in 1..Len(wire) : wire[i].id < turn
         /\ rx # <<>> => rx[1].id < turn
    /\ writer.next > 1 =>
         /\ wire # <<>> => Follows(wire[Len(wire)], Chunk(writer, writer.next))
         /\ wire = <<>> /\ rx # <<>> => Follows(rx[Len(rx)], Chunk(writer, writer.next))

Emptied == (~link => wire = <<>>) /\ (failed => rx = <<>>)

Stream == Known /\ Ordered /\ Chained /\ Joined /\ HeardBefore
Inv == TypeOK /\ Stream /\ Continues /\ Emptied

-------------------------------------------------------------------------------
(* A chunk that is written continues what is in flight.                    *)
LEMMA Appended ==
  ASSUME Inv, writer # Free, link,
         wire' = Append(wire, Chunk(writer, writer.next)),
         UNCHANGED <<turn, rx, last>>
  PROVE  wire' \in Seq(Chunks) /\ Stream'
<1> DEFINE c == Chunk(writer, writer.next)
<1>1. /\ c \in Chunks /\ c.id = turn /\ c.part <= c.size /\ c.part = writer.next
      /\ wire \in Seq(Chunks) /\ rx \in Seq(Chunks) /\ turn \in Nat
  BY DEF Inv, TypeOK, Writers, Chunks, Chunk
<1>2. /\ wire' \in Seq(Chunks) /\ Len(wire) \in Nat /\ Len(wire') = Len(wire) + 1
      /\ wire'[Len(wire')] = c
      /\ \A i \in 1..Len(wire) : wire'[i] = wire[i]
  BY <1>1
<1>3. LastHeard' = LastHeard
  BY DEF LastHeard
<1>4. Known'
  BY <1>1, <1>2 DEF Inv, Stream, Known
<1>5. Ordered'
  <2> SUFFICES ASSUME NEW i \in 1..Len(wire'), NEW j \in 1..Len(wire'),
                      i < j, wire'[j].part = 1
               PROVE  wire'[i].id < wire'[j].id
    BY DEF Ordered
  <2>1. CASE j <= Len(wire)
    BY <1>1, <1>2, <2>1 DEF Inv, Stream, Ordered
  <2>2. CASE j = Len(wire')
    <3>1. writer.next = 1 /\ wire'[j].id = turn /\ wire'[i] = wire[i] /\ i \in 1..Len(wire)
      BY <1>1, <1>2, <2>2
    <3> QED  BY <3>1 DEF Inv, Continues
  <2>3. j <= Len(wire) \/ j = Len(wire')
    BY <1>2
  <2> QED  BY <2>1, <2>2, <2>3
<1>6. Chained'
  <2> SUFFICES ASSUME NEW i \in 2..Len(wire'), wire'[i].part > 1
               PROVE  Follows(wire'[i - 1], wire'[i])
    BY DEF Chained, Follows, SamePdu
  <2>1. CASE i <= Len(wire)
    BY <1>1, <1>2, <2>1 DEF Inv, Stream, Chained
  <2>2. CASE i = Len(wire')
    <3>1. wire # <<>> /\ wire'[i - 1] = wire[Len(wire)] /\ writer.next > 1
      BY <1>1, <1>2, <2>2
    <3> QED  BY <1>1, <1>2, <2>2, <3>1 DEF Inv, Continues
  <2> QED  BY <1>1, <1>2, <2>1, <2>2
<1>7. Joined'
  <2> SUFFICES ASSUME rx # <<>> PROVE Joined'
    BY DEF Joined
  <2>1. /\ rx[1].id <= turn /\ LastHeard < rx[1].id /\ Len(rx) < rx[1].size
        /\ \A i \in 1..Len(rx) : SamePdu(rx[1], rx[i]) /\ rx[i].part = i
    BY DEF Inv, Stream, Joined
  <2>2. wire'[1].part > 1 => Follows(rx[Len(rx)], wire'[1])
    <3>1. CASE wire = <<>>
      <4>1. wire'[1] = c
        BY <1>1, <1>2, <3>1
      <4> QED  BY <1>1, <3>1, <4>1 DEF Inv, Continues
    <3>2. CASE wire # <<>>
      <4>1. wire'[1] = wire[1]
        BY <1>1, <1>2, <3>2
      <4> QED  BY <3>2, <4>1 DEF Inv, Stream, Joined
    <3> QED  BY <3>1, <3>2
  <2>3. \A i \in 1..Len(wire') : wire'[i].part = 1 => rx[1].id < wire'[i].id
    BY <1>1, <1>2 DEF Inv, Stream, Joined, Continues
  <2> QED  BY <1>3, <2>1, <2>2, <2>3 DEF Joined, SamePdu, Follows
<1>8. HeardBefore'
  BY <1>1, <1>2, <1>3 DEF Inv, Stream, HeardBefore, Continues
<1> QED  BY <1>2, <1>4, <1>5, <1>6, <1>7, <1>8 DEF Stream

-------------------------------------------------------------------------------
LEMMA InitInv == Init => Inv
<1> SUFFICES ASSUME Init PROVE Inv
  OBVIOUS
<1>1. wire = <<>> /\ rx = <<>> /\ Len(wire) = 0 /\ LastHeard = 0 /\ turn = 0
  BY DEF Init, LastHeard
<1>2. <<>> \in Seq(Chunks)
  OBVIOUS
<1>3. TypeOK
  BY <1>2, Zenon DEF Init, TypeOK
<1> QED  BY <1>1, <1>3 DEF Init, Inv, Stream, Known, Ordered, Chained, Joined,
                           HeardBefore, Continues, Emptied

LEMMA BeginInv ==
  ASSUME Inv, NEW pdu \in Pdus, NEW size \in Nat \ {0}, Begin(pdu, size)
  PROVE  Inv'
<1>1. /\ turn' = turn + 1 /\ turn \in Nat /\ link
      /\ writer' = [id |-> turn + 1, pdu |-> pdu, size |-> size, next |-> 1]
      /\ UNCHANGED <<wire, rx, failed, link, last>>
  BY DEF Begin, Inv, TypeOK
<1>2. /\ writer' \in Writers /\ writer'.id = turn' /\ writer'.next = 1
      /\ writer'.next <= writer'.size
  BY <1>1 DEF Writers
<1>3. LastHeard' = LastHeard
  BY <1>1 DEF LastHeard, Whole
<1>4. /\ \A i \in 1..Len(wire) : wire[i].id \in Nat /\ wire[i].id <= turn
      /\ rx # <<>> => rx[1].id \in Nat /\ rx[1].id <= turn
  <2>1. wire \in Seq(Chunks) /\ rx \in Seq(Chunks)
    BY DEF Inv, TypeOK
  <2>2. \A i \in 1..Len(wire) : wire[i] \in Chunks
    BY <2>1
  <2>3. rx # <<>> => rx[1] \in Chunks
    BY <2>1
  <2> QED  BY <2>2, <2>3 DEF Inv, Stream, Known, Joined, Chunks
<1>5. TypeOK'
  BY <1>1, <1>2 DEF Inv, TypeOK
<1>6. Known'
  BY <1>1, <1>4 DEF Inv, Stream, Known
<1>7. Ordered' /\ Chained'
  BY <1>1 DEF Inv, Stream, Ordered, Chained, Follows, SamePdu
<1>8. Joined'
  BY <1>1, <1>3, <1>4 DEF Inv, Stream, Joined, Follows, SamePdu
<1>9. HeardBefore'
  BY <1>1, <1>3 DEF Inv, Stream, HeardBefore
<1>10. Continues' /\ Emptied'
  BY <1>1, <1>2, <1>3, <1>4 DEF Inv, Stream, HeardBefore, Continues, Emptied
<1> QED  BY <1>5, <1>6, <1>7, <1>8, <1>9, <1>10 DEF Inv, Stream

LEMMA WriteInv == ASSUME Inv, Write PROVE Inv'
<1>1. writer # Free /\ link /\ wire' = Append(wire, Chunk(writer, writer.next))
      /\ UNCHANGED <<turn, rx, failed, link, last>>
  BY DEF Write
<1>2. wire' \in Seq(Chunks) /\ Stream'
  BY <1>1, Appended
<1>3. TypeOK'
  <2>1. writer \in Writers /\ writer.id = turn /\ writer.next <= writer.size
    BY <1>1 DEF Inv, TypeOK
  <2>2. CASE writer.next = writer.size
    BY <1>1, <1>2, <2>2 DEF Inv, TypeOK, Write
  <2>3. CASE writer.next # writer.size
    <3>1. writer' = [writer EXCEPT !.next = @ + 1]
      BY <2>3 DEF Write
    <3>2. writer' \in Writers /\ writer'.id = turn /\ writer'.next <= writer'.size
      BY <2>1, <2>3, <3>1 DEF Writers
    <3> QED  BY <1>1, <1>2, <3>2 DEF Inv, TypeOK
  <2> QED  BY <2>2, <2>3
<1>4. Continues'
  <2> SUFFICES ASSUME writer' # Free PROVE Continues'
    BY DEF Continues
  <2>1. writer' = [writer EXCEPT !.next = @ + 1] /\ writer \in Writers
    BY DEF Write, Inv, TypeOK
  <2>2. wire' # <<>> /\ wire'[Len(wire')] = Chunk(writer, writer.next)
    BY <1>1 DEF Inv, TypeOK
  <2> QED  BY <2>1, <2>2 DEF Continues, Follows, SamePdu, Chunk, Writers
<1> QED  BY <1>1, <1>2, <1>3, <1>4 DEF Inv, Emptied

LEMMA AbandonInv == ASSUME Inv, Abandon PROVE Inv'
<1>1. writer' = Free /\ writer # Free /\ UNCHANGED <<turn, rx, failed, link, last>>
  BY DEF Abandon
<1>2. wire' \in Seq(Chunks) /\ Stream'
  <2>1. CASE UNCHANGED wire
    BY <1>1, <2>1 DEF Inv, TypeOK, Stream, Known, Ordered, Chained, Joined, HeardBefore,
                      LastHeard, SamePdu, Follows
  <2>2. CASE link /\ wire' = Append(wire, Chunk(writer, writer.next))
    BY <1>1, <2>2, Appended
  <2> QED  BY <2>1, <2>2 DEF Abandon
<1> QED  BY <1>1, <1>2 DEF Inv, TypeOK, Continues, Emptied, Abandon

LEMMA LinkInv ==
  ASSUME Inv, SarTimesOut \/ Break \/ Connect
  PROVE  Inv'
<1>1. CASE SarTimesOut
  BY <1>1 DEF SarTimesOut, Inv, TypeOK, Stream, Known, Ordered, Chained, Joined,
              HeardBefore, Continues, Emptied, LastHeard, SamePdu, Follows, Chunk
<1>2. CASE Break
  <2>1. <<>> \in Seq(Chunks) /\ Len(<<>>) = 0
    OBVIOUS
  <2>2. TypeOK'
    BY <1>2, <2>1 DEF Break, Inv, TypeOK
  <2>3. Stream'
    BY <1>2, <2>1 DEF Break, Inv, Stream, Known, Ordered, Chained, Joined, HeardBefore,
                      LastHeard, SamePdu
  <2> QED  BY <1>2, <2>2, <2>3 DEF Break, Inv, Continues, Emptied
<1>3. CASE Connect
  BY <1>3 DEF Connect, Inv, TypeOK, Stream, Known, Ordered, Chained, Joined,
              HeardBefore, Continues, Emptied, LastHeard, SamePdu, Follows
<1> QED  BY <1>1, <1>2, <1>3

(* What a notification does to the transfer, in terms of the chunk c: it is *)
(* given up, one PDU was heard whole, or c was joined.                     *)
LEMMA Heard ==
  ASSUME Inv, Notify, NEW c, c = wire[1], c \in Chunks
  PROVE  \/ rx' = <<>> /\ LastHeard' = LastHeard
         \/ /\ rx' = <<>> /\ LastHeard' = c.id /\ LastHeard < c.id
            /\ \A i \in 2..Len(wire) : wire[i].part = 1 => c.id < wire[i].id
         \/ /\ rx = <<>> /\ c.part = 1 /\ c.size > 1
            /\ rx' = <<c>> /\ LastHeard' = LastHeard
         \/ /\ rx # <<>> /\ Follows(rx[Len(rx)], c) /\ c.part < c.size
            /\ rx' = Append(rx, c) /\ LastHeard' = LastHeard
<1>1. /\ wire # <<>> /\ wire \in Seq(Chunks) /\ rx \in Seq(Chunks) /\ Head(wire) = c
      /\ Heed(c)
  BY DEF Inv, TypeOK, Notify
<1>2. c.size \in Nat \ {0} /\ c.part \in Nat \ {0} /\ c.part <= c.size /\ c.id \in Nat
  BY <1>1 DEF Inv, Stream, Known, Chunks
<1>3. CASE failed \/ Misfit(c)
  BY <1>1, <1>3 DEF Heed, LastHeard, Inv, Emptied
<1>4. CASE ~failed /\ ~Misfit(c) /\ Complete(c)
  <2>1. rx' = <<>> /\ last' = <<c>> /\ c.size = 1 /\ c.part = 1
    BY <1>1, <1>2, <1>4 DEF Heed, Misfit, Complete
  <2>2. Whole(<<c>>)
    BY <2>1 DEF Whole, Chunks
  <2>3. LastHeard' = c.id
    BY <2>1, <2>2 DEF LastHeard
  <2>4. \A i \in 2..Len(wire) : wire[i].part = 1 => c.id < wire[i].id
    BY <1>1 DEF Inv, Stream, Ordered
  <2>5. LastHeard < c.id
    BY <1>1, <2>1 DEF Inv, Stream, HeardBefore
  <2> QED  BY <2>1, <2>3, <2>4, <2>5
<1>5. CASE ~failed /\ ~Misfit(c) /\ First(c)
  <2>1. rx = <<>> /\ c.size > 1 /\ c.part = 1 /\ ~Complete(c) /\ ~Last(c)
    BY <1>2, <1>5 DEF Misfit, First, Complete, Last
  <2>2. rx' = Append(rx, c) /\ UNCHANGED last
    BY <1>1, <1>5, <2>1 DEF Heed
  <2>3. rx' = <<c>> /\ LastHeard' = LastHeard
    BY <2>1, <2>2 DEF LastHeard
  <2> QED  BY <2>1, <2>3
<1>6. CASE ~failed /\ ~Misfit(c) /\ ~Complete(c) /\ ~First(c)
  <2>1. rx # <<>> /\ c.size > 1 /\ c.part > 1
    BY <1>2, <1>6 DEF Misfit, Complete, First
  <2>2. Follows(rx[Len(rx)], c)
    BY <1>1, <2>1 DEF Inv, Stream, Joined
  <2>3. CASE ~Last(c)
    BY <1>1, <1>2, <1>6, <2>1, <2>2, <2>3 DEF Heed, Last, LastHeard
  <2>4. CASE Last(c)
    <3> DEFINE payload == Append(rx, c)
    <3>1. rx' = <<>> /\ last' = payload /\ c.part = c.size
      BY <1>1, <1>6, <2>4 DEF Heed, Last
    <3>2. /\ payload \in Seq(Chunks) /\ Len(payload) = Len(rx) + 1 /\ Len(rx) \in Nat \ {0}
          /\ payload[Len(payload)] = c /\ \A i \in 1..Len(rx) : payload[i] = rx[i]
      BY <1>1, <2>1
    <3>3. \A i \in 1..Len(rx) : SamePdu(rx[1], rx[i]) /\ rx[i].part = i
      BY <2>1 DEF Inv, Stream, Joined
    <3>4. SamePdu(rx[1], c) /\ c.part = Len(rx) + 1
      BY <2>2, <3>2, <3>3 DEF Follows, SamePdu
    <3>5. \A i \in 1..Len(payload) : SamePdu(payload[1], payload[i]) /\ payload[i].part = i
      BY <3>2, <3>3, <3>4
    <3>6. ASSUME NEW i \in 1..Len(payload)
          PROVE  payload[i] = [payload[1] EXCEPT !.part = i]
      <4>1. payload[i] \in Chunks /\ payload[1] \in Chunks
        BY <3>2
      <4>2. /\ payload[i].id = payload[1].id /\ payload[i].pdu = payload[1].pdu
            /\ payload[i].size = payload[1].size /\ payload[i].part = i
        BY <3>5 DEF SamePdu
      <4> QED  BY <4>1, <4>2 DEF Chunks
    <3>7. Whole(payload) /\ payload # <<>> /\ payload[1].id = c.id
      <4>1. payload[1] = rx[1] /\ Len(payload) = c.part
        BY <3>2, <3>4
      <4>2. Len(payload) = payload[1].size /\ payload[1].id = c.id
        BY <3>1, <3>4, <4>1 DEF SamePdu
      <4>3. payload # <<>>
        BY <3>2
      <4> QED  BY <3>6, <4>2, <4>3 DEF Whole
    <3>8. LastHeard' = c.id
      BY <3>1, <3>7 DEF LastHeard
    <3>9. \A i \in 2..Len(wire) : wire[i].part = 1 => c.id < wire[i].id
      BY <1>1, <2>1, <3>4 DEF Inv, Stream, Joined, SamePdu
    <3>10. LastHeard < c.id
      BY <2>1, <3>4 DEF Inv, Stream, Joined, SamePdu
    <3> QED  BY <3>1, <3>8, <3>9, <3>10
  <2> QED  BY <2>3, <2>4
<1> QED  BY <1>3, <1>4, <1>5, <1>6

LEMMA NotifyInv == ASSUME Inv, Notify PROVE Inv'
<1> DEFINE c == wire[1]
<1>1. /\ link /\ wire # <<>> /\ wire' = Tail(wire) /\ Heed(c)
      /\ UNCHANGED <<turn, writer, link>>
      /\ wire \in Seq(Chunks) /\ rx \in Seq(Chunks) /\ turn \in Nat
  BY DEF Notify, Inv, TypeOK
<1>2. /\ wire' \in Seq(Chunks) /\ Len(wire) \in Nat \ {0} /\ Len(wire') = Len(wire) - 1
      /\ \A i \in 1..Len(wire') : wire'[i] = wire[i + 1]
      /\ \A i \in 1..Len(wire) : wire[i] \in Chunks
  BY <1>1
<1>3. /\ c \in Chunks /\ c.id \in Nat \ {0} /\ c.id <= turn /\ c.part \in Nat
      /\ \A i \in 1..Len(wire) : wire[i].id \in Nat /\ wire[i].part \in Nat \ {0}
  BY <1>2 DEF Chunks, Inv, Stream, Known
<1>4. \/ rx' = <<>> /\ LastHeard' = LastHeard
      \/ /\ rx' = <<>> /\ LastHeard' = c.id /\ LastHeard < c.id
         /\ \A i \in 2..Len(wire) : wire[i].part = 1 => c.id < wire[i].id
      \/ /\ rx = <<>> /\ c.part = 1 /\ c.size > 1
         /\ rx' = <<c>> /\ LastHeard' = LastHeard
      \/ /\ rx # <<>> /\ Follows(rx[Len(rx)], c) /\ c.part < c.size
         /\ rx' = Append(rx, c) /\ LastHeard' = LastHeard
  BY <1>3, Heard
<1>5. TypeOK'
  <2>1. <<>> \in Seq(Chunks) /\ <<c>> \in Seq(Chunks) /\ Append(rx, c) \in Seq(Chunks)
    BY <1>1, <1>3
  <2>2. rx' \in Seq(Chunks)
    BY <1>4, <2>1
  <2>3. last' \in Seq(Chunks) /\ failed' \in BOOLEAN
    BY <1>1, <2>1 DEF Heed, Inv, TypeOK
  <2> QED  BY <1>1, <1>2, <2>2, <2>3 DEF Inv, TypeOK
<1>6. Known' /\ Ordered'
  BY <1>1, <1>2 DEF Inv, Stream, Known, Ordered
<1>7. Chained'
  <2> SUFFICES ASSUME NEW i \in 2..Len(wire'), wire'[i].part > 1
               PROVE  Follows(wire'[i - 1], wire'[i])
    BY DEF Chained, Follows, SamePdu
  <2>1. wire'[i] = wire[i + 1] /\ wire'[i - 1] = wire[i] /\ i + 1 \in 2..Len(wire)
    BY <1>2
  <2>2. Follows(wire[(i + 1) - 1], wire[i + 1])
    BY <2>1 DEF Inv, Stream, Chained
  <2> QED  BY <2>1, <2>2
<1>8. HeardBefore'
  <2>1. LastHeard \in 0..turn /\ \A i \in 1..Len(wire) : wire[i].part = 1 => LastHeard < wire[i].id
    BY DEF Inv, Stream, HeardBefore
  <2>2. LastHeard' \in 0..turn
    BY <1>1, <1>3, <1>4, <2>1
  <2>3. \A i \in 2..Len(wire) : wire[i].part = 1 => LastHeard' < wire[i].id
    BY <1>2, <1>4, <2>1
  <2> QED  BY <1>1, <1>2, <2>2, <2>3 DEF HeardBefore
(* What was joined until now, when it goes on.                             *)
<1>9. ASSUME rx' # <<>>
      PROVE  /\ rx' \in Seq(Chunks) /\ LastHeard' = LastHeard
             /\ rx'[Len(rx')] = c /\ Len(rx') = c.part /\ c.part < c.size
             /\ SamePdu(rx'[1], c) /\ LastHeard < c.id
             /\ \A i \in 1..Len(rx') : SamePdu(rx'[1], rx'[i]) /\ rx'[i].part = i
             /\ \A i \in 2..Len(wire) : wire[i].part = 1 => c.id < wire[i].id
  <2>1. CASE rx = <<>>
    <3>1. c.part = 1 /\ c.size > 1 /\ rx' = <<c>> /\ LastHeard' = LastHeard
      BY <1>4, <1>9, <2>1
    <3>2. /\ Len(rx') = 1 /\ rx'[1] = c /\ rx' \in Seq(Chunks)
      BY <1>3, <3>1
    <3>3. LastHeard < c.id
      BY <1>2, <3>1 DEF Inv, Stream, HeardBefore
    <3>4. \A i \in 2..Len(wire) : wire[i].part = 1 => c.id < wire[i].id
      BY <1>2 DEF Inv, Stream, Ordered
    <3> QED  BY <3>1, <3>2, <3>3, <3>4 DEF SamePdu
  <2>2. CASE rx # <<>>
    <3>1. /\ Follows(rx[Len(rx)], c) /\ c.part < c.size
          /\ rx' = Append(rx, c) /\ LastHeard' = LastHeard
      BY <1>4, <1>9, <2>2
    <3>2. /\ rx' \in Seq(Chunks) /\ Len(rx') = Len(rx) + 1 /\ Len(rx) \in Nat \ {0}
          /\ rx'[Len(rx')] = c /\ \A i \in 1..Len(rx) : rx'[i] = rx[i]
      BY <1>1, <1>3, <2>2, <3>1
    <3>3. /\ LastHeard < rx[1].id
          /\ \A i \in 1..Len(rx) : SamePdu(rx[1], rx[i]) /\ rx[i].part = i
          /\ \A i \in 1..Len(wire) : wire[i].part = 1 => rx[1].id < wire[i].id
      BY <2>2 DEF Inv, Stream, Joined
    <3>4. SamePdu(rx[1], c) /\ c.part = Len(rx) + 1
      BY <3>1, <3>2, <3>3 DEF Follows, SamePdu
    <3>5. \A i \in 1..Len(rx') : SamePdu(rx'[1], rx'[i]) /\ rx'[i].part = i
      BY <3>2, <3>3, <3>4
    <3>6. rx'[1] = rx[1]
      BY <3>2
    <3>7. LastHeard < c.id /\ \A i \in 2..Len(wire) : wire[i].part = 1 => c.id < wire[i].id
      BY <3>3, <3>4 DEF SamePdu
    <3> QED  BY <3>1, <3>2, <3>4, <3>5, <3>6, <3>7
  <2> QED  BY <2>1, <2>2
(* The chunk after c, if there is one, is its successor or a first one.    *)
<1>10. wire' # <<>> /\ wire'[1].part > 1 => Follows(c, wire'[1])
  <2> SUFFICES ASSUME wire' # <<>>, wire'[1].part > 1 PROVE Follows(c, wire'[1])
    OBVIOUS
  <2>1. wire'[1] = wire[2] /\ 2 \in 2..Len(wire) /\ 2 - 1 = 1
    BY <1>2
  <2>2. Follows(wire[2 - 1], wire[2])
    BY <2>1 DEF Inv, Stream, Chained
  <2> QED  BY <2>1, <2>2
<1>11. Joined'
  <2> SUFFICES ASSUME rx' # <<>> PROVE Joined'
    BY DEF Joined
  <2>1. rx'[1].id = c.id /\ rx'[1].size = c.size
    BY <1>9 DEF SamePdu
  <2>2. rx'[1].id <= turn' /\ LastHeard' < rx'[1].id /\ Len(rx') < rx'[1].size
    BY <1>1, <1>3, <1>9, <2>1
  <2>3. \A i \in 1..Len(wire') : wire'[i].part = 1 => rx'[1].id < wire'[i].id
    BY <1>2, <1>9, <2>1
  <2>4. wire' # <<>> /\ wire'[1].part > 1 => Follows(rx'[Len(rx')], wire'[1])
    BY <1>9, <1>10
  <2> QED  BY <1>9, <2>2, <2>3, <2>4 DEF Joined, SamePdu, Follows
<1>12. Continues'
  <2> SUFFICES ASSUME writer # Free PROVE Continues'
    BY <1>1 DEF Continues
  <2>1. ASSUME writer.next = 1
        PROVE  /\ LastHeard' < turn /\ (\A i \in 1..Len(wire') : wire'[i].id < turn)
               /\ rx' # <<>> => rx'[1].id < turn
    <3>1. LastHeard < turn /\ \A i \in 1..Len(wire) : wire[i].id < turn
      BY <1>1, <2>1 DEF Inv, Continues
    <3>2. c.id < turn
      BY <1>2, <3>1
    <3> QED  BY <1>2, <1>4, <1>9, <3>1, <3>2 DEF SamePdu
  <2>2. ASSUME writer.next > 1
        PROVE  /\ wire' # <<>> => Follows(wire'[Len(wire')], Chunk(writer, writer.next))
               /\ wire' = <<>> /\ rx' # <<>> =>
                    Follows(rx'[Len(rx')], Chunk(writer, writer.next))
    <3>1. Follows(wire[Len(wire)], Chunk(writer, writer.next))
      BY <1>1, <2>2 DEF Inv, Continues
    <3>2. wire' # <<>> => wire'[Len(wire')] = wire[Len(wire)]
      BY <1>2
    <3>3. wire' = <<>> => wire[Len(wire)] = c
      <4>1. wire' = <<>> => Len(wire') = 0
        OBVIOUS
      <4>2. Len(wire') = 0 => Len(wire) = 1
        BY <1>2
      <4> QED  BY <4>1, <4>2
    <3> QED  BY <1>9, <3>1, <3>2, <3>3
  <2> QED  BY <1>1, <2>1, <2>2 DEF Continues, Follows, SamePdu, Chunk
<1>13. Emptied'
  <2>1. failed' => rx' = <<>>
    BY <1>1 DEF Heed, Inv, Emptied
  <2> QED  BY <1>1, <2>1 DEF Emptied
<1> QED  BY <1>5, <1>6, <1>7, <1>8, <1>11, <1>12, <1>13 DEF Inv, Stream

-------------------------------------------------------------------------------
(* In every reachable state, whatever senders abandon and whatever breaks: *)
(* the writes in flight are those of successive PDUs, each cut short or    *)
(* not, and the transfer in _rx_buf is the beginning of the one PDU that   *)
(* the next write continues, if it does not begin another.                 *)
THEOREM StreamInOrder == Spec => []Inv
<1>1. Inv /\ [Next]_bearer => Inv'
  <2> SUFFICES ASSUME Inv, [Next]_bearer PROVE Inv'
    OBVIOUS
  <2>1. ASSUME NEW pdu \in Pdus, NEW size \in Nat \ {0}, Begin(pdu, size) PROVE Inv'
    BY <2>1, BeginInv
  <2>2. CASE Write
    BY <2>2, WriteInv
  <2>3. CASE Abandon
    BY <2>3, AbandonInv
  <2>4. CASE Notify
    BY <2>4, NotifyInv
  <2>5. CASE SarTimesOut \/ Break \/ Connect
    BY <2>5, LinkInv
  <2>6. CASE UNCHANGED bearer
    BY <2>6 DEF bearer, Inv, TypeOK, Stream, Known, Ordered, Chained, Joined, HeardBefore,
                Continues, Emptied, LastHeard, SamePdu, Follows, Chunk
  <2> QED  BY <2>1, <2>2, <2>3, <2>4, <2>5, <2>6 DEF Next
<1> QED  BY InitInv, <1>1, PTL DEF Spec

(* A notification passes a PDU up that was begun, later than the last one, *)
(* or passes up nothing.                                                   *)
LEMMA NotifyHears ==
  ASSUME Inv, Notify
  PROVE  turn' = turn /\ LastHeard' \in {LastHeard} \cup (LastHeard + 1)..turn
<1> DEFINE c == wire[1]
<1>1. wire # <<>> /\ wire \in Seq(Chunks) /\ turn' = turn /\ turn \in Nat
  BY DEF Notify, Inv, TypeOK
<1>2. c \in Chunks /\ Len(wire) \in Nat \ {0}
  BY <1>1
<1>3. c.id \in Nat /\ c.id <= turn
  BY <1>2 DEF Chunks, Inv, Stream, Known
<1>4. LastHeard' = LastHeard \/ (LastHeard' = c.id /\ LastHeard < c.id)
  BY <1>2, Heard
<1>5. LastHeard \in Nat
  BY <1>1 DEF Inv, Stream, HeardBefore
<1> QED  BY <1>1, <1>3, <1>4, <1>5

(* The bearer implements PduFifo: it may lose a Proxy PDU, but never       *)
(* splices two together, never passes one up twice or after a later one,   *)
(* and never one that no sender began.  Beginning to send is Submit, a     *)
(* notification that completes a PDU is Hear, everything else a stutter.   *)
THEOREM PdusWhole == Spec => PdusStayWhole
<1>1. Init => Fifo!FifoInit
  BY DEF Init, Fifo!FifoInit, LastHeard
<1>2. Inv /\ [Next]_bearer => [Fifo!Submit \/ Fifo!Hear]_<<turn, LastHeard>>
  <2> SUFFICES ASSUME Inv, [Next]_bearer
               PROVE  [Fifo!Submit \/ Fifo!Hear]_<<turn, LastHeard>>
    OBVIOUS
  <2>1. ASSUME NEW pdu \in Pdus, NEW size \in Nat \ {0}, Begin(pdu, size)
        PROVE  Fifo!Submit
    BY <2>1 DEF Begin, Fifo!Submit, LastHeard
  <2>2. CASE Notify
    BY <2>2, NotifyHears DEF Fifo!Hear
  <2>3. CASE Write \/ Abandon \/ SarTimesOut \/ Break \/ Connect \/ UNCHANGED bearer
    BY <2>3 DEF Write, Abandon, SarTimesOut, Break, Connect, bearer, LastHeard
  <2> QED  BY <2>1, <2>2, <2>3 DEF Next
<1> QED  BY <1>1, <1>2, StreamInOrder, PTL DEF Spec, PdusStayWhole, Fifo!FifoSpec

===============================================================================
