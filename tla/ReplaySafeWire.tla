---------------------------- MODULE ReplaySafeWire ----------------------------
(***************************************************************************)
(* What the sequence-number machinery promises the mesh.                   *)
(*                                                                         *)
(* A node keeps, for each source address, the highest SEQ it has accepted  *)
(* and discards everything at or below it.  A transmitter is therefore     *)
(* heard only if every PDU it ever puts on the wire under one IV Index     *)
(* carries a larger SEQ than all PDUs before it, whatever happened to the  *)
(* transmitter in between, and only while the 24-bit space lasts           *)
(* (amaranble/sequence.py, module docstring and lines 13-18).              *)
(***************************************************************************)
EXTENDS Integers

CONSTANT Space          \* SEQUENCE_SPACE: the numbers are 0 .. Space - 1

VARIABLE frontier       \* every number below it may already be on the wire

WireInit == frontier \in 0..Space

(* One PDU goes out with a number nobody has used and nobody has passed.   *)
Transmit == \E s \in frontier..(Space - 1) : frontier' = s + 1

WireSpec == WireInit /\ [][Transmit]_frontier
===============================================================================
