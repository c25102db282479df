------------------------------- MODULE PduFifo -------------------------------
(***************************************************************************)
(* What a GATT bearer promises the layer above it: of the Proxy PDUs       *)
(* handed to it, numbered in the order in which their sending began, each  *)
(* is heard whole or not at all, at most once, and never after a later     *)
(* one.  It may lose any of them (amaranble/gatt.py, MeshGattTransport).   *)
(***************************************************************************)
EXTENDS Integers

VARIABLES
  begun,        \* how many PDUs a sender has begun
  heard         \* the number of the last PDU that was heard

FifoInit == begun = 0 /\ heard = 0

Submit == begun' = begun + 1 /\ UNCHANGED heard

Hear == heard' \in (heard + 1)..begun /\ UNCHANGED begun

FifoSpec == FifoInit /\ [][Submit \/ Hear]_<<begun, heard>>
===============================================================================
