------------------------ MODULE MCSequenceReservation ------------------------
(* SequenceReservation on a space of six numbers in blocks of two.         *)
EXTENDS SequenceReservation, TLC

AckSymmetry == Permutations(AckTasks)
===============================================================================
