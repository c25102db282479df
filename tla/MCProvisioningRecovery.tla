------------------------ MODULE MCProvisioningRecovery ------------------------
(* ProvisioningRecovery with one flow at a time, or with two.                *)
EXTENDS ProvisioningRecovery, TLC

FlowSymmetry == Permutations(Flows)
===============================================================================
