--------------------------- MODULE MCProvisioning ---------------------------
(* Instances of Provisioning whose boards are interchangeable.             *)
EXTENDS Provisioning, TLC

BoardSymmetry == Permutations(Devices)

=============================================================================
