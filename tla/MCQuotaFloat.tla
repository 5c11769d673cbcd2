---------------------------- MODULE MCQuotaFloat ----------------------------
(* QuotaFloat for TLC: instances and addresses are interchangeable. *)
EXTENDS QuotaFloat, TLC

MCSymmetry == Permutations(Instances) \cup Permutations(Addresses)
=============================================================================
