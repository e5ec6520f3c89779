--------------------------- MODULE MCIssuanceLog ----------------------------
(* Small instances of IssuanceLog, SerialLog, ProofServer and ProofClients. *)
EXTENDS ProofClients, SerialLog, TLC

\* The kept levels reach the root of the largest log a run can build.
ASSUME LevelsReachRoot ==
    2^MaxLevel >= 1 + NumCerts * (1 + MaxFaults) + Cardinality(Orders)

\* Orders differ only in their name.
OrderSymmetry == Permutations(Orders)
=============================================================================
