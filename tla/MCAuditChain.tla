---------------------------- MODULE MCAuditChain ----------------------------
(* Small instances of AuditChain.                                           *)
EXTENDS AuditChain, TLC

CONSTANTS w1, w2, w3, w4

Symmetry == Permutations(Writers)
=============================================================================
