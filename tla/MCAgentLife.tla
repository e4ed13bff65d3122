----------------------------- MODULE MCAgentLife -----------------------------
(***************************************************************************)
(* AgentLife for TLC.  Requests are interchangeable; every property that is     *)
(* checked with this symmetry is a safety property (the leases are behaviours   *)
(* of steps, without fairness).                                              *)
(***************************************************************************)
EXTENDS AgentLife, TLC

RequestSymmetry == Permutations(Requests)
=============================================================================
