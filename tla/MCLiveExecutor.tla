--------------------------- MODULE MCLiveExecutor ---------------------------
(***************************************************************************)
(* TLC instance of LiveExecutor: assets and deployments are                *)
(* interchangeable.                                                        *)
(***************************************************************************)
EXTENDS LiveExecutor, TLC

ExecSymmetry == Permutations(LiveIds) \cup Permutations(Assets)
=============================================================================
