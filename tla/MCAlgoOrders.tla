---------------------------- MODULE MCAlgoOrders ----------------------------
(***************************************************************************)
(* TLC instance of AlgoOrders.  The identifiers of the broker's orders are *)
(* those of the manual orders and of the slices.                           *)
(***************************************************************************)
EXTENDS AlgoOrders

MCOrderIds == ManualIds \cup (AlgoIds \X (0 .. MaxSlices - 1))
=============================================================================
