--------------------------- MODULE MCVectorBacktest --------------------------
(***************************************************************************)
(* TLC instance of VectorBacktest: two assets over a Thursday, a Friday, a *)
(* Monday and a Tuesday; closes of 20, 19 and 18, so that a fall of one    *)
(* step can be traded and one of two steps is a price limit; one tier      *)
(* of losses, whose exit leaves less than the smallest weight, two tiers   *)
(* of gains, which a rise from 18 to 20 both breaches, and a trailing      *)
(* stop; a gate that refuses a purchase or approves up to six shares, half *)
(* of what all of the money buys, of which the volume lets five through.   *)
(***************************************************************************)
EXTENDS VectorBacktest, TLC

MCAssets == <<"a", "b">>
MCLossTiers == << [threshold |-> -50, fraction |-> 99] >>
MCGainTiers == << [threshold |-> 50, fraction |-> 50], [threshold |-> 100, fraction |-> 50] >>
MCWeekday == <<3, 4, 0, 1>>
MCTrail == -80
=============================================================================
