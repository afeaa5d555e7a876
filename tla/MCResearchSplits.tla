--------------------------- MODULE MCResearchSplits --------------------------
(***************************************************************************)
(* TLC instance of ResearchSplits: histories of two to twenty days, with   *)
(* weekends, without, and with a long holiday.                             *)
(***************************************************************************)
EXTENDS ResearchSplits

Daily(n) == [i \in 1 .. n |-> i]

MCCalendars ==
    {Daily(2), Daily(5), Daily(12), Daily(20),
     <<1, 2, 3, 4, 5, 8, 9, 10, 11, 12>>,
     <<1, 2, 9, 10, 11, 12, 15>>}

WeekCalendars == {<<1, 2, 3, 4, 5, 8, 9, 10, 11, 12, 15, 16, 17, 18, 19>>}
=============================================================================
