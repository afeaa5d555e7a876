--------------------------- MODULE MCEventBacktest ---------------------------
(***************************************************************************)
(* TLC instance of EventBacktest: two assets over three days, closes of 10 *)
(* and 12 (limit days of each other when the day closes at its extreme)    *)
(* and days without a row; cash for six lots of two, and costs, so that    *)
(* the first day can already overdraw and a cut purchase be sold.          *)
(***************************************************************************)
EXTENDS EventBacktest, TLC

MCAssets == <<"a", "b">>
=============================================================================
