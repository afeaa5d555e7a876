----------------------------- MODULE MCJobQueue -----------------------------
(***************************************************************************)
(* TLC instance of JobQueue.  The jobs are interchangeable, but a property *)
(* of what eventually happens is checked, so no symmetry is used.          *)
(***************************************************************************)
EXTENDS JobQueue, TLC
=============================================================================
