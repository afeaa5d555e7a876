------------------------------- MODULE JobPool -------------------------------
(***************************************************************************)
(* What the heavy-job queue of the API server promises: jobs wait in one   *)
(* line, at most Cap hold a slot, slots are given in the order of the      *)
(* line, and a slot is given up once.                                      *)
(***************************************************************************)
EXTENDS Naturals, Sequences, FiniteSets, SequencesExt

CONSTANTS
    Jobs,
    Cap             \* CQUANT_MAX_CONCURRENT_JOBS

VARIABLES
    line,           \* jobs that wait for a slot, first come first
    slots           \* jobs that hold one

poolVars == <<line, slots>>

InLine(j) == \E i \in DOMAIN line : line[i] = j

PoolInit == line = <<>> /\ slots = {}

\* A job takes a free slot at once when nobody waits, and joins the line
\* otherwise.
Enter(j) ==
    /\ ~InLine(j) /\ j \notin slots
    /\ IF line = <<>> /\ Cardinality(slots) < Cap
       THEN slots' = slots \cup {j} /\ UNCHANGED line
       ELSE line' = Append(line, j) /\ UNCHANGED slots

\* The first in line takes a free slot.
TakeSlot ==
    /\ line # <<>>
    /\ Cardinality(slots) < Cap
    /\ slots' = slots \cup {Head(line)}
    /\ line' = Tail(line)

GiveUpSlot(j) ==
    /\ j \in slots
    /\ slots' = slots \ {j}
    /\ UNCHANGED line

\* A job that waits is cancelled.
LeaveLine(j) ==
    /\ \E i \in DOMAIN line : line[i] = j /\ line' = RemoveAt(line, i)
    /\ UNCHANGED slots

\* The server restarts.
Forget == line' = <<>> /\ slots' = {}

PoolNext ==
    \/ \E j \in Jobs : Enter(j) \/ GiveUpSlot(j) \/ LeaveLine(j)
    \/ TakeSlot
    \/ Forget

PoolSpec == PoolInit /\ [][PoolNext]_poolVars
=============================================================================
