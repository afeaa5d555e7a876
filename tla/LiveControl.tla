----------------------------- MODULE LiveControl -----------------------------
(***************************************************************************)
(* Deployments and the kill switch (api_server/routes/live.py): the rows   *)
(* of meta_live_strategies, which outlive the process, and two variables   *)
(* of the process, which do not.  Every handler runs to its end without    *)
(* awaiting; a database error may end it between two statements.           *)
(*                                                                         *)
(* Time stamps are abstracted to the number of the activation during or    *)
(* after which they were taken, which is all the code compares them for:   *)
(* 0 stands for NULL / None.                                               *)
(***************************************************************************)
EXTENDS Naturals, FiniteSets

CONSTANTS
    LiveIds,        \* identifiers drawn for deployments
    Runs,           \* completed backtest runs
    MaxKills,       \* bound on activations of the kill switch
    DbFails         \* TRUE when a statement may fail

ASSUME LiveAssumption ==
    /\ MaxKills \in Nat
    /\ DbFails \in BOOLEAN

VARIABLES
    live,           \* meta_live_strategies, by live_id
    kill_active,    \* _kill_switch_active
    activated_at,   \* _kill_switch_activated_at
    activations,    \* the clock: how often the switch was activated
    torn            \* history: a request failed between two statements, and
                    \* neither /kill-switch nor /resume has succeeded since

liveVars == <<live, kill_active, activated_at, activations, torn>>

LiveStatus == {"none", "active", "stopped", "killed"}

LiveRow ==
    [status : LiveStatus, run : Runs \cup {"none"}, deployed_at : 0 .. MaxKills,
     stopped_at : 0 .. MaxKills]

NoRow == [status |-> "none", run |-> "none", deployed_at |-> 0, stopped_at |-> 0]

\* The row after UPDATE ... SET status, stopped_at.
Updated(row, new_status, time) ==
    [status |-> new_status, run |-> row.run, deployed_at |-> row.deployed_at,
     stopped_at |-> time]

Active == {l \in LiveIds : live[l].status = "active"}
Killed == {l \in LiveIds : live[l].status = "killed"}
-----------------------------------------------------------------------------
LiveInit ==
    /\ live = [l \in LiveIds |-> NoRow]
    /\ kill_active = FALSE
    /\ activated_at = 0
    /\ activations = 0
    /\ torn = FALSE

\* deploy_strategy: 409 when a deployment of the run is active.  It does not
\* look at the kill switch.
Deploy(l, r) ==
    /\ live[l].status = "none"
    /\ \A m \in Active : live[m].run # r
    /\ live' = [live EXCEPT ![l] =
           [status |-> "active", run |-> r, deployed_at |-> activations,
            stopped_at |-> 0]]
    /\ UNCHANGED <<kill_active, activated_at, activations, torn>>

\* stop_live_strategy: 409 unless the deployment is active.
Stop(l) ==
    /\ live[l].status = "active"
    /\ live' = [live EXCEPT ![l] = Updated(@, "stopped", activations)]
    /\ UNCHANGED <<kill_active, activated_at, activations, torn>>

\* The two module variables are set before the database is touched.
SwitchOn ==
    /\ activations < MaxKills
    /\ activations' = activations + 1
    /\ kill_active' = TRUE
    /\ activated_at' = activations + 1

\* activate_kill_switch: every active row is killed.  Orders are never pending
\* (executions are stored filled or rejected), and close_positions only counts.
KillSwitch ==
    /\ SwitchOn
    /\ live' = [l \in LiveIds |->
           IF l \in Active
           THEN Updated(live[l], "killed", activations + 1) ELSE live[l]]
    /\ torn' = FALSE

\* The UPDATE fails: the request answers 500, the flag stays on.
KillSwitchFails ==
    /\ DbFails
    /\ SwitchOn
    /\ torn' = TRUE
    /\ UNCHANGED live

\* Mutant of Restored: everything that was ended since the activation.
RestoredWithStopped ==
    {l \in LiveIds :
        /\ live[l].status \in {"killed", "stopped"}
        /\ activated_at # 0 => live[l].stopped_at >= activated_at}

\* The rows resume_strategies selects: killed since the activation the process
\* remembers, or all the killed ones when it remembers none.
Restored ==
    {l \in Killed : activated_at # 0 => live[l].stopped_at >= activated_at}

Restore ==
    live' = [l \in LiveIds |->
        IF l \in Restored
        THEN Updated(live[l], "active", 0) ELSE live[l]]

\* Mutant of Resume: the time of the activation is not cleared.
ResumeKeepsTime ==
    /\ Restore
    /\ kill_active' = FALSE
    /\ torn' = FALSE
    /\ UNCHANGED <<activated_at, activations>>

\* Mutant of Resume: neither variable of the process is cleared.
ResumeKeepsSwitch ==
    /\ Restore
    /\ torn' = FALSE
    /\ UNCHANGED <<kill_active, activated_at, activations>>

Resume ==
    /\ Restore
    /\ kill_active' = FALSE
    /\ activated_at' = 0
    /\ torn' = FALSE
    /\ UNCHANGED activations

\* The COUNT after the UPDATE fails: the rows are restored, the flag stays.
ResumeFails ==
    /\ DbFails
    /\ Restore
    /\ torn' = TRUE
    /\ UNCHANGED <<kill_active, activated_at, activations>>

\* The server process ends and starts again.
RestartServer ==
    /\ kill_active' = FALSE
    /\ activated_at' = 0
    /\ torn' = FALSE
    /\ UNCHANGED <<live, activations>>

LiveNext ==
    \/ \E l \in LiveIds, r \in Runs : Deploy(l, r)
    \/ \E l \in LiveIds : Stop(l)
    \/ KillSwitch \/ KillSwitchFails
    \/ Resume \/ ResumeFails
    \/ RestartServer

LiveSpec == LiveInit /\ [][LiveNext]_liveVars
-----------------------------------------------------------------------------
LiveTypeOK ==
    /\ live \in [LiveIds -> LiveRow]
    /\ kill_active \in BOOLEAN
    /\ activated_at \in 0 .. MaxKills
    /\ activations \in 0 .. MaxKills
    /\ torn \in BOOLEAN

\* The two variables of the process agree: a remembered activation is the
\* latest one and the flag is on, so /resume never selects by a stale time.
SwitchConsistent ==
    /\ kill_active => activated_at = activations /\ activations > 0
    /\ ~kill_active => activated_at = 0

\* "This preserves individually-stopped strategies": no sequence of kills,
\* resumes and restarts brings back a deployment its user stopped.
StoppedStaysStopped ==
    [][\A l \in LiveIds :
          live[l].status = "stopped" => live'[l] = live[l]]_liveVars

\* Once killed and not resumed, a deployment does not run: while the switch
\* is on, only what was deployed after the activation is active, unless the
\* latest kill or resume failed half-way.
KillHoldsUntilResume ==
    kill_active /\ ~torn => \A l \in Active : live[l].deployed_at >= activated_at

\* While the switch is off, a /resume would restore whatever is still killed
\* (left by an earlier one that selected by time, or by a restart): no killed
\* deployment is out of reach of the endpoint for good.
IdleResumeRestoresAll == ~kill_active => Restored = Killed
=============================================================================
